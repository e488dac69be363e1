-------------------------- MODULE DpfrCommHandshake --------------------------
(***************************************************************************)
(* The control plane of DpfrComm, with any number of planes and monitor    *)
(* threads and any bounds.                                                 *)
(*                                                                         *)
(* First, the connection implements the agreement on plane tables.  The    *)
(* tables change on their own only for local reports; all else follows     *)
(* from what messages, monitor threads and the two ends of a handshake     *)
(* carry along: TablesKnown says that each of them speaks of a transition  *)
(* the other process has already reached.                                  *)
(*                                                                         *)
(* Then what every argument about the recovery handshake starts from:      *)
(*   OneToken       one message, or one commit of the receiver, is all     *)
(*                  there is of a handshake, and it matches the sender's   *)
(*                  wait;                                                  *)
(*   SlotsSeparate  no queue pair is in two places of an end, and one that *)
(*                  is in none has nothing in its queues;                  *)
(*   ShadowInRecovery  the sender has a shadow only on the plane it        *)
(*                     recovers, and                                       *)
(*   SenderInactive    is not Active where either end is in a handshake;   *)
(*   SenderHolds       its shadow is there, or the receiver knows a newer  *)
(*                     generation and will refuse, and no event that could *)
(*                     destroy it is ahead of a positive answer.           *)
(* A step of Next is an OrdinaryStep, which leaves the handshake alone, or *)
(* the sender's or the receiver's step of the handshake, whose effects on  *)
(* a slot SenderMoves, RequestMoves, ReadyMoves and ReceiverMoves list.    *)
(*                                                                         *)
(* On top of these layers, what the handshake achieves: an answer finds    *)
(* the sender's shadow, the queue pairs the two ends commit are connected  *)
(* to each other, and the receiver never waits for a probe that is still   *)
(* to come.  RecoverySound is the layers above with                        *)
(*   Pairing        the shadows, and later the active ones, are connected  *)
(*                  to each other.                                         *)
(* ProbeSound follows the probe of a shadow through the queues:            *)
(*   ProbeStages    the receiver's half is posted, received or lost,       *)
(*   ProbeFree      and no queue pair but a shadow has one;                *)
(*   SenderProbe    the sender's half is one request or completion, and    *)
(*                  when it has gone through, the other has been received; *)
(*   ReadyProbe     as it has when Ready is under way.                     *)
(*                                                                         *)
(* Last, no wait of the sender is in vain: its question, the receiver's    *)
(* work on it or the answer exists as long as it waits.                    *)
(***************************************************************************)
EXTENDS DpfrCommProofs

\* The health an event reports.
Told(up) == IF up THEN "Recovering" ELSE "Broken"

\* The end whose entry is e has readmitted the plane at g, or moved on since.
Readmitted(e, g) == e.gen > g \/ (e.gen = g /\ e.health = "Healthy")

\* A message on its way to s names a transition its sender has reached; the
\* sender asks and the receiver answers.
KnownMessage(T, s, m) ==
    LET e == T[Peer(s)][m.plane]
    IN /\ m.type = "PlaneEvent" => Agreement!Reached(e, m.gen, Told(m.up))
       /\ m.type \in {"RecoveryReq", "RecoveryReady"} =>
             s = "R" /\ Agreement!Reached(e, m.gen, "Recovering")
       /\ m.type = "RecoveryAck" => s = "S" /\ (m.ok => Readmitted(e, m.gen))
       /\ m.type = "RecoveryResp" => s = "S"

\* So does what a monitor thread of s has to deliver, ...
KnownDelivery(T, s, d) ==
    d.stage # "wait" => Agreement!Reached(T[s][d.plane], d.gen, Told(d.up))

\* ... and what an end in a handshake works on, of which the sender has made
\* its own entry and the receiver acknowledges only what it has readmitted.
KnownPosition(T, s, at) ==
    /\ at.ph \in {"resp", "probe", "ack", "mark"} =>
          s = "S" /\ Agreement!Reached(T["S"][at.plane], at.gen, "Recovering")
    /\ at.ph = "mark" => Readmitted(T["R"][at.plane], at.gen)
    /\ at.ph \in {"rprobe", "rmark"} =>
          s = "R" /\ Agreement!Reached(T["S"][at.plane], at.gen, "Recovering")

TablesKnown ==
    /\ \A s \in Sides : \A i \in 1 .. Len(net[s]) : KnownMessage(table, s, net[s][i])
    /\ \A s \in Sides, t \in Threads : KnownDelivery(table, s, mon[s][t])
    /\ \A s \in Sides : KnownPosition(table, s, pc[s])

-----------------------------------------------------------------------------
\* Every entry takes a step of the agreement: to a larger generation, or from
\* Recovering to Healthy within its own.
TableGrows ==
    \A s \in Sides, p \in Planes : Agreement!EntryStep(table[s][p], table'[s][p])

\* Such a step loses nothing that has been reached.
LEMMA ReachedKept ==
    ASSUME NEW e \in PlaneEntry, NEW f \in PlaneEntry, NEW g \in Nat, Agreement!EntryStep(e, f)
    PROVE  /\ \A h : Agreement!Reached(e, g, h) => Agreement!Reached(f, g, h)
           /\ Readmitted(e, g) => Readmitted(f, g)
  BY DEF Agreement!EntryStep, Agreement!Reached, Readmitted, PlaneEntry, PlaneHealth

LEMMA KnownKept ==
    ASSUME TypeOK, TypeOK', TableGrows, NEW s \in Sides
    PROVE  /\ \A m \in Messages : KnownMessage(table, s, m) => KnownMessage(table', s, m)
           /\ \A d \in Deliveries : KnownDelivery(table, s, d) => KnownDelivery(table', s, d)
           /\ \A at \in Positions : KnownPosition(table, s, at) => KnownPosition(table', s, at)
<1>1. ASSUME NEW t \in Sides, NEW p \in Planes, NEW g \in Nat
      PROVE  /\ \A h : Agreement!Reached(table[t][p], g, h)
                          => Agreement!Reached(table'[t][p], g, h)
             /\ Readmitted(table[t][p], g) => Readmitted(table'[t][p], g)
  <2>1. table[t][p] \in PlaneEntry /\ table'[t][p] \in PlaneEntry
    BY DEF TypeOK
  <2> QED BY <2>1, ReachedKept DEF TableGrows
<1>2. ASSUME NEW m \in Messages, KnownMessage(table, s, m)
      PROVE  KnownMessage(table', s, m)
  <2>1. m.type \notin {"Query", "QueryResp"} => m.plane \in Planes /\ m.gen \in Nat
    BY MessageFields
  <2> QED BY <1>1, <1>2, <2>1, SidesAndPlanes DEF KnownMessage
<1>3. ASSUME NEW d \in Deliveries, KnownDelivery(table, s, d)
      PROVE  KnownDelivery(table', s, d)
  BY <1>1, <1>3 DEF KnownDelivery, Deliveries
<1>4. ASSUME NEW at \in Positions, KnownPosition(table, s, at)
      PROVE  KnownPosition(table', s, at)
  BY <1>1, <1>4, SidesAndPlanes DEF KnownPosition, Positions
<1> QED BY <1>2, <1>3, <1>4

\* What sending and receiving leave on the sockets.
NetKnown ==
    \A s \in Sides : \A i \in 1 .. Len(net'[s]) :
        (\E j \in 1 .. Len(net[s]) : net'[s][i] = net[s][j]) \/ KnownMessage(table', s, net'[s][i])

LEMMA SocketMoves ==
    ASSUME TypeOK, NEW s \in Sides, NEW m \in Messages,
           \/ UNCHANGED net
           \/ net[s] # <<>> /\ Receive(s)
           \/ Send(s, m) /\ KnownMessage(table', Peer(s), m)
           \/ net[s] # <<>> /\ ReceiveAndSend(s, m) /\ KnownMessage(table', Peer(s), m)
    PROVE  NetKnown
<1>1. net \in [Sides -> Seq(Messages)] /\ Peer(s) \in Sides /\ Peer(s) # s
  BY SidesAndPlanes DEF TypeOK
<1> SUFFICES ASSUME NEW t \in Sides, NEW i \in 1 .. Len(net'[t])
             PROVE  \/ \E j \in 1 .. Len(net[t]) : net'[t][i] = net[t][j]
                    \/ KnownMessage(table', t, net'[t][i])
  BY DEF NetKnown
<1>2. \/ net'[t] = net[t]
      \/ net[t] # <<>> /\ net'[t] = Tail(net[t])
      \/ t = Peer(s) /\ net'[t] = Append(net[t], m) /\ KnownMessage(table', t, m)
  BY <1>1 DEF Receive, Send, ReceiveAndSend
<1>3. net[t] \in Seq(Messages)
  BY <1>1
<1>4. CASE net'[t] = net[t]
  BY <1>4
<1>5. CASE net[t] # <<>> /\ net'[t] = Tail(net[t])
  <2>1. i + 1 \in 1 .. Len(net[t]) /\ net'[t][i] = net[t][i + 1]
    BY <1>3, <1>5
  <2> QED BY <2>1
<1>6. CASE net'[t] = Append(net[t], m) /\ KnownMessage(table', t, m)
  <2>1. i \in 1 .. Len(net[t]) + 1
        /\ net'[t][i] = IF i = Len(net[t]) + 1 THEN m ELSE net[t][i]
    BY <1>3, <1>6
  <2>2. CASE i = Len(net[t]) + 1
    <3>1. net'[t][i] = m
      BY <2>1, <2>2
    <3> QED BY <1>6, <3>1
  <2>3. CASE i # Len(net[t]) + 1
    BY <1>3, <2>1, <2>3
  <2> QED BY <2>2, <2>3
<1> QED BY <1>2, <1>4, <1>5, <1>6

\* A step that lets the tables grow keeps what is known, if the messages sent
\* and the new deliveries and positions are known.
LEMMA KnownStep ==
    ASSUME TypeOK, TypeOK', TablesKnown, TableGrows, NetKnown,
           \A s \in Sides, t \in Threads : mon'[s][t] = mon[s][t] \/ KnownDelivery(table', s, mon'[s][t]),
           \A s \in Sides : pc'[s] = pc[s] \/ KnownPosition(table', s, pc'[s])
    PROVE  TablesKnown'
<1>1. ASSUME NEW s \in Sides, NEW i \in 1 .. Len(net'[s])
      PROVE  KnownMessage(table', s, net'[s][i])
  <2>1. CASE \E j \in 1 .. Len(net[s]) : net'[s][i] = net[s][j]
    <3>1. PICK j \in 1 .. Len(net[s]) : net'[s][i] = net[s][j]
      BY <2>1
    <3>2. net[s][j] \in Messages /\ KnownMessage(table, s, net[s][j])
      BY DEF TypeOK, TablesKnown
    <3> QED BY <3>1, <3>2, KnownKept
  <2> QED BY <2>1 DEF NetKnown
<1>2. ASSUME NEW s \in Sides, NEW t \in Threads
      PROVE  KnownDelivery(table', s, mon'[s][t])
  <2>1. mon[s][t] \in Deliveries /\ KnownDelivery(table, s, mon[s][t])
    BY DEF TypeOK, TablesKnown
  <2> QED BY <2>1, KnownKept
<1>3. ASSUME NEW s \in Sides
      PROVE  KnownPosition(table', s, pc'[s])
  <2>1. pc[s] \in Positions /\ KnownPosition(table, s, pc[s])
    BY DEF TypeOK, TablesKnown
  <2> QED BY <2>1, KnownKept
<1> QED BY <1>1, <1>2, <1>3 DEF TablesKnown

-----------------------------------------------------------------------------
\* The ways a table changes, each of them a step of the agreement.
TableStep == TableGrows /\ (Agreement!Next \/ UNCHANGED table)

LEMMA SameTable ==
    ASSUME UNCHANGED table
    PROVE  TableStep
  BY DEF TableStep, TableGrows, Agreement!EntryStep

\* One entry changes.
LEMMA OneEntryGrows ==
    ASSUME TypeOK, NEW s \in Sides, NEW p \in Planes, NEW f,
           table' = [table EXCEPT ![s][p] = f], Agreement!EntryStep(table[s][p], f)
    PROVE  TableGrows /\ table'[s][p] = f
  BY DEF TypeOK, TableGrows, Agreement!EntryStep

\* A local report, of a monitor or a completion error.
LEMMA LocalReport ==
    ASSUME TypeOK, NEW s \in Sides, NEW p \in Planes, NEW up \in BOOLEAN,
           table' = [table EXCEPT ![s][p] =
                       IF up THEN MarkRecovering(table[s][p]) ELSE MarkBroken(table[s][p])]
    PROVE  /\ TableStep
           /\ Agreement!Reached(table'[s][p], table'[s][p].gen, Told(up))
<1> DEFINE e == table[s][p]
           f == IF up THEN MarkRecovering(e) ELSE MarkBroken(e)
<1>1. e \in PlaneEntry
  BY DEF TypeOK
<1>2. /\ Agreement!EntryStep(e, f)
      /\ Agreement!Reached(f, f.gen, Told(up))
  BY <1>1 DEF MarkRecovering, MarkBroken, MarkAs, PlaneEntry, PlaneHealth, Told,
              Agreement!EntryStep, Agreement!Reached
<1>3. Agreement!LocalBroken(s, p) \/ Agreement!LocalRecovering(s, p)
  BY <1>1 DEF PlaneEntry, MarkRecovering, MarkBroken, MarkAs, Agreement!LocalBroken,
              Agreement!LocalRecovering, Agreement!MarkRecovering, Agreement!MarkBroken,
              Agreement!MarkAs
<1>4. Agreement!Next
  BY <1>3 DEF Agreement!Next, Agreement!Sides, Sides
<1>5. table' = [table EXCEPT ![s][p] = f]
  OBVIOUS
<1> HIDE DEF f
<1>6. TableGrows /\ table'[s][p] = f
  BY <1>2, <1>5, OneEntryGrows
<1> QED BY <1>2, <1>4, <1>6 DEF TableStep

\* An event of the peer, or the generation of its request.
LEMMA RemoteReport ==
    ASSUME TypeOK, NEW s \in Sides, NEW p \in Planes, NEW g \in Nat,
           NEW h \in {"Broken", "Recovering"},
           Agreement!Reached(table[Peer(s)][p], g, h),
           table' = [table EXCEPT ![s][p] = ApplyRemoteEvent(@, g, h)]
    PROVE  TableStep
<1> DEFINE e == table[s][p]
           f == ApplyRemoteEvent(e, g, h)
<1>1. e \in PlaneEntry /\ table[Peer(s)][p] \in PlaneEntry
  BY SidesAndPlanes DEF TypeOK
<1>2. Agreement!EntryStep(e, f)
  BY <1>1 DEF ApplyRemoteEvent, RemoteEventApplies, PlaneEntry, Agreement!EntryStep
<1>3. TableGrows
  BY <1>2, OneEntryGrows
<1>4. CASE RemoteEventApplies(e, g)
  <2>1. g \in 1 .. table[Agreement!Peer(s)][p].gen
    BY <1>1, <1>4 DEF RemoteEventApplies, PlaneEntry, Agreement!Reached, Agreement!Peer, Peer
  <2>2. Agreement!Learn(s, p, g, h)
    BY DEF Agreement!Learn, Agreement!Peer, Peer, ApplyRemoteEvent, RemoteEventApplies,
           Agreement!ApplyRemoteEvent, Agreement!RemoteEventApplies
  <2>3. \E n \in 1 .. table[Agreement!Peer(s)][p].gen, k \in {"Broken", "Recovering"} :
            Agreement!Learn(s, p, n, k)
    BY <2>1, <2>2, Zenon DEF Agreement!Learn
  <2>4. s \in Agreement!Sides
    BY DEF Agreement!Sides, Sides
  <2>5. Agreement!Next
    BY <2>3, <2>4, Zenon DEF Agreement!Next
  <2> QED BY <1>3, <2>5 DEF TableStep
<1>5. CASE ~RemoteEventApplies(e, g)
  <2>1. UNCHANGED table
    BY <1>5 DEF ApplyRemoteEvent, TypeOK
  <2> QED BY <2>1, SameTable
<1> QED BY <1>4, <1>5

\* The end of a handshake.
LEMMA Readmission ==
    ASSUME TypeOK, NEW s \in Sides, NEW p \in Planes, NEW g \in Nat,
           Agreement!Reached(table[Peer(s)][p], g, "Recovering"),
           s = "S" => Readmitted(table["R"][p], g),
           table' = [table EXCEPT ![s][p] = MarkHealthyIfGeneration(@, g)]
    PROVE  /\ TableStep
           /\ HealthyIfGenerationOK(table[s][p], g) => Readmitted(table'[s][p], g)
<1> DEFINE e == table[s][p]
           f == MarkHealthyIfGeneration(e, g)
<1>1. e \in PlaneEntry /\ table[Peer(s)][p] \in PlaneEntry
  BY SidesAndPlanes DEF TypeOK
<1>2. /\ Agreement!EntryStep(e, f)
      /\ HealthyIfGenerationOK(e, g) => Readmitted(f, g)
      /\ f = e \/ (e.health = "Recovering" /\ e.gen = g)
  BY <1>1 DEF MarkHealthyIfGeneration, HealthyIfGenerationOK, PlaneEntry, PlaneHealth,
              Agreement!EntryStep, Readmitted
<1>3. TableGrows /\ table'[s][p] = f
  BY <1>2, OneEntryGrows
<1>4. CASE f = e
  <2>1. UNCHANGED table
    BY <1>4 DEF TypeOK
  <2> QED BY <1>2, <1>3, <2>1 DEF TableStep
<1>5. CASE e.health = "Recovering" /\ e.gen = g
  <2>1. s = "S" /\ table[Peer(s)][p].gen = g => table[Peer(s)][p].health = "Healthy"
    BY <1>1 DEF Readmitted, Peer, PlaneEntry
  <2>2. Agreement!Readmit(s, p)
    BY <1>5, <2>1 DEF Agreement!Readmit, Agreement!Peer, Peer, Agreement!MarkHealthyIfGeneration,
           Agreement!HealthyIfGenerationOK, MarkHealthyIfGeneration, HealthyIfGenerationOK
  <2>3. Agreement!Next
    BY <2>2 DEF Agreement!Next, Agreement!Sides, Sides
  <2> QED BY <1>2, <1>3, <2>3 DEF TableStep
<1> QED BY <1>2, <1>4, <1>5

-----------------------------------------------------------------------------
\* handleControl and what precedes the completions moves nobody in a handshake.
LEMMA HandlePosition ==
    ASSUME TypeOK, NEW s \in Sides, AfterHandle(s)
    PROVE  \A t \in Sides : pc'[t] = pc[t] \/ KnownPosition(table', t, pc'[t])
  BY DEF AfterHandle, Goto, At, In, KnownPosition, TypeOK

\* Moving one side.
LEMMA GotoPosition ==
    ASSUME TypeOK, NEW s \in Sides, NEW ph, NEW p, NEW g,
           (Goto(s, ph) /\ p = 0 /\ g = 0) \/ GotoOn(s, ph, p, g),
           KnownPosition(table', s, [ph |-> ph, plane |-> p, gen |-> g])
    PROVE  \A t \in Sides : pc'[t] = pc[t] \/ KnownPosition(table', t, pc'[t])
  BY DEF Goto, GotoOn, At, TypeOK

LEMMA FabricKnown ==
    ASSUME TypeOK, TypeOK', TablesKnown, Fabric
    PROVE  TablesKnown' /\ TableStep
<1>1. UNCHANGED <<table, net, mon, pc>>
  BY DEF Fabric, Deliver, Acknowledge, QpError
<1> QED BY <1>1, SameTable DEF TablesKnown

\* The monitors tell the peer what they have marked themselves.
LEMMA MonitorsKnown ==
    ASSUME TypeOK, TypeOK', TablesKnown, Monitors
    PROVE  TablesKnown' /\ TableStep
<1>1. PICK s \in Sides, t \in Threads :
          \/ \E p \in Planes, up \in BOOLEAN : MonitorMark(s, t, p, up)
          \/ MonitorNotify(s, t) \/ MonitorSend(s, t)
  BY DEF Monitors
<1>2. UNCHANGED pc
  BY <1>1 DEF MonitorMark, MonitorNotify, MonitorSend
<1>3. mon[s][t] \in Deliveries /\ KnownDelivery(table, s, mon[s][t])
  BY DEF TypeOK, TablesKnown
<1>4. Peer(s) \in Sides /\ Peer(Peer(s)) = s
  BY DEF Peer, Sides
<1>5. ASSUME NEW p \in Planes, NEW up \in BOOLEAN, MonitorMark(s, t, p, up)
      PROVE  TablesKnown' /\ TableStep
  <2> DEFINE entry == IF up THEN MarkRecovering(table[s][p]) ELSE MarkBroken(table[s][p])
             d == [stage |-> "notify", plane |-> p, gen |-> entry.gen, up |-> up]
  <2>1. /\ table' = [table EXCEPT ![s][p] = entry]
        /\ mon' = [mon EXCEPT ![s][t] = d]
        /\ UNCHANGED net
    BY <1>5 DEF MonitorMark
  <2>2. TableStep /\ Agreement!Reached(table'[s][p], table'[s][p].gen, Told(up))
    BY <2>1, LocalReport
  <2>3. table'[s][p] = entry
    BY <2>1 DEF TypeOK
  <2>4. KnownDelivery(table', s, d)
    BY <2>2, <2>3 DEF KnownDelivery
  <2> HIDE DEF d
  <2>5. \A o \in Sides, u \in Threads :
            mon'[o][u] = mon[o][u] \/ KnownDelivery(table', o, mon'[o][u])
    BY <2>1, <2>4 DEF TypeOK
  <2>6. NetKnown
    BY <2>1 DEF NetKnown
  <2> QED BY <1>2, <2>2, <2>5, <2>6, KnownStep DEF TableStep
<1>6. CASE MonitorNotify(s, t)
  <2>1. UNCHANGED <<table, net>> /\ mon' = [mon EXCEPT ![s][t].stage = "send"]
        /\ mon[s][t].stage = "notify"
    BY <1>6 DEF MonitorNotify
  <2>2. KnownDelivery(table', s, mon'[s][t])
    BY <1>3, <2>1 DEF KnownDelivery, TypeOK, Deliveries
  <2>3. \A o \in Sides, u \in Threads :
            mon'[o][u] = mon[o][u] \/ KnownDelivery(table', o, mon'[o][u])
    BY <2>1, <2>2 DEF TypeOK
  <2>4. NetKnown
    BY <2>1 DEF NetKnown
  <2> QED BY <1>2, <2>1, <2>3, <2>4, SameTable, KnownStep DEF TableStep
<1>7. CASE MonitorSend(s, t)
  <2> DEFINE d == mon[s][t]
             m == PlaneEvent(d.plane, d.gen, d.up)
  <2>1. UNCHANGED table /\ mon' = [mon EXCEPT ![s][t] = NoDelivery] /\ d.stage = "send"
        /\ Send(s, m)
    BY <1>7 DEF MonitorSend
  <2>2. m \in Messages
    BY <1>3, MessageTypes DEF Deliveries
  <2>3. KnownMessage(table', Peer(s), m)
    BY <1>3, <1>4, <2>1 DEF KnownMessage, KnownDelivery, PlaneEvent
  <2> HIDE DEF m
  <2>4. NetKnown
    BY <2>1, <2>2, <2>3, SocketMoves
  <2>5. \A o \in Sides, u \in Threads :
            mon'[o][u] = mon[o][u] \/ KnownDelivery(table', o, mon'[o][u])
    BY <2>1 DEF TypeOK, NoDelivery, KnownDelivery
  <2> QED BY <1>2, <2>1, <2>4, <2>5, SameTable, KnownStep DEF TableStep
<1> QED BY <1>1, <1>5, <1>6, <1>7

\* A peer's event is learnt; an answer nobody waits for changes nothing.
LEMMA ControlKnown ==
    ASSUME TypeOK, TypeOK', TablesKnown, Control
    PROVE  TablesKnown' /\ TableStep
<1>1. PICK s \in Sides : RecvPlaneEvent(s) \/ IgnoreAnswer(s)
  BY DEF Control
<1> DEFINE m == Head(net[s])
<1>2. /\ net[s] # <<>> /\ Receive(s) /\ AfterHandle(s) /\ UNCHANGED mon
      /\ m \in Messages /\ KnownMessage(table, s, m)
  <2>1. net[s] # <<>> /\ Receive(s) /\ AfterHandle(s) /\ UNCHANGED mon
    BY <1>1 DEF RecvPlaneEvent, IgnoreAnswer, Arrived
  <2>2. 1 \in 1 .. Len(net[s]) /\ m = net[s][1]
    BY <2>1 DEF TypeOK
  <2> QED BY <2>1, <2>2 DEF TypeOK, TablesKnown
<1>3. NetKnown
  BY <1>2, SocketMoves
<1>4. TableStep
  <2>1. CASE RecvPlaneEvent(s)
    <3> DEFINE h == IF m.up THEN "Recovering" ELSE "Broken"
    <3>1. m.plane \in Planes /\ m.gen \in Nat /\ m.type = "PlaneEvent"
      BY <1>2, <2>1, MessageFields DEF RecvPlaneEvent, Arrived
    <3>2. table' = [table EXCEPT ![s][m.plane] = ApplyRemoteEvent(@, m.gen, h)]
      BY <2>1 DEF RecvPlaneEvent
    <3>3. Agreement!Reached(table[Peer(s)][m.plane], m.gen, h)
      BY <1>2, <3>1 DEF KnownMessage, Told
    <3>4. h \in {"Broken", "Recovering"}
      OBVIOUS
    <3> HIDE DEF h, m
    <3> QED BY <3>1, <3>2, <3>3, <3>4, RemoteReport
  <2>2. CASE IgnoreAnswer(s)
    BY <2>2, SameTable DEF IgnoreAnswer
  <2> QED BY <1>1, <2>1, <2>2
<1> QED BY <1>2, <1>3, <1>4, HandlePosition, KnownStep DEF TableStep

\* NCCL's calls: a completion error is a report like a monitor's.
LEMMA CallsKnown ==
    ASSUME TypeOK, TypeOK', TablesKnown, Calls
    PROVE  TablesKnown' /\ TableStep
<1>1. PICK s \in Sides : PollCq(s) \/ Return(s) \/ Post(s) \/ Backpressure(s) \/ Test(s)
  BY DEF Calls
<1>2. CASE Return(s) \/ Post(s) \/ Backpressure(s) \/ Test(s)
  <2>1. UNCHANGED <<table, net, mon>> /\ (UNCHANGED pc \/ Goto(s, "idle"))
    BY <1>2 DEF Return, Post, Backpressure, Test
  <2>2. \A t \in Sides : pc'[t] = pc[t] \/ KnownPosition(table', t, pc'[t])
    <3>1. KnownPosition(table', s, [ph |-> "idle", plane |-> 0, gen |-> 0])
      BY DEF KnownPosition
    <3> QED BY <2>1, <3>1, GotoPosition
  <2>3. NetKnown
    BY <2>1 DEF NetKnown
  <2> QED BY <2>1, <2>2, <2>3, SameTable, KnownStep DEF TableStep
<1>3. CASE PollCq(s)
  <2>0. PICK p \in Planes : \E e \in PolledEndpoints(slots[s][p]) :
          \/ \E ok \in BOOLEAN : PollProbe(s, p, e, ok) \/ PollStale(s, p, e, ok)
          \/ PollSuccess(s, p, e) \/ PollStaleError(s, p, e) \/ PollError(s, p, e)
    BY <1>3 DEF PollCq
  <2>1. PICK e \in PolledEndpoints(slots[s][p]) :
          \/ \E ok \in BOOLEAN : PollProbe(s, p, e, ok) \/ PollStale(s, p, e, ok)
          \/ PollSuccess(s, p, e) \/ PollStaleError(s, p, e) \/ PollError(s, p, e)
    BY <2>0
  <2>2. UNCHANGED mon /\ GotoOn(s, "cqs", p, Rank(slots[s][p], e))
    BY <2>1 DEF PollProbe, PollStale, PollSuccess, PollStaleError, PollError, PollAt
  <2>3. \A t \in Sides : pc'[t] = pc[t] \/ KnownPosition(table', t, pc'[t])
    <3> DEFINE r == Rank(slots[s][p], e)
    <3>1. KnownPosition(table', s, [ph |-> "cqs", plane |-> p, gen |-> r])
      BY DEF KnownPosition
    <3>2. GotoOn(s, "cqs", p, r)
      BY <2>2
    <3> HIDE DEF r
    <3> QED BY <3>1, <3>2, GotoPosition
  <2>4. CASE UNCHANGED <<table, net>>
    <3>1. NetKnown
      BY <2>4 DEF NetKnown
    <3> QED BY <2>2, <2>3, <2>4, <3>1, SameTable, KnownStep DEF TableStep
  <2>5. CASE PollError(s, p, e)
    <3> DEFINE entry == MarkBroken(table[s][p])
               m == PlaneEvent(p, entry.gen, FALSE)
    <3>1. table' = [table EXCEPT ![s][p] = entry] /\ Send(s, m)
      BY <2>5 DEF PollError
    <3>2. TableStep /\ Agreement!Reached(table'[s][p], table'[s][p].gen, Told(FALSE))
      <4>1. FALSE \in BOOLEAN
        OBVIOUS
      <4> QED BY <3>1, <4>1, LocalReport
    <3>3. table'[s][p] = entry /\ table'[s][p] \in PlaneEntry
      BY <3>1 DEF TypeOK
    <3>4. Peer(Peer(s)) = s
      BY DEF Peer, Sides
    <3>5. m \in Messages
      BY <3>3, MessageTypes DEF PlaneEntry
    <3>6. KnownMessage(table', Peer(s), m)
      BY <3>2, <3>3, <3>4 DEF KnownMessage, PlaneEvent
    <3> HIDE DEF m
    <3>7. NetKnown
      BY <3>1, <3>5, <3>6, SocketMoves
    <3> QED BY <2>2, <2>3, <3>2, <3>7, KnownStep DEF TableStep
  <2> QED BY <2>1, <2>4, <2>5 DEF PollProbe, PollStale, PollSuccess, PollStaleError
<1> QED BY <1>1, <1>2, <1>3

\* What is known of the answer the sender waits for.
LEMMA AwaitedKnown ==
    ASSUME TypeOK, TablesKnown,
           Arrived("S", "RecoveryResp") \/ Arrived("S", "RecoveryAck"),
           Awaited("S", Head(net["S"]))
    PROVE  LET m == Head(net["S"])
           IN  /\ net["S"] # <<>> /\ m \in Messages /\ KnownMessage(table, "S", m)
               /\ m.plane = pc["S"].plane /\ m.gen = pc["S"].gen
               /\ \/ m.type = "RecoveryResp" /\ In("S", {"resp"})
                  \/ m.type = "RecoveryAck" /\ In("S", {"ack"})
<1>1. net["S"] # <<>>
  BY DEF Arrived
<1>2. 1 \in 1 .. Len(net["S"]) /\ Head(net["S"]) = net["S"][1] /\ net["S"] \in Seq(Messages)
  BY <1>1, SidesAndPlanes DEF TypeOK
<1>3. "S" \in Sides /\ net["S"][1] \in Messages
  BY <1>2, SidesAndPlanes
<1>4. KnownMessage(table, "S", net["S"][1])
  BY <1>2, <1>3 DEF TablesKnown
<1> DEFINE m == Head(net["S"])
<1>5. (m.type = "RecoveryResp" \/ m.type = "RecoveryAck") /\ Awaited("S", m)
  BY DEF Arrived
<1> HIDE DEF m
<1>6. /\ m.plane = pc["S"].plane /\ m.gen = pc["S"].gen
      /\ \/ m.type = "RecoveryResp" /\ In("S", {"resp"})
         \/ m.type = "RecoveryAck" /\ In("S", {"ack"})
  BY <1>5 DEF Awaited
<1> QED BY <1>1, <1>2, <1>3, <1>4, <1>6 DEF m

\* The sender asks about the plane as its own table has it, and readmits it
\* when the receiver has.
LEMMA SenderKnown ==
    ASSUME TypeOK, TypeOK', TablesKnown, Sender
    PROVE  TablesKnown' /\ TableStep
<1> DEFINE p == pc["S"].plane
           g == pc["S"].gen
           m == Head(net["S"])
           Moved == \A t \in Sides : pc'[t] = pc[t] \/ KnownPosition(table', t, pc'[t])
<1>1. /\ "S" \in Sides /\ Peer("S") = "R" /\ Peer("R") = "S"
      /\ p \in Planes /\ g \in Nat /\ KnownPosition(table, "S", pc["S"])
  BY StateTypes, SidesAndPlanes DEF TablesKnown, Peer
<1>2. UNCHANGED mon
  BY DEF Sender, StartQuery, RecvQueryResp, QueryTimeout, ReplayLater, RecoverStart,
         RecoverRefused, RecoverConnect, ProbeOk, ProbeFailed, RecvAck, MarkHealthyS,
         HandshakeTimeout
<1>3. ASSUME NetKnown, Moved, TableStep
      PROVE  TablesKnown' /\ TableStep
  BY <1>2, <1>3, KnownStep DEF TableStep
<1>4. CASE StartQuery \/ RecvQueryResp \/ QueryTimeout \/ ReplayLater \/ HandshakeTimeout
  <2>1. \E ph \in {"query", "replayed", "failed"} : Goto("S", ph)
    BY <1>4 DEF StartQuery, RecvQueryResp, QueryTimeout, ReplayLater, HandshakeTimeout
  <2>2. Moved
    <3>1. PICK ph \in {"query", "replayed", "failed"} : Goto("S", ph)
      BY <2>1
    <3>2. KnownPosition(table', "S", [ph |-> ph, plane |-> 0, gen |-> 0])
      BY DEF KnownPosition
    <3> QED BY <1>1, <3>1, <3>2, GotoPosition
  <2>3. UNCHANGED table
    BY <1>4 DEF StartQuery, RecvQueryResp, QueryTimeout, ReplayLater, HandshakeTimeout
  <2>4. NetKnown
    <3>1. CASE StartQuery
      <4>1. Query(req["S"].seq) \in Messages /\ Send("S", Query(req["S"].seq))
        BY <1>1, <3>1, StateTypes, QueryTypes DEF StartQuery, Requests
      <4>2. KnownMessage(table', Peer("S"), Query(req["S"].seq))
        BY DEF KnownMessage, Query
      <4> QED BY <1>1, <4>1, <4>2, SocketMoves
    <3>2. CASE RecvQueryResp
      <4>1. net["S"] # <<>> /\ Receive("S") /\ m \in Messages
        BY <1>1, <3>2, StateTypes DEF RecvQueryResp, Arrived
      <4> QED BY <1>1, <4>1, SocketMoves
    <3>3. CASE UNCHANGED net
      BY <3>3 DEF NetKnown
    <3> QED BY <1>4, <3>1, <3>2, <3>3 DEF QueryTimeout, ReplayLater, HandshakeTimeout
  <2> QED BY <1>3, <2>2, <2>3, <2>4, SameTable
<1>5. ASSUME NEW o \in Planes, RecoverStart(o)
      PROVE  TablesKnown' /\ TableStep
  <2> DEFINE e == table["S"][o]
             q == EnsureShadow(slots["S"][o], e.gen, FreshQp("S")).shadow.qp
             n == RecoveryReq(o, e.gen, q)
  <2>1. /\ UNCHANGED table /\ AllowsQpRecovery(e)
        /\ Send("S", n) /\ GotoOn("S", "resp", o, e.gen)
    BY <1>5 DEF RecoverStart
  <2>2. e \in PlaneEntry /\ Agreement!Reached(e, e.gen, "Recovering")
    BY <1>1, <2>1, StateTypes DEF AllowsQpRecovery, Agreement!Reached
  <2>3. q \in QpIds
    BY <1>1, <1>5, StateTypes, FreshQpType
       DEF RecoverStart, EnsureShadow, NewEndpoint, ResetProbe, Slots, Endpoints
  <2> HIDE DEF q
  <2>4. n \in Messages /\ KnownMessage(table', Peer("S"), n)
    <3>1. n \in Messages
      BY <2>2, <2>3, MessageTypes DEF PlaneEntry
    <3> QED BY <1>1, <2>1, <2>2, <3>1 DEF KnownMessage, RecoveryReq
  <2>5. NetKnown
    BY <1>1, <2>1, <2>4, SocketMoves
  <2>6. KnownPosition(table', "S", [ph |-> "resp", plane |-> o, gen |-> e.gen])
    BY <2>1, <2>2 DEF KnownPosition
  <2>7. Moved
    BY <1>1, <2>1, <2>6, GotoPosition
  <2> QED BY <1>3, <2>1, <2>5, <2>7, SameTable
<1>6. ASSUME GotoOn("S", "recovered", p, 0)
      PROVE  Moved
  <2>1. KnownPosition(table', "S", [ph |-> "recovered", plane |-> p, gen |-> 0])
    BY DEF KnownPosition
  <2> QED BY <1>1, <1>6, <2>1, GotoPosition
<1>7. CASE RecoverRefused \/ RecoverConnect \/ RecvAck
  <2>1. /\ net["S"] # <<>> /\ m \in Messages /\ KnownMessage(table, "S", m)
        /\ m.plane = p /\ m.gen = g
        /\ \/ m.type = "RecoveryResp" /\ In("S", {"resp"})
           \/ m.type = "RecoveryAck" /\ In("S", {"ack"})
    BY <1>7, AwaitedKnown DEF RecoverRefused, RecoverConnect, RecvAck
  <2>2. UNCHANGED table /\ Receive("S")
    BY <1>7 DEF RecoverRefused, RecoverConnect, RecvAck
  <2>3. NetKnown
    BY <1>1, <2>1, <2>2, SocketMoves
  <2>4. \/ GotoOn("S", "recovered", p, 0)
        \/ GotoOn("S", "probe", p, g)
        \/ GotoOn("S", "mark", p, g) /\ m.type = "RecoveryAck" /\ m.ok
    BY <1>7, <2>1 DEF RecoverRefused, RecoverConnect, RecvAck, RecoverGiveUp, Arrived
  <2>5. KnownPosition(table, "S", [ph |-> "probe", plane |-> p, gen |-> g])
    BY <1>1, <2>1 DEF KnownPosition, In
  <2>6. m.type = "RecoveryAck" /\ m.ok =>
            KnownPosition(table, "S", [ph |-> "mark", plane |-> p, gen |-> g])
    BY <1>1, <2>1 DEF KnownPosition, KnownMessage, In
  <2>7. Moved
    <3>1. CASE GotoOn("S", "probe", p, g)
      BY <1>1, <2>2, <2>5, <3>1, GotoPosition
    <3>2. CASE GotoOn("S", "mark", p, g) /\ m.type = "RecoveryAck" /\ m.ok
      BY <1>1, <2>2, <2>6, <3>2, GotoPosition
    <3> QED BY <1>6, <2>4, <3>1, <3>2
  <2> QED BY <1>3, <2>2, <2>3, <2>7, SameTable
<1>8. CASE ProbeOk
  <2> DEFINE n == RecoveryReady(p, g)
  <2>1. UNCHANGED table /\ Send("S", n) /\ GotoOn("S", "ack", p, g) /\ In("S", {"probe"})
    BY <1>8 DEF ProbeOk
  <2>2. KnownPosition(table', "S", [ph |-> "ack", plane |-> p, gen |-> g])
    BY <1>1, <2>1 DEF KnownPosition, In
  <2>3. n \in Messages /\ KnownMessage(table', Peer("S"), n)
    <3>1. n \in Messages
      BY <1>1, MessageTypes
    <3> QED BY <1>1, <2>1, <3>1 DEF KnownMessage, KnownPosition, RecoveryReady, In
  <2>4. NetKnown
    BY <1>1, <2>1, <2>3, SocketMoves
  <2>5. Moved
    BY <1>1, <2>1, <2>2, GotoPosition
  <2> QED BY <1>3, <2>1, <2>4, <2>5, SameTable
<1>9. CASE ProbeFailed
  <2>1. UNCHANGED <<table, net>> /\ GotoOn("S", "recovered", p, 0)
    BY <1>9 DEF ProbeFailed, RecoverGiveUp
  <2>2. NetKnown
    BY <2>1 DEF NetKnown
  <2> QED BY <1>3, <1>6, <2>1, <2>2, SameTable
<1>10. CASE MarkHealthyS
  <2>1. /\ UNCHANGED net /\ In("S", {"mark"}) /\ GotoOn("S", "recovered", p, 0)
        /\ table' = [table EXCEPT !["S"][p] = MarkHealthyIfGeneration(@, g)]
    BY <1>10 DEF MarkHealthyS, MarkRecovered
  <2>2. Readmitted(table["R"][p], g)
    BY <1>1, <2>1 DEF KnownPosition, In
  <2>3. Agreement!Reached(table["R"][p], g, "Recovering")
    BY <2>2 DEF Readmitted, Agreement!Reached
  <2>4. TableStep
    <3> HIDE DEF p, g
    <3> QED BY <1>1, <2>1, <2>2, <2>3, Readmission
  <2>5. NetKnown
    BY <2>1 DEF NetKnown
  <2> QED BY <1>3, <1>6, <2>1, <2>4, <2>5
<1> QED BY <1>4, <1>5, <1>7, <1>8, <1>9, <1>10 DEF Sender

\* The receiver learns of the sender's generation, keeps it over the wait for
\* the probe and acknowledges what it has readmitted.
LEMMA ReceiverKnown ==
    ASSUME TypeOK, TypeOK', TablesKnown, Receiver
    PROVE  TablesKnown' /\ TableStep
<1> DEFINE m == Head(net["R"])
           p == pc["R"].plane
           g == pc["R"].gen
           Moved == \A t \in Sides : pc'[t] = pc[t] \/ KnownPosition(table', t, pc'[t])
<1>1. /\ "R" \in Sides /\ Peer("S") = "R" /\ Peer("R") = "S"
      /\ p \in Planes /\ g \in Nat /\ KnownPosition(table, "R", pc["R"])
  BY StateTypes, SidesAndPlanes DEF TablesKnown, Peer
<1>2. UNCHANGED mon
  BY DEF Receiver, RecvQuery, RecvRecoveryReq, RecvRecoveryReady, CommitR, RProbeFailed,
         MarkHealthyR
<1>3. ASSUME NetKnown, Moved, TableStep
      PROVE  TablesKnown' /\ TableStep
  BY <1>2, <1>3, KnownStep DEF TableStep
<1>4. ASSUME net["R"] # <<>>
      PROVE  m \in Messages /\ KnownMessage(table, "R", m)
  <2>1. 1 \in 1 .. Len(net["R"]) /\ m = net["R"][1] /\ net["R"] \in Seq(Messages)
    BY <1>1, <1>4 DEF TypeOK
  <2> QED BY <1>1, <2>1 DEF TablesKnown
<1>5. Goto("R", "control") => Moved
  <2>1. KnownPosition(table', "R", [ph |-> "control", plane |-> 0, gen |-> 0])
    BY DEF KnownPosition
  <2> QED BY <1>1, <2>1, GotoPosition
<1>6. CASE RecvQuery
  <2>1. net["R"] # <<>> /\ UNCHANGED table /\ AfterHandle("R") /\ m.type = "Query"
    BY <1>6 DEF RecvQuery, Arrived
  <2>2. m.seq \in Nat
    BY <1>4, <2>1, MessageFields
  <2>3. PICK a \in {"done", "posted", "retry"} : ReceiveAndSend("R", QueryResp(m.seq, a))
    BY <1>6 DEF RecvQuery
  <2>4. QueryResp(m.seq, a) \in Messages
    BY <2>2, QueryTypes
  <2>5. KnownMessage(table', "S", QueryResp(m.seq, a))
    BY DEF KnownMessage, QueryResp
  <2>6. NetKnown
    BY <1>1, <2>1, <2>3, <2>4, <2>5, SocketMoves
  <2> QED BY <1>1, <1>3, <2>1, <2>6, HandlePosition, SameTable
<1>7. ASSUME NEW ready \in BOOLEAN, RecvRecoveryReq(ready)
      PROVE  TablesKnown' /\ TableStep
  <2>1. /\ net["R"] # <<>> /\ m.type = "RecoveryReq" /\ AfterHandle("R")
        /\ table' = [table EXCEPT !["R"][m.plane] =
                       ApplyRemoteEvent(table["R"][m.plane], m.gen, "Recovering")]
    BY <1>7 DEF RecvRecoveryReq, Arrived
  <2>2. m.plane \in Planes /\ m.gen \in Nat /\ Agreement!Reached(table["S"][m.plane], m.gen, "Recovering")
    BY <1>1, <1>4, <2>1, MessageFields DEF KnownMessage
  <2>3. TableStep
    <3> HIDE DEF m
    <3> QED BY <1>1, <2>1, <2>2, RemoteReport
  <2>4. PICK ok \in BOOLEAN, q \in QpIds \cup {NoQp} :
            /\ ReceiveAndSend("R", RecoveryResp(m.plane, m.gen, ok, q))
            /\ q \in QpIds <=> ok
    <3>1. FreshQp("R") \in QpIds /\ NoQp \notin QpIds
      BY <1>1, <1>7, SidesAndPlanes, FreshQpType DEF RecvRecoveryReq
    <3>2. \/ ReceiveAndSend("R", RecoveryResp(m.plane, m.gen, FALSE, NoQp))
          \/ ReceiveAndSend("R", RecoveryResp(m.plane, m.gen, TRUE, FreshQp("R")))
      BY <1>7 DEF RecvRecoveryReq
    <3> QED BY <3>1, <3>2
  <2>5. RecoveryResp(m.plane, m.gen, ok, q) \in Messages
    <3> HIDE DEF m
    <3> QED BY <2>2, <2>4, MessageTypes
  <2>6. KnownMessage(table', "S", RecoveryResp(m.plane, m.gen, ok, q))
    BY DEF KnownMessage, RecoveryResp
  <2>7. NetKnown
    BY <1>1, <2>1, <2>4, <2>5, <2>6, SocketMoves
  <2> QED BY <1>1, <1>3, <2>1, <2>3, <2>7, HandlePosition
<1>8. CASE RecvRecoveryReady
  <2>1. net["R"] # <<>> /\ m.type = "RecoveryReady" /\ UNCHANGED table
    BY <1>8 DEF RecvRecoveryReady, Arrived
  <2>2. m \in Messages /\ m.plane \in Planes /\ m.gen \in Nat
        /\ Agreement!Reached(table["S"][m.plane], m.gen, "Recovering")
    BY <1>1, <1>4, <2>1, MessageFields DEF KnownMessage
  <2>3. \/ ReceiveAndSend("R", RecoveryAck(m.plane, m.gen, FALSE)) /\ AfterHandle("R")
        \/ Receive("R") /\ GotoOn("R", "rprobe", m.plane, m.gen)
    BY <1>8 DEF RecvRecoveryReady
  <2>4. CASE ReceiveAndSend("R", RecoveryAck(m.plane, m.gen, FALSE)) /\ AfterHandle("R")
    <3>1. RecoveryAck(m.plane, m.gen, FALSE) \in Messages
      BY <2>2, MessageTypes
    <3>2. KnownMessage(table', "S", RecoveryAck(m.plane, m.gen, FALSE))
      BY DEF KnownMessage, RecoveryAck
    <3>3. NetKnown
      BY <1>1, <2>1, <2>4, <3>1, <3>2, SocketMoves
    <3> QED BY <1>1, <1>3, <2>1, <2>4, <3>3, HandlePosition, SameTable
  <2>5. CASE Receive("R") /\ GotoOn("R", "rprobe", m.plane, m.gen)
    <3>1. KnownPosition(table', "R", [ph |-> "rprobe", plane |-> m.plane, gen |-> m.gen])
      BY <2>1, <2>2 DEF KnownPosition
    <3>2. Moved
      <4> HIDE DEF m
      <4> QED BY <1>1, <2>5, <3>1, GotoPosition
    <3>3. NetKnown
      BY <1>1, <2>1, <2>2, <2>5, SocketMoves
    <3> QED BY <1>3, <2>1, <3>2, <3>3, SameTable
  <2> QED BY <2>3, <2>4, <2>5
<1>9. CASE CommitR
  <2>1. UNCHANGED <<table, net>> /\ In("R", {"rprobe"}) /\ GotoOn("R", "rmark", p, g)
    BY <1>9 DEF CommitR
  <2>2. KnownPosition(table', "R", [ph |-> "rmark", plane |-> p, gen |-> g])
    BY <1>1, <2>1 DEF KnownPosition, In
  <2>3. Moved
    <3> HIDE DEF p, g
    <3> QED BY <1>1, <2>1, <2>2, GotoPosition
  <2>4. NetKnown
    BY <2>1 DEF NetKnown
  <2> QED BY <1>3, <2>1, <2>3, <2>4, SameTable
<1>10. CASE RProbeFailed
  <2> DEFINE n == RecoveryAck(p, g, FALSE)
  <2>1. UNCHANGED table /\ Send("R", n) /\ Goto("R", "control")
    BY <1>10 DEF RProbeFailed
  <2>2. n \in Messages
    BY <1>1, MessageTypes
  <2>3. KnownMessage(table', "S", n)
    BY DEF KnownMessage, RecoveryAck
  <2>4. NetKnown
    BY <1>1, <2>1, <2>2, <2>3, SocketMoves
  <2> QED BY <1>3, <1>5, <2>1, <2>4, SameTable
<1>11. CASE MarkHealthyR
  <2> DEFINE ok == HealthyIfGenerationOK(table["R"][p], g)
             n == RecoveryAck(p, g, ok)
  <2>1. /\ In("R", {"rmark"}) /\ Goto("R", "control") /\ Send("R", n)
        /\ table' = [table EXCEPT !["R"][p] = MarkHealthyIfGeneration(@, g)]
    BY <1>11 DEF MarkHealthyR, MarkRecovered
  <2>2. Agreement!Reached(table["S"][p], g, "Recovering")
    BY <1>1, <2>1 DEF KnownPosition, In
  <2>3. TableStep /\ (ok => Readmitted(table'["R"][p], g))
    <3> HIDE DEF p, g
    <3> QED BY <1>1, <2>1, <2>2, Readmission
  <2>4. n \in Messages
    BY <1>1, MessageTypes DEF HealthyIfGenerationOK
  <2>5. KnownMessage(table', "S", n)
    BY <1>1, <2>3 DEF KnownMessage, RecoveryAck
  <2>6. NetKnown
    BY <1>1, <2>1, <2>4, <2>5, SocketMoves
  <2> QED BY <1>3, <1>5, <2>1, <2>3, <2>6
<1> QED BY <1>6, <1>7, <1>8, <1>9, <1>10, <1>11 DEF Receiver

-----------------------------------------------------------------------------
LEMMA InitKnown ==
    ASSUME Init
    PROVE  TablesKnown /\ Agreement!Init
<1>1. \A s \in Sides : net[s] = <<>> /\ pc[s].ph = "idle" /\ \A t \in Threads : mon[s][t].stage = "wait"
  BY DEF Init, At, NoDelivery
<1>2. TablesKnown
  BY <1>1 DEF TablesKnown, KnownDelivery, KnownPosition
<1>3. Agreement!Init
  BY DEF Init, Agreement!Init, Agreement!InitialEntry, InitialEntry, Agreement!Sides, Sides
<1> QED BY <1>2, <1>3

\* A step of the connection is a step of the agreement or leaves the tables alone.
LEMMA NextKnown ==
    ASSUME TypeOK, TypeOK', TablesKnown, [Next]_vars
    PROVE  TablesKnown' /\ [Agreement!Next]_table
<1>1. CASE Next
  <2>1. TablesKnown' /\ TableStep
    BY <1>1, FabricKnown, MonitorsKnown, ControlKnown, SenderKnown, ReceiverKnown, CallsKnown
       DEF Next
  <2> QED BY <2>1 DEF TableStep
<1>2. CASE UNCHANGED vars
  BY <1>2 DEF vars, TablesKnown
<1> QED BY <1>1, <1>2

\* What messages, monitor threads and handshakes carry has been reached by the
\* process they speak of, in every state.
THEOREM CarriedIsReached == Spec => []TablesKnown
<1>1. Init => TablesKnown
  BY InitKnown
<1>2. TypeOK /\ TypeOK' /\ TablesKnown /\ [Next]_vars => TablesKnown'
  BY NextKnown
<1> QED BY <1>1, <1>2, ConnectionTypes, PTL DEF Spec

\* The plane tables of the two processes of a connection, driven by completion
\* errors, monitor threads, messages and handshakes, behave as PlaneAgreement
\* says: no generation comes from nowhere and none is lost, and the sender
\* readmits a plane only at a generation at which the receiver has.
THEOREM ConnectionImplementsAgreement == Spec => AgreementSpec
<1>1. Init => Agreement!Init
  BY InitKnown
<1>2. TypeOK /\ TypeOK' /\ TablesKnown /\ [Next]_vars => [Agreement!Next]_table
  BY NextKnown
<1> QED BY <1>1, <1>2, ConnectionTypes, CarriedIsReached, PTL
        DEF Spec, AgreementSpec, Agreement!Spec

-----------------------------------------------------------------------------
\* The messages of a recovery handshake.
HandshakeTypes == {"RecoveryReq", "RecoveryResp", "RecoveryReady", "RecoveryAck"}

\* The phases of a handshake; a sender that has failed leaves one behind.
HandshakePhases == {"resp", "probe", "ack", "mark", "rprobe", "rmark", "failed"}

\* The message the sender waits for, or for which the receiver must answer.
Matches(m, at) ==
    /\ m.plane = at.plane /\ m.gen = at.gen
    /\ \/ at.ph = "resp" /\ m.type \in {"RecoveryReq", "RecoveryResp"}
       \/ at.ph = "ack" /\ m.type \in {"RecoveryReady", "RecoveryAck"}

OneToken ==
    /\ \A s, t \in Sides : \A i \in 1 .. Len(net[s]), j \in 1 .. Len(net[t]) :
          net[s][i].type \in HandshakeTypes /\ net[t][j].type \in HandshakeTypes
              => s = t /\ i = j
    /\ \A s \in Sides : \A i \in 1 .. Len(net[s]) :
          net[s][i].type \in HandshakeTypes =>
              /\ pc["R"].ph \notin {"rprobe", "rmark"}
              /\ pc["S"].ph = "failed" \/ Matches(net[s][i], pc["S"])
    /\ pc["R"].ph \in {"rprobe", "rmark"} =>
          \/ pc["S"].ph = "failed"
          \/ pc["S"].ph = "ack" /\ pc["R"].plane = pc["S"].plane /\ pc["R"].gen = pc["S"].gen

-----------------------------------------------------------------------------
\* The sockets.  k[t] messages have been taken from the head of net[t].
NoneTaken == [t \in Sides |-> 0]

Taken(s) == [t \in Sides |-> IF t = s THEN 1 ELSE 0]

Remains(k, t, i) == i + k[t] \in 1 .. Len(net[t]) /\ net'[t][i] = net[t][i + k[t]]

IsNew(k, t, i) == i + k[t] = Len(net[t]) + 1 /\ i = Len(net'[t])

\* One queue after the head has been taken, or m appended, or both.
LEMMA QueueShift ==
    ASSUME NEW q \in Seq(Messages), NEW m \in Messages
    PROVE  /\ \A i \in 1 .. Len(Append(q, m)) :
                 \/ i \in 1 .. Len(q) /\ Append(q, m)[i] = q[i]
                 \/ i = Len(q) + 1 /\ i = Len(Append(q, m)) /\ Append(q, m)[i] = m
           /\ q # <<>> => \A i \in 1 .. Len(Tail(q)) :
                 i + 1 \in 1 .. Len(q) /\ Tail(q)[i] = q[i + 1]
<1>1. /\ Len(Append(q, m)) = Len(q) + 1
      /\ \A i \in 1 .. Len(q) + 1 : Append(q, m)[i] = IF i = Len(q) + 1 THEN m ELSE q[i]
  OBVIOUS
<1>2. ASSUME NEW i \in 1 .. Len(Append(q, m))
      PROVE  \/ i \in 1 .. Len(q) /\ Append(q, m)[i] = q[i]
             \/ i = Len(q) + 1 /\ i = Len(Append(q, m)) /\ Append(q, m)[i] = m
  <2>1. CASE i = Len(q) + 1
    BY <1>1, <2>1
  <2>2. CASE i # Len(q) + 1
    BY <1>1, <2>2
  <2> QED BY <2>1, <2>2
<1>3. ASSUME q # <<>>, NEW i \in 1 .. Len(Tail(q))
      PROVE  i + 1 \in 1 .. Len(q) /\ Tail(q)[i] = q[i + 1]
  BY <1>3
<1> QED BY <1>2, <1>3

LEMMA SocketShift ==
    ASSUME TypeOK, NEW s \in Sides, NEW m \in Messages
    PROVE  /\ UNCHANGED net =>
                 \A t \in Sides : \A i \in 1 .. Len(net'[t]) : Remains(NoneTaken, t, i)
           /\ net[s] # <<>> /\ Receive(s) =>
                 \A t \in Sides : \A i \in 1 .. Len(net'[t]) : Remains(Taken(s), t, i)
           /\ Send(s, m) =>
                 \A t \in Sides : \A i \in 1 .. Len(net'[t]) :
                    \/ Remains(NoneTaken, t, i)
                    \/ t = Peer(s) /\ IsNew(NoneTaken, t, i) /\ net'[t][i] = m
           /\ net[s] # <<>> /\ ReceiveAndSend(s, m) =>
                 \A t \in Sides : \A i \in 1 .. Len(net'[t]) :
                    \/ Remains(Taken(s), t, i)
                    \/ t = Peer(s) /\ IsNew(Taken(s), t, i) /\ net'[t][i] = m
<1>1. net \in [Sides -> Seq(Messages)] /\ Peer(s) \in Sides /\ Peer(s) # s
      /\ Sides = {s, Peer(s)}
  BY SidesAndPlanes DEF TypeOK, Sides, Peer
<1>2. net[s] \in Seq(Messages) /\ net[Peer(s)] \in Seq(Messages)
  BY <1>1
<1>3. \A t \in Sides : \A i \in 1 .. Len(net[t]) : i + 0 = i
  OBVIOUS
<1>4. ASSUME UNCHANGED net, NEW t \in Sides, NEW i \in 1 .. Len(net'[t])
      PROVE  Remains(NoneTaken, t, i)
  BY <1>4, <1>3 DEF Remains, NoneTaken
<1>5. ASSUME net[s] # <<>>, Receive(s), NEW t \in Sides, NEW i \in 1 .. Len(net'[t])
      PROVE  Remains(Taken(s), t, i)
  <2>1. CASE t = s
    <3>1. net'[s] = Tail(net[s])
      BY <1>1, <1>5 DEF Receive
    <3> QED BY <1>2, <1>5, <2>1, <3>1, QueueShift DEF Remains, Taken
  <2>2. CASE t # s
    <3>1. net'[t] = net[t]
      BY <1>1, <1>5, <2>2 DEF Receive
    <3> QED BY <1>3, <2>2, <3>1 DEF Remains, Taken
  <2> QED BY <2>1, <2>2
<1>6. ASSUME Send(s, m), NEW t \in Sides, NEW i \in 1 .. Len(net'[t])
      PROVE  \/ Remains(NoneTaken, t, i)
             \/ t = Peer(s) /\ IsNew(NoneTaken, t, i) /\ net'[t][i] = m
  <2>1. CASE t = Peer(s)
    <3>1. net'[t] = Append(net[t], m)
      BY <1>1, <1>6, <2>1 DEF Send
    <3>2. \/ i \in 1 .. Len(net[t]) /\ net'[t][i] = net[t][i]
          \/ i = Len(net[t]) + 1 /\ i = Len(net'[t]) /\ net'[t][i] = m
      BY <1>2, <2>1, <3>1, QueueShift
    <3> QED BY <2>1, <3>2 DEF Remains, IsNew, NoneTaken
  <2>2. CASE t # Peer(s)
    <3>1. net'[t] = net[t]
      BY <1>1, <1>6, <2>2 DEF Send
    <3> QED BY <1>3, <3>1 DEF Remains, NoneTaken
  <2> QED BY <2>1, <2>2
<1>7. ASSUME net[s] # <<>>, ReceiveAndSend(s, m), NEW t \in Sides, NEW i \in 1 .. Len(net'[t])
      PROVE  \/ Remains(Taken(s), t, i)
             \/ t = Peer(s) /\ IsNew(Taken(s), t, i) /\ net'[t][i] = m
  <2>1. CASE t = Peer(s)
    <3>1. net'[t] = Append(net[t], m)
      BY <1>1, <1>7, <2>1 DEF ReceiveAndSend
    <3>2. \/ i \in 1 .. Len(net[t]) /\ net'[t][i] = net[t][i]
          \/ i = Len(net[t]) + 1 /\ i = Len(net'[t]) /\ net'[t][i] = m
      BY <1>2, <2>1, <3>1, QueueShift
    <3>3. Taken(s)[t] = 0
      BY <1>1, <2>1 DEF Taken
    <3> QED BY <2>1, <3>2, <3>3 DEF Remains, IsNew
  <2>2. CASE t = s
    <3>1. net'[s] = Tail(net[s])
      BY <1>1, <1>7 DEF ReceiveAndSend
    <3> QED BY <1>2, <1>7, <2>2, <3>1, QueueShift DEF Remains, Taken
  <2> QED BY <1>1, <2>1, <2>2
<1> QED BY <1>4, <1>5, <1>6, <1>7

\* A step that takes the one message of a handshake off the socket, or starts
\* when there is none, leaves none, or the one it sends.
NoTokens == \A t \in Sides : \A i \in 1 .. Len(net[t]) : net[t][i].type \notin HandshakeTypes

TokenFirst(s) == net[s] # <<>> /\ Head(net[s]).type \in HandshakeTypes

LEMMA TokenTaken ==
    ASSUME TypeOK, OneToken, NEW s \in Sides, TokenFirst(s), NEW t \in Sides, NEW i \in Nat,
           Remains(Taken(s), t, i), i # 0
    PROVE  net'[t][i].type \notin HandshakeTypes
<1>1. net[s] \in Seq(Messages) /\ 1 \in 1 .. Len(net[s]) /\ net[s][1] = Head(net[s])
  BY DEF TypeOK, TokenFirst
<1> SUFFICES ASSUME net'[t][i].type \in HandshakeTypes
             PROVE  FALSE
  OBVIOUS
<1>2. i + Taken(s)[t] \in 1 .. Len(net[t]) /\ net[t][i + Taken(s)[t]].type \in HandshakeTypes
  BY DEF Remains
<1>3. t = s /\ i + Taken(s)[t] = 1
  BY <1>1, <1>2 DEF OneToken, TokenFirst
<1> QED BY <1>3 DEF Taken

LEMMA NoNewToken ==
    ASSUME TypeOK, OneToken, NEW s \in Sides,
           (TokenFirst(s) /\ Receive(s)) \/ (NoTokens /\ UNCHANGED net)
    PROVE  NoTokens'
<1> SUFFICES ASSUME NEW t \in Sides, NEW i \in 1 .. Len(net'[t])
             PROVE  net'[t][i].type \notin HandshakeTypes
  BY DEF NoTokens
<1>1. Query(0) \in Messages
  BY QueryTypes
<1>2. CASE TokenFirst(s) /\ Receive(s)
  BY <1>1, <1>2, SocketShift, TokenTaken DEF TokenFirst
<1>3. CASE NoTokens /\ UNCHANGED net
  BY <1>3 DEF NoTokens
<1> QED BY <1>2, <1>3

LEMMA OnlyNewToken ==
    ASSUME TypeOK, OneToken, NEW s \in Sides, NEW m \in Messages,
           (TokenFirst(s) /\ ReceiveAndSend(s, m)) \/ (NoTokens /\ Send(s, m))
    PROVE  \A t \in Sides : \A i \in 1 .. Len(net'[t]) :
              net'[t][i].type \in HandshakeTypes =>
                  t = Peer(s) /\ net'[t][i] = m /\ i = Len(net'[t])
<1> SUFFICES ASSUME NEW t \in Sides, NEW i \in 1 .. Len(net'[t]),
                    net'[t][i].type \in HandshakeTypes
             PROVE  t = Peer(s) /\ net'[t][i] = m /\ i = Len(net'[t])
  OBVIOUS
<1>1. CASE TokenFirst(s) /\ ReceiveAndSend(s, m)
  <2>1. \/ Remains(Taken(s), t, i)
        \/ t = Peer(s) /\ IsNew(Taken(s), t, i) /\ net'[t][i] = m
    BY <1>1, SocketShift DEF TokenFirst
  <2>2. ~Remains(Taken(s), t, i)
    BY <1>1, TokenTaken
  <2> QED BY <2>1, <2>2 DEF IsNew
<1>2. CASE NoTokens /\ Send(s, m)
  <2>1. \/ Remains(NoneTaken, t, i)
        \/ t = Peer(s) /\ IsNew(NoneTaken, t, i) /\ net'[t][i] = m
    BY <1>2, SocketShift
  <2>2. ~Remains(NoneTaken, t, i)
    BY <1>2 DEF Remains, NoTokens
  <2> QED BY <2>1, <2>2 DEF IsNew
<1> QED BY <1>1, <1>2

-----------------------------------------------------------------------------
\* Where an end keeps queue pairs, besides the shadow.
SlotQps(slot) == {slot.active.qp} \cup {e.qp : e \in slot.retired}

\* An end has a queue pair in one place only, and no other has any content.
SeparateSlot(slot) ==
    slot.active.qp # NoQp /\ (slot.shadow.qp # NoQp => slot.shadow.qp \notin SlotQps(slot))

SlotsSeparate ==
    \A s \in Sides :
        /\ \A p \in Planes : SeparateSlot(slots[s][p])
        /\ \A p, o \in Planes : p # o => QpsOf(slots[s][p]) \cap QpsOf(slots[s][o]) = {}
        /\ \A q \in QpIds : q \notin LiveQps(slots[s]) => qps[s][q] = NullQp

\* sl has no queue pair that slot has not, and does not become Active.
Loses(slot, sl) == Keeps(slot, sl) /\ sl.retired \subseteq slot.retired

LEMMA OperatorsLose ==
    ASSUME NEW slot \in Slots(QpIds), NEW g \in Nat
    PROVE  /\ Loses(slot, slot)
           /\ Loses(slot, Quarantine(slot))
           /\ Loses(slot, AbortRecovery(slot))
           /\ Loses(slot, OnBroken(slot, g))
           /\ Loses(slot, OnRecovering(slot, g))
           /\ Loses(slot, OnFailure(slot))
           /\ \A p, r : Loses(slot, DropUnusedRetired(slot, p, r))
           /\ \A n : \A kind \in {"send", "recv"}, ok \in BOOLEAN :
                 Loses(slot, RecordProbe(slot, kind, n, ok))
<1>1. \A s \in Slots(QpIds) : Quarantine(s).retired = s.retired
  BY DEF Quarantine, Slots
<1>2. \A s \in Slots(QpIds) : AbortRecovery(s).retired = s.retired /\ AbortRecovery(s) \in Slots(QpIds)
  BY AbortRecoveryType, Zenon DEF AbortRecovery, ClearProbe, ResetProbe, Slots
<1>3. OnBroken(slot, g).retired = slot.retired /\ OnFailure(slot).retired = slot.retired
  BY <1>1, <1>2 DEF OnBroken, OnFailure
<1>4. \A s \in Slots(QpIds) : [s EXCEPT !.state = "Rebuilding"].retired = s.retired
  BY DEF Slots
<1>5. OnRecovering(slot, g).retired = slot.retired
  BY <1>2, <1>4 DEF OnRecovering
<1>6. \A p, r : DropUnusedRetired(slot, p, r).retired \subseteq slot.retired
  BY DEF DropUnusedRetired, Slots
<1>7. \A n : \A kind \in {"send", "recv"}, ok \in BOOLEAN :
          RecordProbe(slot, kind, n, ok).retired = slot.retired
  BY DEF RecordProbe, Slots
<1>8. Keeps(slot, slot)
  BY DEF Keeps
<1>9. \A p, r : Keeps(slot, DropUnusedRetired(slot, p, r))
  BY DEF Keeps, DropUnusedRetired, Slots
<1>10. \A n : \A kind \in {"send", "recv"}, ok \in BOOLEAN : Keeps(slot, RecordProbe(slot, kind, n, ok))
  BY DEF Keeps, RecordProbe, Slots
<1> QED BY <1>1, <1>2, <1>3, <1>5, <1>6, <1>7, <1>8, <1>9, <1>10, SlotOperatorsKeep DEF Loses

\* What a slot that loses queue pairs still has, the old one had.
LEMMA LosesSeparate ==
    ASSUME NEW slot \in Slots(QpIds), NEW sl \in Slots(QpIds), Loses(slot, sl)
    PROVE  /\ QpsOf(sl) \subseteq QpsOf(slot)
           /\ SeparateSlot(slot) => SeparateSlot(sl)
<1>1. SlotQps(sl) \subseteq SlotQps(slot)
  BY DEF SlotQps, Loses, Keeps
<1>2. sl.shadow.qp # NoQp => sl.shadow = slot.shadow
  BY DEF Loses, Keeps
<1>3. QpsOf(sl) \subseteq QpsOf(slot)
  BY <1>1, <1>2 DEF QpsOf, SlotQps
<1>4. SeparateSlot(slot) => SeparateSlot(sl)
  BY <1>1, <1>2 DEF SeparateSlot, Loses, Keeps
<1> QED BY <1>3, <1>4

\* Installing a slot that has queue pairs of the old one, and new ones.
LEMMA InstallSeparate ==
    ASSUME TypeOK, SlotsSeparate, NEW s \in Sides, NEW p \in Planes, NEW sl \in Slots(QpIds),
           NEW q \in [QpIds -> QpRecords], Install(s, p, sl, q), SeparateSlot(sl),
           \A i \in QpsOf(sl) : i \in QpsOf(slots[s][p]) \/ i \notin LiveQps(slots[s])
    PROVE  SlotsSeparate'
<1>1. /\ slots' = [slots EXCEPT ![s][p] = sl]
      /\ slots'[s][p] = sl
      /\ \A o \in Planes \ {p} : slots'[s][o] = slots[s][o]
      /\ \A t \in Sides \ {s} : slots'[t] = slots[t] /\ qps'[t] = qps[t]
      /\ \A i \in QpIds : i \notin LiveQps(slots'[s]) => qps'[s][i] = NullQp
  BY DEF Install, TypeOK
<1>2. ASSUME NEW o \in Planes, o # p
      PROVE  QpsOf(sl) \cap QpsOf(slots[s][o]) = {}
  <2>1. QpsOf(slots[s][o]) \subseteq LiveQps(slots[s])
    BY DEF LiveQps
  <2>2. QpsOf(slots[s][p]) \cap QpsOf(slots[s][o]) = {}
    BY <1>2 DEF SlotsSeparate
  <2> QED BY <2>1, <2>2
<1> SUFFICES ASSUME NEW t \in Sides
             PROVE  /\ \A o \in Planes : SeparateSlot(slots'[t][o])
                    /\ \A o, n \in Planes : o # n => QpsOf(slots'[t][o]) \cap QpsOf(slots'[t][n]) = {}
                    /\ \A i \in QpIds : i \notin LiveQps(slots'[t]) => qps'[t][i] = NullQp
  BY DEF SlotsSeparate
<1>3. CASE t # s
  <2>1. slots'[t] = slots[t] /\ qps'[t] = qps[t]
    BY <1>1, <1>3
  <2> QED BY <2>1 DEF SlotsSeparate
<1>4. CASE t = s
  <2>1. \A o \in Planes : SeparateSlot(slots'[s][o])
    BY <1>1 DEF SlotsSeparate
  <2>2. ASSUME NEW o \in Planes, NEW n \in Planes, o # n
        PROVE  QpsOf(slots'[s][o]) \cap QpsOf(slots'[s][n]) = {}
    <3>1. CASE o = p
      BY <1>1, <1>2, <2>2, <3>1
    <3>2. CASE n = p
      BY <1>1, <1>2, <2>2, <3>2
    <3>3. CASE o # p /\ n # p
      BY <1>1, <2>2, <3>3 DEF SlotsSeparate
    <3> QED BY <3>1, <3>2, <3>3
  <2> QED BY <1>1, <1>4, <2>1, <2>2
<1> QED BY <1>3, <1>4

-----------------------------------------------------------------------------
\* Steps that are no part of a handshake send other messages: while the
\* receiver commits, an event only if a monitor thread had it to send before.
OrdinaryMessage(t, m) ==
    /\ m.type \notin HandshakeTypes
    /\ t = "S" /\ pc["R"].ph \in {"rprobe", "rmark"} /\ m.type = "PlaneEvent" =>
          \E u \in Threads : /\ mon["R"][u].stage = "send"
                             /\ m.plane = mon["R"][u].plane /\ m.gen = mon["R"][u].gen

OrdinaryNet ==
    \E k \in [Sides -> 0 .. 1] : \A t \in Sides : \A i \in 1 .. Len(net'[t]) :
        Remains(k, t, i) \/ (IsNew(k, t, i) /\ OrdinaryMessage(t, net'[t][i]))

\* They move nobody in a handshake, ...
OrdinaryPositions ==
    \A s \in Sides :
        \/ pc'[s] = pc[s]
        \/ pc[s].ph \notin HandshakePhases /\ pc'[s].ph \notin HandshakePhases

\* ... give a monitor thread nothing to send meanwhile, ...
OrdinaryMonitors ==
    pc["R"].ph \in {"rprobe", "rmark"} =>
        \A t \in Threads : mon'["R"][t].stage = "send" => mon'["R"][t] = mon["R"][t]

\* ... take queue pairs away at most, without connecting any, ...
OrdinarySlots ==
    \A s \in Sides :
        /\ \A p \in Planes : Loses(slots[s][p], slots'[s][p])
        /\ \A q \in QpIds : q \in LiveQps(slots'[s]) => qps'[s][q].dest = qps[s][q].dest
        /\ \A q \in QpIds : q \notin LiveQps(slots'[s]) => qps'[s][q] = NullQp

\* ... and touch the slots of an end in a handshake only for the peer's events.
OrdinaryWaits ==
    /\ pc["S"].ph \in {"resp", "probe", "ack"} => slots'["S"] = slots["S"] \/ RecvPlaneEvent("S")
    /\ pc["R"].ph \in {"rprobe", "rmark"} => slots'["R"] = slots["R"]

OrdinaryStep ==
    OrdinaryNet /\ OrdinaryPositions /\ OrdinaryMonitors /\ OrdinarySlots /\ OrdinaryWaits

\* The parts, for steps that leave something alone.
LEMMA QuietNet ==
    ASSUME TypeOK, NEW s \in Sides,
           \/ UNCHANGED net
           \/ net[s] # <<>> /\ Receive(s)
           \/ \E m \in Messages : /\ Send(s, m) \/ (net[s] # <<>> /\ ReceiveAndSend(s, m))
                                  /\ OrdinaryMessage(Peer(s), m)
    PROVE  OrdinaryNet
<1>1. NoneTaken \in [Sides -> 0 .. 1] /\ Taken(s) \in [Sides -> 0 .. 1]
  BY DEF NoneTaken, Taken
<1>2. Query(0) \in Messages
  BY QueryTypes
<1>3. CASE UNCHANGED net
  BY <1>1, <1>2, <1>3, SocketShift DEF OrdinaryNet
<1>4. CASE net[s] # <<>> /\ Receive(s)
  BY <1>1, <1>2, <1>4, SocketShift DEF OrdinaryNet
<1>5. ASSUME NEW m \in Messages, OrdinaryMessage(Peer(s), m), Send(s, m)
      PROVE  OrdinaryNet
  <2>1. \A t \in Sides : \A i \in 1 .. Len(net'[t]) :
            Remains(NoneTaken, t, i) \/ (IsNew(NoneTaken, t, i) /\ OrdinaryMessage(t, net'[t][i]))
    BY <1>5, SocketShift
  <2> QED BY <1>1, <2>1 DEF OrdinaryNet
<1>6. ASSUME NEW m \in Messages, OrdinaryMessage(Peer(s), m), net[s] # <<>>, ReceiveAndSend(s, m)
      PROVE  OrdinaryNet
  <2>1. \A t \in Sides : \A i \in 1 .. Len(net'[t]) :
            Remains(Taken(s), t, i) \/ (IsNew(Taken(s), t, i) /\ OrdinaryMessage(t, net'[t][i]))
    BY <1>6, SocketShift
  <2> QED BY <1>1, <2>1 DEF OrdinaryNet
<1> QED BY <1>3, <1>4, <1>5, <1>6

LEMMA QuietSlots ==
    ASSUME TypeOK, SlotsSeparate, UNCHANGED slots,
           \A s \in Sides, q \in QpIds :
               /\ qps'[s][q].dest = qps[s][q].dest
               /\ qps'[s][q] = qps[s][q] \/ qps[s][q] # NullQp \/ q \in LiveQps(slots[s])
    PROVE  OrdinarySlots
<1>1. \A s \in Sides, p \in Planes : Loses(slots[s][p], slots[s][p])
  BY DEF Loses, Keeps
<1>2. \A s \in Sides, q \in QpIds : q \notin LiveQps(slots[s]) => qps[s][q] = NullQp
  BY DEF SlotsSeparate
<1> QED BY <1>1, <1>2 DEF OrdinarySlots

LEMMA InstallOrdinary ==
    ASSUME TypeOK, SlotsSeparate, NEW s \in Sides, NEW p \in Planes, NEW sl \in Slots(QpIds),
           NEW q \in [QpIds -> QpRecords], Install(s, p, sl, q), Loses(slots[s][p], sl),
           \A i \in QpIds : q[i].dest = qps[s][i].dest
    PROVE  OrdinarySlots /\ \A t \in Sides : t # s => slots'[t] = slots[t]
<1>1. /\ slots'[s][p] = sl
      /\ \A o \in Planes \ {p} : slots'[s][o] = slots[s][o]
      /\ \A t \in Sides \ {s} : slots'[t] = slots[t] /\ qps'[t] = qps[t]
      /\ \A i \in QpIds : i \notin LiveQps(slots'[s]) => qps'[s][i] = NullQp
      /\ \A i \in QpIds : i \in LiveQps(slots'[s]) => qps'[s][i] = q[i]
  BY DEF Install, TypeOK
<1>2. \A t \in Sides, o \in Planes : Loses(slots[t][o], slots[t][o])
  BY DEF Loses, Keeps
<1>3. \A t \in Sides : \A i \in QpIds : i \notin LiveQps(slots[t]) => qps[t][i] = NullQp
  BY DEF SlotsSeparate
<1>4. ASSUME NEW t \in Sides
      PROVE  /\ \A o \in Planes : Loses(slots[t][o], slots'[t][o])
             /\ \A i \in QpIds : i \in LiveQps(slots'[t]) => qps'[t][i].dest = qps[t][i].dest
             /\ \A i \in QpIds : i \notin LiveQps(slots'[t]) => qps'[t][i] = NullQp
  <2>1. CASE t = s
    BY <1>1, <1>2, <2>1
  <2>2. CASE t # s
    <3>1. slots'[t] = slots[t] /\ qps'[t] = qps[t]
      BY <1>1, <2>2
    <3> QED BY <1>2, <1>3, <3>1
  <2> QED BY <2>1, <2>2
<1> QED BY <1>1, <1>4 DEF OrdinarySlots

-----------------------------------------------------------------------------
\* The fabric changes queues that have something in them, and no connection.
LEMMA FabricQps ==
    ASSUME TypeOK, Fabric
    PROVE  \A s \in Sides, i \in QpIds :
              /\ qps'[s][i].dest = qps[s][i].dest
              /\ qps'[s][i] = qps[s][i] \/ qps[s][i] # NullQp
<1>1. PICK q \in QpIds : Deliver(q) \/ Acknowledge(q) \/ \E s \in Sides : QpError(s, q)
  BY DEF Fabric
<1>2. CASE Deliver(q)
  <2> DEFINE d == qps["S"][q].dest
             c == Completion(Head(qps["R"][d].rq), TRUE)
  <2>1. PICK i \in DOMAIN qps["S"][q].sq : /\ qps["R"][d].rq # <<>>
             /\ qps' = [qps EXCEPT !["S"][q].sq[i].sent = TRUE,
                                   !["R"][d].rq = Tail(@), !["R"][d].cq = Append(@, c)]
    BY <1>2, Zenon DEF Deliver
  <2> DEFINE sq == [qps["S"][q].sq EXCEPT ![i].sent = TRUE]
             rq == Tail(qps["R"][d].rq)
             cq == Append(qps["R"][d].cq, c)
  <2>2. /\ qps'["S"] = [qps["S"] EXCEPT ![q].sq = sq]
        /\ qps'["R"] = [qps["R"] EXCEPT ![d].rq = rq, ![d].cq = cq]
    BY <2>1, SidesAndPlanes, Zenon DEF TypeOK
  <2>3. /\ qps["S"] \in [QpIds -> QpRecords]
        /\ qps["R"] \in [QpIds -> QpRecords]
    BY StateTypes, SidesAndPlanes
  <2> HIDE DEF sq, rq, cq, d
  <2>4. qps["S"][q].sq # <<>>
    BY <2>1
  <2>5. qps["S"][q] # NullQp /\ qps["R"][d] # NullQp
    <3>1. NullQp.sq = <<>> /\ NullQp.rq = <<>>
      BY DEF NullQp
    <3> QED BY <2>1, <2>4, <3>1
  <2>6. ASSUME NEW j \in QpIds
        PROVE  /\ qps'["S"][j].dest = qps["S"][j].dest
               /\ j # q => qps'["S"][j] = qps["S"][j]
    <3>1. CASE j # q
      BY <2>2, <2>3, <3>1
    <3>2. CASE j = q
      <4>1. qps'["S"][q] = [qps["S"][q] EXCEPT !.sq = sq]
        BY <2>2, <2>3
      <4> QED BY <2>3, <3>2, <4>1 DEF QpRecords
    <3> QED BY <3>1, <3>2
  <2>7. ASSUME NEW j \in QpIds
        PROVE  /\ qps'["R"][j].dest = qps["R"][j].dest
               /\ j # d => qps'["R"][j] = qps["R"][j]
    <3>1. CASE j # d
      BY <2>2, <2>3, <3>1
    <3>2. CASE j = d
      <4>1. qps'["R"][j] = [qps["R"][j] EXCEPT !.rq = rq, !.cq = cq]
        BY <2>2, <2>3, <3>2
      <4> QED BY <2>3, <3>2, <4>1 DEF QpRecords
    <3> QED BY <3>1, <3>2
  <2> QED BY <2>5, <2>6, <2>7 DEF Sides
<1>3. CASE Acknowledge(q)
  <2> DEFINE sq == Tail(qps["S"][q].sq)
             cq == Append(qps["S"][q].cq, Completion(Head(qps["S"][q].sq), TRUE))
  <2>1. /\ qps["S"][q].sq # <<>>
        /\ qps' = [qps EXCEPT !["S"][q].sq = sq, !["S"][q].cq = cq]
    BY <1>3 DEF Acknowledge
  <2>2. qps["S"] \in [QpIds -> QpRecords] /\ qps["S"][q] # NullQp
    BY <2>1, StateTypes, SidesAndPlanes DEF NullQp
  <2> HIDE DEF sq, cq
  <2>3. qps'["S"] = [qps["S"] EXCEPT ![q].sq = sq, ![q].cq = cq] /\ qps'["R"] = qps["R"]
    BY <2>1, SidesAndPlanes DEF TypeOK
  <2>4. \A j \in QpIds : /\ qps'["S"][j].dest = qps["S"][j].dest
                         /\ j # q => qps'["S"][j] = qps["S"][j]
    BY <2>2, <2>3 DEF QpRecords
  <2> QED BY <2>2, <2>3, <2>4 DEF Sides
<1>4. ASSUME NEW s \in Sides, QpError(s, q)
      PROVE  \A t \in Sides, i \in QpIds :
              /\ qps'[t][i].dest = qps[t][i].dest
              /\ qps'[t][i] = qps[t][i] \/ qps[t][i] # NullQp
  <2>1. Flushed(qps[s][q]).dest = qps[s][q].dest
    BY StateTypes, FlushedType
  <2>2. qps' = [qps EXCEPT ![s][q] = Flushed(qps[s][q])] /\ qps[s][q].sq \o qps[s][q].rq # <<>>
    BY <1>4 DEF QpError
  <2>3. qps[s][q] # NullQp
    BY <2>2 DEF NullQp
  <2> DEFINE f == Flushed(qps[s][q])
  <2>4. f.dest = qps[s][q].dest /\ qps' = [qps EXCEPT ![s][q] = f]
    BY <2>1, <2>2
  <2> HIDE DEF f
  <2>5. \A t \in Sides, i \in QpIds : qps'[t][i] = IF t = s /\ i = q THEN f ELSE qps[t][i]
    BY <2>4 DEF TypeOK
  <2> QED BY <2>3, <2>4, <2>5
<1> QED BY <1>1, <1>2, <1>3, <1>4

LEMMA FabricOrdinary ==
    ASSUME TypeOK, SlotsSeparate, Fabric
    PROVE  OrdinaryStep
<1>1. UNCHANGED <<slots, net, pc, mon>>
  <2>1. ASSUME NEW q, Deliver(q) \/ Acknowledge(q)
        PROVE  UNCHANGED <<slots, net, pc, mon>>
    BY <2>1, Zenon DEF Deliver, Acknowledge
  <2>2. ASSUME NEW q, NEW s, QpError(s, q)
        PROVE  UNCHANGED <<slots, net, pc, mon>>
    BY <2>2, Zenon DEF QpError
  <2> QED BY <2>1, <2>2, Zenon DEF Fabric
<1>2. OrdinaryNet
  BY <1>1, QuietNet, SidesAndPlanes
<1>3. OrdinarySlots
  BY <1>1, FabricQps, QuietSlots
<1> QED BY <1>1, <1>2, <1>3 DEF OrdinaryStep, OrdinaryPositions, OrdinaryMonitors, OrdinaryWaits

LEMMA MonitorsOrdinary ==
    ASSUME TypeOK, SlotsSeparate, Monitors
    PROVE  OrdinaryStep
<1>1. PICK s \in Sides, t \in Threads :
          \/ \E p \in Planes, up \in BOOLEAN : MonitorMark(s, t, p, up)
          \/ MonitorNotify(s, t) \/ MonitorSend(s, t)
  BY DEF Monitors
<1>2. UNCHANGED pc
  BY <1>1 DEF MonitorMark, MonitorNotify, MonitorSend
<1> DEFINE d == mon[s][t]
<1>3. d \in Deliveries
  BY DEF TypeOK
<1>4. OrdinaryNet
  <2>1. CASE UNCHANGED net
    BY <2>1, QuietNet
  <2>2. CASE MonitorSend(s, t)
    <3> DEFINE m == PlaneEvent(d.plane, d.gen, d.up)
    <3>1. d.stage = "send" /\ Send(s, m)
      BY <2>2 DEF MonitorSend
    <3>2. m \in Messages
      BY <1>3, MessageTypes DEF Deliveries
    <3>3. OrdinaryMessage(Peer(s), m)
      <4>1. m.type = "PlaneEvent" /\ m.plane = d.plane /\ m.gen = d.gen
        BY DEF PlaneEvent
      <4>2. Peer(s) = "S" => s = "R"
        BY DEF Peer, Sides
      <4> QED BY <3>1, <4>1, <4>2 DEF OrdinaryMessage, HandshakeTypes
    <3> HIDE DEF m
    <3> QED BY <3>1, <3>2, <3>3, QuietNet
  <2> QED BY <1>1, <2>1, <2>2 DEF MonitorMark, MonitorNotify
<1>5. OrdinaryMonitors
  <2> SUFFICES ASSUME pc["R"].ph \in {"rprobe", "rmark"}, NEW u \in Threads,
                      mon'["R"][u].stage = "send"
               PROVE  mon'["R"][u] = mon["R"][u]
    BY DEF OrdinaryMonitors
  <2>1. CASE \E p \in Planes, up \in BOOLEAN : MonitorMark(s, t, p, up)
    BY <2>1, SidesAndPlanes DEF MonitorMark, TypeOK
  <2>2. CASE MonitorNotify(s, t)
    <3>1. s # "R"
      BY <2>2 DEF MonitorNotify, In
    <3> QED BY <2>2, <3>1 DEF MonitorNotify, TypeOK
  <2>3. CASE MonitorSend(s, t)
    BY <2>3, SidesAndPlanes DEF MonitorSend, NoDelivery, TypeOK
  <2> QED BY <1>1, <2>1, <2>2, <2>3
<1>6. OrdinarySlots /\ OrdinaryWaits
  <2>1. CASE UNCHANGED <<slots, qps>>
    BY <2>1, QuietSlots DEF OrdinaryWaits
  <2>2. CASE MonitorNotify(s, t)
    <3> DEFINE p == d.plane
               sl == IF d.up THEN OnRecovering(slots[s][p], d.gen) ELSE OnBroken(slots[s][p], d.gen)
    <3>1. p \in Planes /\ d.gen \in Nat
      BY <1>3 DEF Deliveries
    <3>2. slots[s][p] \in Slots(QpIds) /\ qps[s] \in [QpIds -> QpRecords]
      BY <3>1, StateTypes
    <3>3. sl \in Slots(QpIds) /\ Loses(slots[s][p], sl)
      BY <3>1, <3>2, SlotOperatorsType, OperatorsLose
    <3>4. Install(s, p, sl, qps[s]) /\ In(s, {"idle", "failed"})
      BY <2>2 DEF MonitorNotify
    <3> HIDE DEF sl, p, d
    <3>5. OrdinarySlots /\ \A o \in Sides : o # s => slots'[o] = slots[o]
      BY <3>1, <3>2, <3>3, <3>4, InstallOrdinary
    <3>6. OrdinaryWaits
      BY <3>4, <3>5, SidesAndPlanes DEF In, OrdinaryWaits
    <3> QED BY <3>5, <3>6
  <2> QED BY <1>1, <2>1, <2>2 DEF MonitorMark, MonitorSend
<1> QED BY <1>2, <1>4, <1>5, <1>6 DEF OrdinaryStep, OrdinaryPositions

\* handleControl, and what else leaves the position or goes on from none of the
\* handshake's.
LEMMA HandleOrdinary ==
    ASSUME TypeOK, NEW s \in Sides, AfterHandle(s)
    PROVE  OrdinaryPositions
  BY DEF AfterHandle, Goto, At, In, OrdinaryPositions, HandshakePhases, TypeOK

LEMMA GotoOrdinary ==
    ASSUME TypeOK, NEW s \in Sides, pc[s].ph \notin HandshakePhases,
           NEW ph, ph \notin HandshakePhases,
           Goto(s, ph) \/ \E p, g : GotoOn(s, ph, p, g)
    PROVE  OrdinaryPositions
  BY DEF Goto, GotoOn, At, OrdinaryPositions, TypeOK

LEMMA ControlOrdinary ==
    ASSUME TypeOK, SlotsSeparate, Control
    PROVE  OrdinaryStep
<1>1. PICK s \in Sides : RecvPlaneEvent(s) \/ IgnoreAnswer(s)
  BY DEF Control
<1>2. /\ net[s] # <<>> /\ Receive(s) /\ AfterHandle(s) /\ UNCHANGED mon /\ MayHandle(s)
  BY <1>1 DEF RecvPlaneEvent, IgnoreAnswer, Arrived
<1>3. OrdinaryNet
  BY <1>2, QuietNet
<1>4. OrdinaryPositions
  BY <1>2, HandleOrdinary
<1>5. CASE UNCHANGED <<slots, qps>>
  <2>1. OrdinarySlots
    BY <1>5, QuietSlots
  <2> QED BY <1>2, <1>3, <1>4, <1>5, <2>1 DEF OrdinaryStep, OrdinaryMonitors, OrdinaryWaits
<1>6. CASE RecvPlaneEvent(s) /\ ~UNCHANGED <<slots, qps>>
  <2> DEFINE m == Head(net[s])
             p == m.plane
             sl == IF m.up THEN OnRecovering(slots[s][p], m.gen) ELSE OnFailure(slots[s][p])
  <2>1. p \in Planes /\ m.gen \in Nat
    BY <1>6, StateTypes, MessageFields DEF RecvPlaneEvent, Arrived
  <2>2. slots[s][p] \in Slots(QpIds) /\ qps[s] \in [QpIds -> QpRecords]
    BY <2>1, StateTypes
  <2>3. sl \in Slots(QpIds) /\ Loses(slots[s][p], sl)
    BY <2>1, <2>2, SlotOperatorsType, OperatorsLose
  <2>4. Install(s, p, sl, qps[s])
    BY <1>6 DEF RecvPlaneEvent
  <2> HIDE DEF sl, p, m
  <2>5. OrdinarySlots /\ \A o \in Sides : o # s => slots'[o] = slots[o]
    BY <2>1, <2>2, <2>3, <2>4, InstallOrdinary
  <2>6. OrdinaryWaits
    <3>1. s = "R" => pc["R"].ph \notin {"rprobe", "rmark"}
      BY <1>2 DEF MayHandle, In
    <3>2. s = "S" => RecvPlaneEvent("S")
      BY <1>6
    <3> QED BY <2>5, <3>1, <3>2, SidesAndPlanes DEF OrdinaryWaits, Sides
  <2> QED BY <1>2, <1>3, <1>4, <2>5, <2>6 DEF OrdinaryStep, OrdinaryMonitors
<1> QED BY <1>1, <1>5, <1>6 DEF IgnoreAnswer

\* A request is posted to a queue pair in use.
LEMMA PostOrdinary ==
    ASSUME TypeOK, SlotsSeparate, UNCHANGED slots, NEW s \in Sides, NEW r \in Requests,
           PostRequest(s, r)
    PROVE  OrdinarySlots
<1>1. PICK p \in Planes : /\ Selectable(slots[s][p], table[s][p])
                          /\ qps' = WithPosted(s, r, p)
  BY DEF PostRequest, Selected, SelectablePlanes
<1> DEFINE q == slots[s][p].active.qp
           new == PostTo(qps[s][q], s, DataRequest(r.step, slots[s][p].active.gen))
<1>2. q \in QpIds
  BY <1>1, StateTypes DEF Selectable, SlotAtGeneration, Slots, Endpoints
<1>3. q \in LiveQps(slots[s])
  BY <1>2, SidesAndPlanes DEF LiveQps, QpsOf
<1>4. qps' = [qps EXCEPT ![s][q] = new]
  BY <1>1 DEF WithPosted
<1> HIDE DEF q, new
<1>5. \A t \in Sides, i \in QpIds : qps'[t][i] = qps[t][i] \/ i \in LiveQps(slots[t])
  BY <1>2, <1>3, <1>4 DEF TypeOK
<1> QED BY <1>5, PostKeepsConnected, QuietSlots

LEMMA CallsOrdinary ==
    ASSUME TypeOK, SlotsSeparate, Calls
    PROVE  OrdinaryStep
<1>1. PICK s \in Sides : PollCq(s) \/ Return(s) \/ Post(s) \/ Backpressure(s) \/ Test(s)
  BY DEF Calls
<1>2. UNCHANGED mon => OrdinaryMonitors
  BY DEF OrdinaryMonitors
<1>3. CASE Return(s) \/ Post(s) \/ Backpressure(s) \/ Test(s)
  <2>1. UNCHANGED <<slots, net, mon>>
    BY <1>3 DEF Return, Post, Backpressure, Test
  <2>2. OrdinaryPositions
    <3>1. CASE UNCHANGED pc
      BY <3>1 DEF OrdinaryPositions
    <3>2. CASE Return(s)
      <4>1. pc[s].ph \notin HandshakePhases /\ Goto(s, "idle")
        BY <3>2 DEF Return, In, HandshakePhases
      <4>2. "idle" \notin HandshakePhases
        BY DEF HandshakePhases
      <4> QED BY <4>1, <4>2, GotoOrdinary
    <3> QED BY <1>3, <3>1, <3>2 DEF Post, Backpressure, Test
  <2>3. OrdinarySlots
    <3>1. CASE UNCHANGED qps
      BY <2>1, <3>1, QuietSlots
    <3>2. CASE Post(s)
      <4>1. NewRequest(s) \in Requests
        BY <3>2, NewRequestType DEF Post
      <4> QED BY <2>1, <3>2, <4>1, PostOrdinary DEF Post
    <3> QED BY <1>3, <3>1, <3>2 DEF Return, Backpressure, Test
  <2>4. OrdinaryNet
    BY <2>1, QuietNet
  <2> QED BY <1>2, <2>1, <2>2, <2>3, <2>4 DEF OrdinaryStep, OrdinaryWaits
<1>4. CASE PollCq(s)
  <2>0. PICK p \in Planes : \E e \in PolledEndpoints(slots[s][p]) :
          \/ \E ok \in BOOLEAN : PollProbe(s, p, e, ok) \/ PollStale(s, p, e, ok)
          \/ PollSuccess(s, p, e) \/ PollStaleError(s, p, e) \/ PollError(s, p, e)
    BY <1>4 DEF PollCq
  <2>1. PICK e \in PolledEndpoints(slots[s][p]) :
          \/ \E ok \in BOOLEAN : PollProbe(s, p, e, ok) \/ PollStale(s, p, e, ok)
          \/ PollSuccess(s, p, e) \/ PollStaleError(s, p, e) \/ PollError(s, p, e)
    BY <2>0
  <2>2. qps[s][e.qp].cq # <<>> /\ PollAt(s, p, e) /\ UNCHANGED mon
    BY <2>1, Zenon DEF PollProbe, PollStale, PollSuccess, PollStaleError, PollError, HasCompletion
  <2>3. /\ Popped(s, e) \in [QpIds -> QpRecords]
        /\ \A i \in QpIds : Popped(s, e)[i].dest = qps[s][i].dest
    BY <2>2, PoppedType
  <2>4. BeforeReplay(s) /\ pc[s].ph \notin HandshakePhases
    BY <2>2 DEF PollAt, BeforeReplay, In, HandshakePhases
  <2>5. OrdinaryPositions
    <3>1. "cqs" \notin HandshakePhases
      BY DEF HandshakePhases
    <3>2. GotoOn(s, "cqs", p, Rank(slots[s][p], e))
      BY <2>2 DEF PollAt
    <3> QED BY <2>4, <3>1, <3>2, GotoOrdinary
  <2>6. OrdinaryNet
    <3>1. CASE UNCHANGED net
      BY <3>1, QuietNet
    <3>2. CASE PollError(s, p, e)
      <4> DEFINE m == PlaneEvent(p, MarkBroken(table[s][p]).gen, FALSE)
      <4>1. Send(s, m)
        BY <3>2 DEF PollError
      <4>2. m \in Messages
        <5>1. MarkBroken(table[s][p]).gen \in Nat
          BY StateTypes DEF MarkBroken, MarkAs, PlaneEntry
        <5> QED BY <5>1, MessageTypes
      <4>3. m.type = "PlaneEvent"
        BY DEF PlaneEvent
      <4> HIDE DEF m
      <4>4. OrdinaryMessage(Peer(s), m)
        <5>1. Peer(s) = "S" => s = "R"
          BY DEF Peer, Sides
        <5> QED BY <2>4, <4>3, <5>1 DEF OrdinaryMessage, HandshakeTypes, HandshakePhases
      <4> QED BY <4>1, <4>2, <4>4, QuietNet
    <3> QED BY <2>1, <3>1, <3>2 DEF PollProbe, PollStale, PollSuccess, PollStaleError
  <2>7. OrdinarySlots /\ \A t \in Sides : t # s => slots'[t] = slots[t]
    <3>1. CASE \E ok \in BOOLEAN : PollStale(s, p, e, ok)
      <4>1. slots' = slots /\ qps' = [qps EXCEPT ![s] = Popped(s, e)]
        BY <3>1 DEF PollStale
      <4>2. \A t \in Sides, i \in QpIds : qps'[t][i].dest = qps[t][i].dest
        BY <2>3, <4>1 DEF TypeOK
      <4>3. \A t \in Sides, i \in QpIds : qps'[t][i] = qps[t][i] \/ qps[t][i] # NullQp
        <5>1. qps[s][e.qp] # NullQp
          BY <2>2 DEF NullQp
        <5>2. \A i \in QpIds : i # e.qp => Popped(s, e)[i] = qps[s][i]
          BY StateTypes DEF Popped
        <5> QED BY <4>1, <5>1, <5>2 DEF TypeOK
      <4> QED BY <4>1, <4>2, <4>3, QuietSlots
    <3>2. CASE \E sl \in Slots(QpIds) : Loses(slots[s][p], sl) /\ Install(s, p, sl, Popped(s, e))
      <4>1. PICK sl \in Slots(QpIds) : Loses(slots[s][p], sl) /\ Install(s, p, sl, Popped(s, e))
        BY <3>2
      <4> QED BY <2>3, <4>1, InstallOrdinary
    <3>3. slots[s][p] \in Slots(QpIds) /\ ProbeKind(s) \in {"send", "recv"} /\ 0 \in Nat
      BY StateTypes DEF ProbeKind
    <3>4. ASSUME NEW ok \in BOOLEAN, PollProbe(s, p, e, ok)
          PROVE  \E sl \in Slots(QpIds) : Loses(slots[s][p], sl) /\ Install(s, p, sl, Popped(s, e))
      BY <3>3, <3>4, RecordProbeType, OperatorsLose DEF PollProbe
    <3>5. ASSUME PollSuccess(s, p, e) \/ PollStaleError(s, p, e)
          PROVE  \E sl \in Slots(QpIds) : Loses(slots[s][p], sl) /\ Install(s, p, sl, Popped(s, e))
      BY <3>3, <3>5, DropUnusedRetiredType, OperatorsLose DEF PollSuccess, PollStaleError
    <3>6. ASSUME PollError(s, p, e)
          PROVE  \E sl \in Slots(QpIds) : Loses(slots[s][p], sl) /\ Install(s, p, sl, Popped(s, e))
      <4>1. OnFailure(slots[s][p]) \in Slots(QpIds) /\ Loses(slots[s][p], OnFailure(slots[s][p]))
        BY <3>3, SlotOperatorsType, OperatorsLose
      <4> QED BY <3>6, <4>1 DEF PollError
    <3> QED BY <2>1, <3>1, <3>2, <3>4, <3>5, <3>6
  <2>8. OrdinaryWaits
    <3>1. s = "S" => pc["S"].ph \notin {"resp", "probe", "ack"}
      BY <2>4 DEF HandshakePhases
    <3>2. s = "R" => pc["R"].ph \notin {"rprobe", "rmark"}
      BY <2>4 DEF HandshakePhases
    <3> QED BY <2>7, <3>1, <3>2, SidesAndPlanes DEF OrdinaryWaits
  <2> QED BY <1>2, <2>2, <2>5, <2>6, <2>7, <2>8 DEF OrdinaryStep
<1> QED BY <1>1, <1>3, <1>4

\* The questions of the replay engine, and the receiver's answer.
LEMMA QueriesOrdinary ==
    ASSUME TypeOK, SlotsSeparate,
           StartQuery \/ RecvQueryResp \/ QueryTimeout \/ ReplayLater \/ RecvQuery
    PROVE  OrdinaryStep
<1>1. UNCHANGED <<slots, mon>>
  BY DEF StartQuery, RecvQueryResp, QueryTimeout, ReplayLater, RecvQuery
<1>2. /\ "S" \in Sides /\ "R" \in Sides /\ Peer("S") = "R" /\ Peer("R") = "S"
      /\ req["S"] \in Requests /\ req["R"] \in Requests
  BY SidesAndPlanes, StateTypes DEF Peer
<1>3. OrdinaryPositions
  <2>1. CASE RecvQuery
    BY <1>2, <2>1, HandleOrdinary DEF RecvQuery
  <2>2. CASE StartQuery \/ RecvQueryResp \/ QueryTimeout \/ ReplayLater
    <3>1. pc["S"].ph \notin HandshakePhases
      BY <2>2 DEF StartQuery, RecvQueryResp, QueryTimeout, ReplayLater, BeforeReplay, In,
                  HandshakePhases
    <3>2. PICK ph \in {"query", "replayed"} : Goto("S", ph)
      BY <2>2 DEF StartQuery, RecvQueryResp, QueryTimeout, ReplayLater
    <3>3. ph \notin HandshakePhases
      BY DEF HandshakePhases
    <3> QED BY <1>2, <3>1, <3>2, <3>3, GotoOrdinary
  <2> QED BY <2>1, <2>2
<1>4. OrdinaryNet
  <2>1. CASE UNCHANGED net
    BY <1>2, <2>1, QuietNet
  <2>2. CASE StartQuery
    <3> DEFINE m == Query(req["S"].seq)
    <3>1. m \in Messages /\ Send("S", m) /\ m.type = "Query"
      BY <1>2, <2>2, QueryTypes DEF StartQuery, Requests, Query
    <3> HIDE DEF m
    <3>2. OrdinaryMessage(Peer("S"), m)
      BY <3>1 DEF OrdinaryMessage, HandshakeTypes
    <3> QED BY <1>2, <3>1, <3>2, QuietNet
  <2>3. CASE RecvQueryResp
    BY <1>2, <2>3, QuietNet DEF RecvQueryResp, Arrived
  <2>4. CASE RecvQuery
    <3>1. Head(net["R"]).seq \in Nat /\ net["R"] # <<>>
      BY <1>2, <2>4, StateTypes, MessageFields DEF RecvQuery, Arrived
    <3>2. PICK answer \in {"done", "posted", "retry"} :
              ReceiveAndSend("R", QueryResp(Head(net["R"]).seq, answer))
      BY <2>4 DEF RecvQuery
    <3> DEFINE m == QueryResp(Head(net["R"]).seq, answer)
    <3>3. m \in Messages /\ ReceiveAndSend("R", m) /\ m.type = "QueryResp"
      BY <3>1, <3>2, QueryTypes DEF QueryResp
    <3> HIDE DEF m
    <3>4. OrdinaryMessage(Peer("R"), m)
      BY <3>3 DEF OrdinaryMessage, HandshakeTypes
    <3> QED BY <1>2, <3>1, <3>3, <3>4, QuietNet
  <2> QED BY <2>1, <2>2, <2>3, <2>4 DEF QueryTimeout, ReplayLater
<1>5. OrdinarySlots
  <2>1. CASE UNCHANGED qps
    BY <1>1, <2>1, QuietSlots
  <2>2. CASE \E s \in Sides : PostRequest(s, req[s])
    BY <1>1, <2>2, StateTypes, PostOrdinary
  <2>3. RecvQueryResp \/ ReplayLater => UNCHANGED qps \/ PostRequest("S", req["S"])
    BY DEF RecvQueryResp, ReplayLater, Replay
  <2>4. RecvQuery => UNCHANGED qps \/ PostRequest("R", req["R"])
    BY DEF RecvQuery
  <2> QED BY <1>2, <2>1, <2>2, <2>3, <2>4 DEF StartQuery, QueryTimeout
<1> QED BY <1>1, <1>3, <1>4, <1>5 DEF OrdinaryStep, OrdinaryMonitors, OrdinaryWaits

SenderHandshake ==
    \/ \E p \in Planes : RecoverStart(p)
    \/ RecoverRefused \/ RecoverConnect \/ ProbeOk \/ ProbeFailed \/ RecvAck
    \/ MarkHealthyS \/ HandshakeTimeout

ReceiverHandshake ==
    \/ \E ready \in BOOLEAN : RecvRecoveryReq(ready)
    \/ RecvRecoveryReady \/ CommitR \/ RProbeFailed \/ MarkHealthyR

LEMMA NextOrdinary ==
    ASSUME TypeOK, SlotsSeparate, Next
    PROVE  OrdinaryStep \/ SenderHandshake \/ ReceiverHandshake
<1>1. CASE Sender
  BY <1>1, QueriesOrdinary DEF Sender, SenderHandshake
<1>2. CASE Receiver
  BY <1>2, QueriesOrdinary DEF Receiver, ReceiverHandshake
<1> QED BY <1>1, <1>2, FabricOrdinary, MonitorsOrdinary, ControlOrdinary, CallsOrdinary DEF Next

-----------------------------------------------------------------------------
\* An ordinary step leaves the messages of a handshake and its two ends alone.
LEMMA OrdinaryToken ==
    ASSUME TypeOK, TypeOK', OneToken, OrdinaryNet, OrdinaryPositions
    PROVE  OneToken'
<1>1. PICK k \in [Sides -> 0 .. 1] : \A t \in Sides : \A i \in 1 .. Len(net'[t]) :
          Remains(k, t, i) \/ (IsNew(k, t, i) /\ OrdinaryMessage(t, net'[t][i]))
  BY DEF OrdinaryNet
<1>2. ASSUME NEW t \in Sides, NEW i \in 1 .. Len(net'[t]), net'[t][i].type \in HandshakeTypes
      PROVE  /\ i + k[t] \in 1 .. Len(net[t]) /\ net'[t][i] = net[t][i + k[t]]
             /\ net[t][i + k[t]].type \in HandshakeTypes
  BY <1>1, <1>2 DEF Remains, OrdinaryMessage
<1>3. /\ "S" \in Sides /\ "R" \in Sides
      /\ \A t \in Sides : k[t] \in 0 .. 1 /\ Len(net'[t]) \in Nat
  BY SidesAndPlanes DEF TypeOK
<1>4. ASSUME NEW s \in Sides, NEW t \in Sides, NEW i \in 1 .. Len(net'[s]), NEW j \in 1 .. Len(net'[t]),
             net'[s][i].type \in HandshakeTypes, net'[t][j].type \in HandshakeTypes
      PROVE  s = t /\ i = j
  <2>1. i + k[s] \in 1 .. Len(net[s]) /\ net[s][i + k[s]].type \in HandshakeTypes
    BY <1>2, <1>4
  <2>2. j + k[t] \in 1 .. Len(net[t]) /\ net[t][j + k[t]].type \in HandshakeTypes
    BY <1>2, <1>4
  <2>3. s = t /\ i + k[s] = j + k[t]
    BY <2>1, <2>2 DEF OneToken
  <2> QED BY <1>3, <2>3
<1>5. pc'["S"] = pc["S"] \/ (pc["S"].ph \notin HandshakePhases /\ pc'["S"].ph \notin HandshakePhases)
  BY <1>3 DEF OrdinaryPositions
<1>6. pc'["R"] = pc["R"] \/ pc'["R"].ph \notin {"rprobe", "rmark"}
  BY <1>3 DEF OrdinaryPositions, HandshakePhases
<1>7. \A m : Matches(m, pc["S"]) \/ pc["S"].ph \in {"failed", "ack"} => pc'["S"] = pc["S"]
  BY <1>5 DEF Matches, HandshakePhases
<1>8. ASSUME NEW s \in Sides, NEW i \in 1 .. Len(net'[s]), net'[s][i].type \in HandshakeTypes
      PROVE  /\ pc'["R"].ph \notin {"rprobe", "rmark"}
             /\ pc'["S"].ph = "failed" \/ Matches(net'[s][i], pc'["S"])
  <2>1. /\ pc["R"].ph \notin {"rprobe", "rmark"}
        /\ pc["S"].ph = "failed" \/ Matches(net'[s][i], pc["S"])
    BY <1>2, <1>8 DEF OneToken
  <2> QED BY <1>6, <1>7, <2>1
<1>9. ASSUME pc'["R"].ph \in {"rprobe", "rmark"}
      PROVE  \/ pc'["S"].ph = "failed"
             \/ pc'["S"].ph = "ack" /\ pc'["R"].plane = pc'["S"].plane /\ pc'["R"].gen = pc'["S"].gen
  BY <1>6, <1>7, <1>9 DEF OneToken
<1> QED BY <1>4, <1>8, <1>9 DEF OneToken

\* A step of a handshake that sends nothing, or m.
ReceiverInStep ==
    pc["R"].ph \in {"rprobe", "rmark"} =>
        \/ pc["S"].ph = "failed"
        \/ pc["S"].ph = "ack" /\ pc["R"].plane = pc["S"].plane /\ pc["R"].gen = pc["S"].gen

LEMMA SilentToken ==
    ASSUME TypeOK, OneToken, ReceiverInStep', NEW s \in Sides,
           (TokenFirst(s) /\ Receive(s)) \/ (NoTokens /\ UNCHANGED net)
    PROVE  OneToken' /\ NoTokens'
<1>1. NoTokens'
  BY NoNewToken
<1> QED BY <1>1 DEF OneToken, NoTokens, ReceiverInStep

LEMMA SentToken ==
    ASSUME TypeOK, OneToken, NEW s \in Sides, NEW m \in Messages,
           (TokenFirst(s) /\ ReceiveAndSend(s, m)) \/ (NoTokens /\ Send(s, m)),
           pc'["R"].ph \notin {"rprobe", "rmark"},
           pc'["S"].ph = "failed" \/ Matches(m, pc'["S"])
    PROVE  OneToken'
<1>1. \A t \in Sides : \A i \in 1 .. Len(net'[t]) :
          net'[t][i].type \in HandshakeTypes =>
              t = Peer(s) /\ net'[t][i] = m /\ i = Len(net'[t])
  BY OnlyNewToken
<1> QED BY <1>1 DEF OneToken

\* Without a wait there is no message, and no commit, of a handshake; a commit
\* excludes messages, and a message matches the wait it is for.
LEMMA TokenFacts ==
    ASSUME TypeOK, OneToken
    PROVE  /\ pc["S"].ph \notin {"resp", "ack", "failed"} =>
                 NoTokens /\ pc["R"].ph \notin {"rprobe", "rmark"}
           /\ pc["R"].ph \in {"rprobe", "rmark"} => NoTokens
           /\ \A s \in Sides : TokenFirst(s) =>
                 /\ pc["R"].ph \notin {"rprobe", "rmark"}
                 /\ pc["S"].ph = "failed" \/ Matches(Head(net[s]), pc["S"])
           /\ ReceiverInStep
<1>1. ASSUME NEW s \in Sides, TokenFirst(s)
      PROVE  /\ pc["R"].ph \notin {"rprobe", "rmark"}
             /\ pc["S"].ph = "failed" \/ Matches(Head(net[s]), pc["S"])
  <2>1. net[s] \in Seq(Messages) /\ 1 \in 1 .. Len(net[s]) /\ net[s][1] = Head(net[s])
    BY <1>1 DEF TypeOK, TokenFirst
  <2> QED BY <1>1, <2>1 DEF OneToken, TokenFirst
<1>2. ASSUME pc["S"].ph \notin {"resp", "ack", "failed"}
      PROVE  NoTokens /\ pc["R"].ph \notin {"rprobe", "rmark"}
  BY <1>2 DEF OneToken, NoTokens, Matches
<1>3. ASSUME pc["R"].ph \in {"rprobe", "rmark"}
      PROVE  NoTokens
  BY <1>3 DEF OneToken, NoTokens
<1>4. ReceiverInStep
  BY DEF OneToken, ReceiverInStep
<1> QED BY <1>1, <1>2, <1>3, <1>4

\* The answer an end of a handshake has come for is at the head of the socket.
LEMMA AnswerFirst ==
    ASSUME TypeOK, TablesKnown, RecoverRefused \/ RecoverConnect \/ RecvAck
    PROVE  /\ TokenFirst("S") /\ Receive("S") /\ pc["S"].ph \in {"resp", "ack"}
           /\ Head(net["S"]).plane = pc["S"].plane /\ Head(net["S"]).gen = pc["S"].gen
           /\ RecoverConnect => pc["S"].ph = "resp"
           /\ RecvAck => pc["S"].ph = "ack"
<1> DEFINE m == Head(net["S"])
<1>1. /\ Arrived("S", "RecoveryResp") \/ Arrived("S", "RecoveryAck")
      /\ Awaited("S", m) /\ Receive("S")
      /\ RecoverConnect => m.type = "RecoveryResp"
      /\ RecvAck => m.type = "RecoveryAck"
  BY DEF RecoverRefused, RecoverConnect, RecvAck, Arrived
<1> HIDE DEF m
<1>2. /\ net["S"] # <<>> /\ m.plane = pc["S"].plane /\ m.gen = pc["S"].gen
      /\ \/ m.type = "RecoveryResp" /\ In("S", {"resp"})
         \/ m.type = "RecoveryAck" /\ In("S", {"ack"})
  BY <1>1, AwaitedKnown DEF m
<1> QED BY <1>1, <1>2 DEF In, TokenFirst, HandshakeTypes, m

LEMMA SenderPosition ==
    ASSUME TypeOK, SenderHandshake
    PROVE  /\ pc'["R"] = pc["R"]
           /\ \A p, g : \A ph \in {"resp", "probe", "ack"} :
                 GotoOn("S", ph, p, g) => pc'["S"] = [ph |-> ph, plane |-> p, gen |-> g]
<1>1. pc'["R"] = pc["R"]
  BY SenderKeepsWait DEF SenderHandshake, Sender
<1> QED BY <1>1, SidesAndPlanes DEF GotoOn, TypeOK

LEMMA SenderToken ==
    ASSUME TypeOK, OneToken, TablesKnown, SenderHandshake
    PROVE  OneToken'
<1>0. "S" \in Sides /\ Peer("S") = "R" /\ pc["S"].plane \in Planes /\ pc["S"].gen \in Nat
      /\ pc'["R"] = pc["R"] /\ Query(0) \in Messages
  BY SidesAndPlanes, StateTypes, SenderPosition, QueryTypes DEF Peer
<1>1. ASSUME NEW p \in Planes, RecoverStart(p)
      PROVE  OneToken'
  <2> DEFINE g == table["S"][p].gen
             m == RecoveryReq(p, g, EnsureShadow(slots["S"][p], g, FreshQp("S")).shadow.qp)
  <2>1. NoTokens /\ pc'["R"].ph \notin {"rprobe", "rmark"}
    <3>1. pc["S"].ph \notin {"resp", "ack", "failed"}
      BY <1>1 DEF RecoverStart, MayRecover, BeforeReplay, In
    <3> QED BY <1>0, <3>1, TokenFacts
  <2>2. Send("S", m) /\ GotoOn("S", "resp", p, g)
    BY <1>1 DEF RecoverStart
  <2>3. pc'["S"] = [ph |-> "resp", plane |-> p, gen |-> g]
    BY <1>1, <2>2, SenderPosition DEF SenderHandshake
  <2>4. m.type = "RecoveryReq" /\ m.plane = p /\ m.gen = g
    BY DEF RecoveryReq
  <2>5. m \in Messages
    <3>1. FreshQp("S") \in QpIds
      BY <1>0, <1>1, FreshQpType DEF RecoverStart
    <3>2. slots["S"][p] \in Slots(QpIds) /\ g \in Nat
      BY <1>0, StateTypes DEF PlaneEntry
    <3>3. EnsureShadow(slots["S"][p], g, FreshQp("S")).shadow.qp \in QpIds
      BY <3>1, <3>2 DEF EnsureShadow, ResetProbe, NewEndpoint, Slots, Endpoints
    <3> QED BY <3>2, <3>3, MessageTypes
  <2> HIDE DEF m, g
  <2>6. Matches(m, pc'["S"])
    BY <2>3, <2>4 DEF Matches
  <2> QED BY <1>0, <2>1, <2>2, <2>5, <2>6, SentToken
<1>2. CASE RecoverRefused \/ RecoverConnect \/ RecvAck
  <2>1. TokenFirst("S") /\ Receive("S")
    BY <1>2, AnswerFirst
  <2>2. pc'["R"].ph \notin {"rprobe", "rmark"}
    BY <1>0, <2>1, TokenFacts
  <2> QED BY <1>0, <2>1, <2>2, SilentToken DEF ReceiverInStep
<1>3. CASE ProbeOk
  <2> DEFINE m == RecoveryReady(pc["S"].plane, pc["S"].gen)
  <2>1. NoTokens /\ pc'["R"].ph \notin {"rprobe", "rmark"}
    BY <1>0, <1>3, TokenFacts DEF ProbeOk, In
  <2>2. /\ pc'["S"] = [ph |-> "ack", plane |-> pc["S"].plane, gen |-> pc["S"].gen]
        /\ Send("S", m)
    BY <1>3, SenderPosition DEF ProbeOk, SenderHandshake
  <2>3. /\ m \in Messages /\ m.type = "RecoveryReady"
        /\ m.plane = pc["S"].plane /\ m.gen = pc["S"].gen
    BY <1>0, MessageTypes DEF RecoveryReady
  <2> HIDE DEF m
  <2>4. Matches(m, pc'["S"])
    BY <2>2, <2>3 DEF Matches
  <2> QED BY <1>0, <2>1, <2>2, <2>3, <2>4, SentToken
<1>4. CASE ProbeFailed \/ MarkHealthyS
  <2>1. NoTokens /\ pc'["R"].ph \notin {"rprobe", "rmark"} /\ UNCHANGED net
    BY <1>0, <1>4, TokenFacts DEF ProbeFailed, MarkHealthyS, In
  <2> QED BY <1>0, <2>1, SilentToken DEF ReceiverInStep
<1>5. CASE HandshakeTimeout
  <2>1. pc'["S"].ph = "failed" /\ UNCHANGED net
    BY <1>5, SidesAndPlanes DEF HandshakeTimeout, Goto, At, TypeOK
  <2> QED BY <1>0, <2>1 DEF OneToken
<1> QED BY <1>1, <1>2, <1>3, <1>4, <1>5 DEF SenderHandshake

\* What the receiver's steps say to the sender, and where they leave it.
LEMMA ReceiverPosition ==
    ASSUME TypeOK, ReceiverHandshake
    PROVE  /\ pc'["S"] = pc["S"]
           /\ AfterHandle("R") /\ MayHandle("R") => pc'["R"].ph \notin {"rprobe", "rmark", "mark"}
           /\ Goto("R", "control") => pc'["R"] = At("control")
           /\ \A p, g, ph : GotoOn("R", ph, p, g) => pc'["R"] = [ph |-> ph, plane |-> p, gen |-> g]
<1>1. \/ \E ph : Goto("R", ph)
      \/ \E ph, p, g : GotoOn("R", ph, p, g)
      \/ UNCHANGED pc
  BY Zenon DEF ReceiverHandshake, RecvRecoveryReq, RecvRecoveryReady, CommitR, RProbeFailed,
         MarkHealthyR, AfterHandle
<1>2. pc'["S"] = pc["S"]
  BY <1>1, SidesAndPlanes DEF Goto, GotoOn, TypeOK
<1> QED BY <1>2, SidesAndPlanes DEF AfterHandle, MayHandle, Goto, GotoOn, At, In, TypeOK

LEMMA ReceiverToken ==
    ASSUME TypeOK, OneToken, TablesKnown, ReceiverHandshake
    PROVE  OneToken'
<1> DEFINE p == pc["R"].plane
           g == pc["R"].gen
           n == Head(net["R"])
<1>0. "R" \in Sides /\ Peer("R") = "S" /\ p \in Planes /\ g \in Nat /\ pc'["S"] = pc["S"]
  BY SidesAndPlanes, StateTypes, ReceiverPosition DEF Peer
<1>1. ASSUME NEW m \in Messages, m.plane = n.plane, m.gen = n.gen,
             \/ n.type = "RecoveryReq" /\ m.type = "RecoveryResp"
             \/ n.type = "RecoveryReady" /\ m.type = "RecoveryAck",
             net["R"] # <<>>, ReceiveAndSend("R", m), AfterHandle("R"), MayHandle("R")
      PROVE  OneToken'
  <2>1. TokenFirst("R")
    BY <1>1 DEF TokenFirst, HandshakeTypes
  <2>2. pc["S"].ph = "failed" \/ Matches(n, pc["S"])
    BY <1>0, <2>1, TokenFacts
  <2>3. pc'["S"].ph = "failed" \/ Matches(m, pc'["S"])
    BY <1>0, <1>1, <2>2 DEF Matches
  <2>4. pc'["R"].ph \notin {"rprobe", "rmark"}
    BY <1>1, ReceiverPosition
  <2> QED BY <1>0, <1>1, <2>1, <2>3, <2>4, SentToken
<1>2. ASSUME NEW ready \in BOOLEAN, RecvRecoveryReq(ready)
      PROVE  OneToken'
  <2>1. n.plane \in Planes /\ n.gen \in Nat /\ n.type = "RecoveryReq" /\ net["R"] # <<>>
    BY <1>0, <1>2, StateTypes, MessageFields DEF RecvRecoveryReq, Arrived
  <2>2. FreshQp("R") \in QpIds
    BY <1>0, <1>2, FreshQpType DEF RecvRecoveryReq
  <2>3. \/ ReceiveAndSend("R", RecoveryResp(n.plane, n.gen, FALSE, NoQp))
        \/ ReceiveAndSend("R", RecoveryResp(n.plane, n.gen, TRUE, FreshQp("R")))
    BY <1>2 DEF RecvRecoveryReq
  <2>4. /\ RecoveryResp(n.plane, n.gen, FALSE, NoQp) \in Messages
        /\ RecoveryResp(n.plane, n.gen, TRUE, FreshQp("R")) \in Messages
    BY <2>1, <2>2, MessageTypes
  <2>5. MayHandle("R") /\ AfterHandle("R")
    BY <1>2 DEF RecvRecoveryReq
  <2> HIDE DEF n
  <2> QED BY <1>1, <2>1, <2>3, <2>4, <2>5 DEF RecoveryResp
<1>3. CASE RecvRecoveryReady
  <2>1. n.plane \in Planes /\ n.gen \in Nat /\ n.type = "RecoveryReady" /\ net["R"] # <<>>
    BY <1>0, <1>3, StateTypes, MessageFields DEF RecvRecoveryReady, Arrived
  <2>2. MayHandle("R")
    BY <1>3 DEF RecvRecoveryReady
  <2>3. CASE ReceiveAndSend("R", RecoveryAck(n.plane, n.gen, FALSE)) /\ AfterHandle("R")
    <3> DEFINE m == RecoveryAck(n.plane, n.gen, FALSE)
    <3>1. m \in Messages /\ m.type = "RecoveryAck" /\ m.plane = n.plane /\ m.gen = n.gen
      BY <2>1, MessageTypes DEF RecoveryAck
    <3> HIDE DEF m, n
    <3> QED BY <1>1, <2>1, <2>2, <2>3, <3>1 DEF m
  <2>4. CASE Receive("R") /\ GotoOn("R", "rprobe", n.plane, n.gen)
    <3>1. TokenFirst("R")
      BY <2>1 DEF TokenFirst, HandshakeTypes
    <3>2. pc["S"].ph = "failed" \/ (pc["S"].ph = "ack" /\ n.plane = pc["S"].plane /\ n.gen = pc["S"].gen)
      BY <1>0, <2>1, <3>1, TokenFacts DEF Matches
    <3>3. pc'["R"] = [ph |-> "rprobe", plane |-> n.plane, gen |-> n.gen]
      BY <2>4, ReceiverPosition
    <3> QED BY <1>0, <2>4, <3>1, <3>2, <3>3, SilentToken DEF ReceiverInStep
  <2> QED BY <1>3, <2>3, <2>4 DEF RecvRecoveryReady
<1>4. CASE CommitR
  <2>1. NoTokens /\ UNCHANGED net /\ ReceiverInStep
    BY <1>4, TokenFacts DEF CommitR, In
  <2>2. pc'["R"] = [ph |-> "rmark", plane |-> p, gen |-> g] /\ pc["R"].ph = "rprobe"
    BY <1>4, ReceiverPosition DEF CommitR, In
  <2> QED BY <1>0, <2>1, <2>2, SilentToken DEF ReceiverInStep
<1>5. CASE RProbeFailed \/ MarkHealthyR
  <2>1. pc["R"].ph \in {"rprobe", "rmark"} /\ pc'["R"].ph = "control"
    <3>1. pc["R"].ph \in {"rprobe", "rmark"} /\ Goto("R", "control")
      BY <1>5 DEF RProbeFailed, MarkHealthyR, In
    <3>2. ReceiverHandshake
      BY <1>5 DEF ReceiverHandshake
    <3> QED BY <3>1, <3>2, ReceiverPosition DEF At
  <2>2. PICK ok \in BOOLEAN : Send("R", RecoveryAck(p, g, ok))
    BY <1>5 DEF RProbeFailed, MarkHealthyR, HealthyIfGenerationOK
  <2> DEFINE m == RecoveryAck(p, g, ok)
  <2>3. m \in Messages /\ m.type = "RecoveryAck" /\ m.plane = p /\ m.gen = g
    BY <1>0, MessageTypes DEF RecoveryAck
  <2>4. NoTokens /\ ReceiverInStep
    BY <2>1, TokenFacts
  <2>5. pc'["S"].ph = "failed" \/ Matches(m, pc'["S"])
    BY <1>0, <2>1, <2>3, <2>4 DEF Matches, ReceiverInStep
  <2> HIDE DEF m
  <2> QED BY <1>0, <2>1, <2>2, <2>3, <2>4, <2>5, SentToken DEF m
<1> QED BY <1>2, <1>3, <1>4, <1>5 DEF ReceiverHandshake

-----------------------------------------------------------------------------
\* What the steps of a handshake do to a slot.
Move(s, p, sl, q) == sl \in Slots(QpIds) /\ q \in [QpIds -> QpRecords] /\ Install(s, p, sl, q)

\* A replacement x for generation g is begun, ...
Begins(slot, sl, x, g) ==
    /\ sl.active = slot.active /\ sl.retired = slot.retired
    /\ sl.shadow.qp = x /\ sl.shadow.gen = g
    /\ sl.state # "Active" /\ sl.probe = FreshProbe(g)

\* ... connected, ...
Connects(slot, sl, g) ==
    /\ sl.active = slot.active /\ sl.retired = slot.retired
    /\ sl.shadow.qp = slot.shadow.qp /\ sl.shadow.gen = slot.shadow.gen /\ sl.shadow.ready
    /\ sl.state # "Active" /\ sl.probe = FreshProbe(g)

\* ... and put in the place of the active queue pair, ...
Commits(slot, sl) ==
    /\ slot.shadow.qp # NoQp
    /\ sl.active = slot.shadow /\ sl.shadow = NoEndpoint /\ sl.state = "Active"
    /\ sl.retired \subseteq slot.retired \cup {slot.active}

\* ... or given up.
GivesUp(slot, sl) == Loses(slot, sl) /\ sl.shadow.qp = NoQp

LEMMA OperatorsMove ==
    ASSUME NEW slot \in Slots(QpIds), NEW g \in Nat, NEW x \in QpIds
    PROVE  /\ \/ EnsureShadow(slot, g, x) = slot /\ slot.shadow.qp # NoQp
              \/ Begins(slot, EnsureShadow(slot, g, x), x, g)
           /\ Connects(slot, ConnectShadow(slot, g), g)
           /\ slot.shadow.qp # NoQp =>
                 \A p, r : Commits(slot, DropUnusedRetired(CommitShadow(slot), p, r))
           /\ GivesUp(slot, AbortRecovery(slot))
<1>1. \/ EnsureShadow(slot, g, x) = slot /\ slot.shadow.qp # NoQp
      \/ Begins(slot, EnsureShadow(slot, g, x), x, g)
  BY DEF EnsureShadow, Begins, ResetProbe, NewEndpoint, Slots
<1>2. Connects(slot, ConnectShadow(slot, g), g)
  BY DEF ConnectShadow, Connects, ResetProbe, Slots, Endpoints
<1>3. ASSUME slot.shadow.qp # NoQp, NEW p, NEW r
      PROVE  Commits(slot, DropUnusedRetired(CommitShadow(slot), p, r))
  <2> DEFINE c == CommitShadow(slot)
  <2>1. /\ c.active = slot.shadow /\ c.shadow = NoEndpoint /\ c.state = "Active"
        /\ c.retired \subseteq slot.retired \cup {slot.active}
    BY DEF CommitShadow, RetireActive, ClearProbe, ResetProbe, Slots
  <2>2. c \in Slots(QpIds)
    BY SlotOperatorsType
  <2> HIDE DEF c
  <2>3. Loses(c, DropUnusedRetired(c, p, r)) /\ DropUnusedRetired(c, p, r).state = c.state
        /\ DropUnusedRetired(c, p, r).shadow = c.shadow
    <3>1. Loses(c, DropUnusedRetired(c, p, r))
      BY <2>2, OperatorsLose
    <3> QED BY <2>2, <3>1 DEF DropUnusedRetired, Slots
  <2> QED BY <1>3, <2>1, <2>3 DEF Commits, Loses, Keeps, c
<1>4. GivesUp(slot, AbortRecovery(slot))
  BY OperatorsLose, AbortRecoveryType DEF GivesUp
<1> QED BY <1>1, <1>2, <1>3, <1>4

\* The sender's steps.
SenderGivesUp == \E sl : Move("S", pc["S"].plane, sl, qps["S"]) /\ GivesUp(Current, sl)

ConnectedQp(s, x, y, g) ==
    [qps[s] EXCEPT ![x] = PostTo([@ EXCEPT !.dest = y], s, ProbeRequest(g))]

LEMMA RecoverGiveUpMoves ==
    ASSUME TypeOK, RecoverGiveUp
    PROVE  SenderGivesUp
<1>1. "S" \in Sides /\ pc["S"].plane \in Planes /\ Current \in Slots(QpIds)
      /\ qps["S"] \in [QpIds -> QpRecords]
  BY SidesAndPlanes, StateTypes DEF Current
<1>2. AbortRecovery(Current) \in Slots(QpIds) /\ GivesUp(Current, AbortRecovery(Current))
  BY <1>1, AbortRecoveryType, OperatorsLose DEF GivesUp
<1> QED BY <1>1, <1>2 DEF RecoverGiveUp, Move, SenderGivesUp

LEMMA ConnectMoves ==
    ASSUME TypeOK, NEW s \in Sides, NEW x \in QpIds, NEW y \in QpIds, NEW g \in Nat
    PROVE  /\ ConnectedQp(s, x, y, g) \in [QpIds -> QpRecords]
           /\ ConnectedQp(s, x, y, g)[x].dest = y
           /\ \A i \in QpIds : i # x => ConnectedQp(s, x, y, g)[i] = qps[s][i]
<1> DEFINE c == [qps[s][x] EXCEPT !.dest = y]
           r == PostTo(c, s, ProbeRequest(g))
<1>1. qps[s] \in [QpIds -> QpRecords] /\ qps[s][x] \in QpRecords
  BY StateTypes
<1>2. y \in 0 .. MaxQp
  BY DpfrCommAssumption DEF QpIds
<1>3. c \in QpRecords /\ c.dest = y
  BY <1>1, <1>2 DEF QpRecords
<1>4. ProbeRequest(g) \in WorkRequests
  BY DpfrCommAssumption DEF ProbeRequest, WorkRequests
<1> HIDE DEF c
<1>5. r \in QpRecords /\ r.dest = y
  BY <1>3, <1>4, PostToType
<1>6. ConnectedQp(s, x, y, g) = [qps[s] EXCEPT ![x] = r]
  BY <1>1 DEF ConnectedQp, c
<1> HIDE DEF r
<1> QED BY <1>1, <1>5, <1>6

LEMMA SenderMoves ==
    ASSUME TypeOK
    PROVE  /\ \A p \in Planes : RecoverStart(p) =>
                 LET g == table["S"][p].gen
                 IN  \E sl : /\ Move("S", p, sl, qps["S"])
                             /\ \/ sl = slots["S"][p] /\ sl.shadow.qp # NoQp
                                \/ Begins(slots["S"][p], sl, FreshQp("S"), g)
                             /\ Send("S", RecoveryReq(p, g, sl.shadow.qp))
           /\ RecoverRefused \/ ProbeFailed => SenderGivesUp
           /\ RecoverConnect =>
                 LET m == Head(net["S"])
                     x == Current.shadow.qp
                 IN  /\ x \in QpIds /\ m.qp \in QpIds /\ m.ok /\ m.type = "RecoveryResp"
                     /\ \E sl : /\ Move("S", pc["S"].plane, sl,
                                         ConnectedQp("S", x, m.qp, pc["S"].gen))
                                /\ Connects(Current, sl, pc["S"].gen)
           /\ ProbeOk => /\ Move("S", pc["S"].plane,
                                  RecordProbe(Current, "send", pc["S"].gen, TRUE),
                                  Popped("S", Current.shadow))
                         /\ \A i \in QpIds : Popped("S", Current.shadow)[i].dest = qps["S"][i].dest
           /\ RecvAck => \/ SenderGivesUp /\ pc'["S"].ph = "recovered"
                         \/ /\ \E sl : /\ Move("S", pc["S"].plane, sl, qps["S"])
                                       /\ Commits(Current, sl)
                            /\ pc'["S"].ph = "mark"
<1> DEFINE p == pc["S"].plane
           g == pc["S"].gen
           m == Head(net["S"])
<1>1. /\ "S" \in Sides /\ p \in Planes /\ g \in Nat /\ Current \in Slots(QpIds)
      /\ qps["S"] \in [QpIds -> QpRecords] /\ Current = slots["S"][p]
  BY SidesAndPlanes, StateTypes DEF Current
<1>2. ASSUME NEW o \in Planes, RecoverStart(o)
      PROVE  LET h == table["S"][o].gen
             IN  \E sl : /\ Move("S", o, sl, qps["S"])
                         /\ \/ sl = slots["S"][o] /\ sl.shadow.qp # NoQp
                            \/ Begins(slots["S"][o], sl, FreshQp("S"), h)
                         /\ Send("S", RecoveryReq(o, h, sl.shadow.qp))
  <2> DEFINE h == table["S"][o].gen
             sl == EnsureShadow(slots["S"][o], h, FreshQp("S"))
  <2>1. h \in Nat /\ slots["S"][o] \in Slots(QpIds) /\ FreshQp("S") \in QpIds
    BY <1>1, <1>2, StateTypes, FreshQpType DEF RecoverStart, PlaneEntry
  <2>2. /\ sl \in Slots(QpIds)
        /\ \/ sl = slots["S"][o] /\ sl.shadow.qp # NoQp
           \/ Begins(slots["S"][o], sl, FreshQp("S"), h)
    BY <2>1, EnsureShadowType, OperatorsMove
  <2>3. Install("S", o, sl, qps["S"]) /\ Send("S", RecoveryReq(o, h, sl.shadow.qp))
    BY <1>2 DEF RecoverStart
  <2> HIDE DEF sl
  <2> QED BY <1>1, <2>2, <2>3 DEF Move
<1>3. ASSUME RecoverRefused \/ ProbeFailed
      PROVE  SenderGivesUp
  BY <1>3, RecoverGiveUpMoves, Zenon DEF RecoverRefused, ProbeFailed
<1>4. ASSUME RecoverConnect
      PROVE  /\ Current.shadow.qp \in QpIds /\ m.qp \in QpIds /\ m.ok /\ m.type = "RecoveryResp"
             /\ \E sl : /\ Move("S", p, sl, ConnectedQp("S", Current.shadow.qp, m.qp, g))
                        /\ Connects(Current, sl, g)
  <2> DEFINE x == Current.shadow.qp
             sl == ConnectShadow(Current, g)
  <2>1. m \in Messages /\ m.plane = p /\ m.gen = g /\ m.ok /\ m.type = "RecoveryResp"
    BY <1>1, <1>4, StateTypes, Zenon DEF RecoverConnect, Arrived, Awaited
  <2>2. m.qp \in QpIds /\ x \in QpIds
    <3>1. x # NoQp
      BY <1>4 DEF RecoverConnect
    <3> QED BY <1>1, <2>1, <3>1, MessageFields DEF Slots, Endpoints
  <2>3. sl \in Slots(QpIds) /\ Connects(Current, sl, g)
    BY <1>1, <2>2, SlotOperatorsType, OperatorsMove
  <2>4. Install("S", p, sl, ConnectedQp("S", x, m.qp, g))
    BY <1>4, <2>1 DEF RecoverConnect, ConnectedQp
  <2>5. ConnectedQp("S", x, m.qp, g) \in [QpIds -> QpRecords]
    BY <1>1, <2>2, ConnectMoves
  <2> HIDE DEF sl, x, m
  <2> QED BY <2>1, <2>2, <2>3, <2>4, <2>5 DEF Move, x
<1>5. ASSUME ProbeOk
      PROVE  /\ Move("S", p, RecordProbe(Current, "send", g, TRUE), Popped("S", Current.shadow))
             /\ \A i \in QpIds : Popped("S", Current.shadow)[i].dest = qps["S"][i].dest
  <2>1. /\ Popped("S", Current.shadow) \in [QpIds -> QpRecords]
        /\ \A i \in QpIds : Popped("S", Current.shadow)[i].dest = qps["S"][i].dest
    BY <1>1, <1>5, ShadowPoppedType, Zenon DEF ProbeOk, ShadowCompletion, HasCompletion, Current
  <2>2. RecordProbe(Current, "send", g, TRUE) \in Slots(QpIds)
    BY <1>1, RecordProbeType
  <2>3. Install("S", p, RecordProbe(Current, "send", g, TRUE), Popped("S", Current.shadow))
    BY <1>5 DEF ProbeOk
  <2> QED BY <2>1, <2>2, <2>3, Zenon DEF Move
<1>6. ASSUME RecvAck
      PROVE  \/ SenderGivesUp /\ pc'["S"].ph = "recovered"
             \/ /\ \E sl : Move("S", p, sl, qps["S"]) /\ Commits(Current, sl)
                /\ pc'["S"].ph = "mark"
  <2>1. CASE RecoverGiveUp
    <3>1. pc'["S"].ph = "recovered"
      BY <1>1, <2>1 DEF RecoverGiveUp, GotoOn, TypeOK
    <3> QED BY <2>1, <3>1, RecoverGiveUpMoves
  <2>2. CASE /\ CanCommit(Current, m.gen)
             /\ Install("S", p, DropUnusedRetired(CommitShadow(Current), p, req["S"]), qps["S"])
             /\ GotoOn("S", "mark", p, m.gen)
    <3> DEFINE sl == DropUnusedRetired(CommitShadow(Current), p, req["S"])
    <3>1. sl \in Slots(QpIds)
      <4>1. CommitShadow(Current) \in Slots(QpIds)
        BY <1>1, SlotOperatorsType
      <4> QED BY <4>1, DropUnusedRetiredType
    <3>2. Commits(Current, sl)
      <4>1. Current.shadow.qp # NoQp /\ Current.shadow.qp \in QpIds
        BY <1>1, <2>2 DEF CanCommit, Slots, Endpoints
      <4> QED BY <1>1, <4>1, OperatorsMove
    <3>3. pc'["S"].ph = "mark"
      BY <1>1, <2>2 DEF GotoOn, TypeOK
    <3> QED BY <1>1, <2>2, <3>1, <3>2, <3>3 DEF Move
  <2> QED BY <1>6, <2>1, <2>2 DEF RecvAck, Arrived, Awaited
<1> HIDE DEF p, g, m
<1> QED BY <1>2, <1>3, <1>4, <1>5, <1>6 DEF p, g, m

\* The receiver's steps.
LEMMA RequestMoves ==
    ASSUME TypeOK, SlotsSeparate, NEW ready \in BOOLEAN, RecvRecoveryReq(ready)
    PROVE  LET m == Head(net["R"])
               old == slots["R"][m.plane]
               x == FreshQp("R")
           IN  /\ net["R"] # <<>> /\ m.type = "RecoveryReq"
               /\ m.plane \in Planes /\ m.gen \in Nat /\ m.qp \in QpIds
               /\ x \in QpIds /\ x \notin NamedQps("R")
               /\ \/ /\ \/ UNCHANGED <<slots, qps>>
                        \/ \E sl : Move("R", m.plane, sl, qps["R"]) /\ GivesUp(old, sl)
                     /\ ReceiveAndSend("R", RecoveryResp(m.plane, m.gen, FALSE, NoQp))
                  \/ /\ \E sl : /\ Move("R", m.plane, sl, ConnectedQp("R", x, m.qp, m.gen))
                                /\ Begins(old, sl, x, m.gen) /\ sl.shadow.ready
                     /\ ReceiveAndSend("R", RecoveryResp(m.plane, m.gen, TRUE, x))
                     /\ table'["R"][m.plane].gen = m.gen
<1> DEFINE m == Head(net["R"])
           p == m.plane
           g == m.gen
           old == slots["R"][p]
           x == FreshQp("R")
           idle == IF old.shadow.qp # NoQp THEN AbortRecovery(old) ELSE old
           sl == ConnectShadow(EnsureShadow(idle, g, x), g)
           entry == ApplyRemoteEvent(table["R"][p], g, "Recovering")
<1>1. /\ "R" \in Sides /\ net["R"] # <<>> /\ m.type = "RecoveryReq" /\ m \in Messages
      /\ p \in Planes /\ g \in Nat /\ m.qp \in QpIds
      /\ x \in QpIds /\ x \notin NamedQps("R")
  BY StateTypes, SidesAndPlanes, MessageFields, FreshQpType DEF RecvRecoveryReq, Arrived
<1>2. old \in Slots(QpIds) /\ qps["R"] \in [QpIds -> QpRecords]
  BY <1>1, StateTypes
<1>3. idle \in Slots(QpIds) /\ GivesUp(old, idle)
  <2>1. AbortRecovery(old) \in Slots(QpIds) /\ GivesUp(old, AbortRecovery(old))
    BY <1>2, AbortRecoveryType, OperatorsLose DEF GivesUp
  <2>2. old.shadow.qp = NoQp => GivesUp(old, old)
    BY DEF GivesUp, Loses, Keeps
  <2> QED BY <1>2, <2>1, <2>2
<1>4. x \notin LiveQps(slots["R"])
  BY <1>1 DEF NamedQps
<1>5. qps["R"][x] = NullQp
  BY <1>1, <1>4 DEF SlotsSeparate
<1>6. [qps["R"] EXCEPT ![x] = PostTo([NullQp EXCEPT !.dest = m.qp], "R", ProbeRequest(g))]
         = ConnectedQp("R", x, m.qp, g)
  BY <1>1, <1>2, <1>5 DEF ConnectedQp
<1>7. ConnectedQp("R", x, m.qp, g) \in [QpIds -> QpRecords]
  BY <1>1, ConnectMoves
<1>8. sl \in Slots(QpIds) /\ Begins(old, sl, x, g) /\ sl.shadow.ready
  <2> DEFINE e == EnsureShadow(idle, g, x)
  <2> HIDE DEF idle, old, x, g
  <2>1. e \in Slots(QpIds) /\ Begins(idle, e, x, g)
    BY <1>1, <1>3, EnsureShadowType, OperatorsMove DEF GivesUp
  <2> HIDE DEF e
  <2>2. sl \in Slots(QpIds) /\ Connects(e, sl, g)
    BY <1>1, <2>1, SlotOperatorsType, OperatorsMove DEF e
  <2>3. idle.active = old.active /\ idle.retired = old.retired
    BY <1>2 DEF idle, AbortRecovery, ClearProbe, ResetProbe, Slots
  <2> HIDE DEF sl
  <2> QED BY <2>1, <2>2, <2>3 DEF Begins, Connects
<1>9. CASE /\ entry.gen # g \/ ~AllowsQpRecovery(entry)
           /\ ReceiveAndSend("R", RecoveryResp(p, g, FALSE, NoQp))
           /\ UNCHANGED <<slots, qps>>
  BY <1>1, <1>9, Zenon
<1>10. CASE /\ ReceiveAndSend("R", RecoveryResp(p, g, FALSE, NoQp))
            /\ Install("R", p, idle, qps["R"])
  <2>1. Move("R", p, idle, qps["R"])
    BY <1>2, <1>3, <1>10, Zenon DEF Move
  <2> HIDE DEF idle, old, x, g, p, m
  <2> QED BY <1>1, <1>3, <1>10, <2>1, Zenon DEF idle, old, x, g, p, m
<1>11. CASE /\ entry.gen = g
            /\ ReceiveAndSend("R", RecoveryResp(p, g, TRUE, x))
            /\ Install("R", p, sl, ConnectedQp("R", x, m.qp, g))
            /\ table' = [table EXCEPT !["R"][p] = entry]
  <2>1. Move("R", p, sl, ConnectedQp("R", x, m.qp, g))
    BY <1>7, <1>8, <1>11, Zenon DEF Move
  <2>2. table'["R"][p] = entry
    BY <1>1, <1>11 DEF TypeOK
  <2> HIDE DEF sl, entry
  <2> QED BY <1>1, <1>8, <1>11, <2>1, <2>2, Zenon
<1> QED BY <1>6, <1>9, <1>10, <1>11 DEF RecvRecoveryReq

LEMMA ReadyMoves ==
    ASSUME TypeOK, RecvRecoveryReady
    PROVE  LET m == Head(net["R"])
               slot == slots["R"][m.plane]
           IN  /\ net["R"] # <<>> /\ m.type = "RecoveryReady"
               /\ m.plane \in Planes /\ m.gen \in Nat
               /\ \/ /\ \/ UNCHANGED <<slots, qps>>
                        \/ \E sl : Move("R", m.plane, sl, qps["R"]) /\ GivesUp(slot, sl)
                     /\ ReceiveAndSend("R", RecoveryAck(m.plane, m.gen, FALSE))
                     /\ pc'["R"].ph \notin {"rprobe", "rmark"}
                  \/ /\ UNCHANGED <<slots, qps>> /\ Receive("R")
                     /\ pc'["R"] = [ph |-> "rprobe", plane |-> m.plane, gen |-> m.gen]
                     /\ table["R"][m.plane].gen = m.gen
                     /\ slot.shadow.qp # NoQp /\ slot.shadow.gen = m.gen /\ slot.probe.gen = m.gen
<1> DEFINE m == Head(net["R"])
           p == m.plane
           slot == slots["R"][p]
<1>1. /\ "R" \in Sides /\ net["R"] # <<>> /\ m.type = "RecoveryReady" /\ m \in Messages
      /\ p \in Planes /\ m.gen \in Nat
  BY StateTypes, SidesAndPlanes, MessageFields DEF RecvRecoveryReady, Arrived
<1>2. slot \in Slots(QpIds) /\ qps["R"] \in [QpIds -> QpRecords]
  BY <1>1, StateTypes
<1>3. ReceiverHandshake
  BY DEF ReceiverHandshake
<1>4. CASE ReceiveAndSend("R", RecoveryAck(p, m.gen, FALSE)) /\ AfterHandle("R") /\ MayHandle("R")
           /\ (UNCHANGED <<slots, qps>> \/ Install("R", p, AbortRecovery(slot), qps["R"]))
  <2>1. pc'["R"].ph \notin {"rprobe", "rmark"}
    BY <1>3, <1>4, ReceiverPosition
  <2>2. AbortRecovery(slot) \in Slots(QpIds) /\ GivesUp(slot, AbortRecovery(slot))
    BY <1>2, AbortRecoveryType, OperatorsLose DEF GivesUp
  <2>3. \/ UNCHANGED <<slots, qps>>
        \/ \E sl : Move("R", p, sl, qps["R"]) /\ GivesUp(slot, sl)
    BY <1>2, <1>4, <2>2 DEF Move
  <2> QED BY <1>1, <1>4, <2>1, <2>3
<1>5. CASE /\ Receive("R") /\ GotoOn("R", "rprobe", p, m.gen) /\ UNCHANGED <<slots, qps>>
           /\ table["R"][p].gen = m.gen /\ slot.shadow.gen = m.gen
           /\ slot.shadow.qp # NoQp /\ slot.probe.gen = m.gen
  <2>1. pc'["R"] = [ph |-> "rprobe", plane |-> p, gen |-> m.gen]
    BY <1>3, <1>5, ReceiverPosition
  <2> QED BY <1>1, <1>5, <2>1
<1> QED BY <1>4, <1>5 DEF RecvRecoveryReady

LEMMA ReceiverMoves ==
    ASSUME TypeOK, ReplacementsSound
    PROVE  LET p == pc["R"].plane
               g == pc["R"].gen
           IN  /\ CommitR =>
                     \E sl, q :
                        /\ Move("R", p, sl, q) /\ Commits(Probed, sl)
                        /\ \A i \in QpIds : q[i].dest = qps["R"][i].dest
                        /\ \/ Probed.probe.recvDone /\ q = qps["R"]
                           \/ ~Probed.probe.recvDone /\ q = Popped("R", Probed.shadow)
               /\ RProbeFailed => \E sl : Move("R", p, sl, qps["R"]) /\ GivesUp(Probed, sl)
<1> DEFINE p == pc["R"].plane
           g == pc["R"].gen
<1>1. /\ "R" \in Sides /\ p \in Planes /\ g \in Nat /\ Probed \in Slots(QpIds)
      /\ qps["R"] \in [QpIds -> QpRecords] /\ Probed = slots["R"][p]
  BY SidesAndPlanes, StateTypes DEF Probed
<1>2. ASSUME CommitR
      PROVE  \E sl, q :
                /\ Move("R", p, sl, q) /\ Commits(Probed, sl)
                /\ \A i \in QpIds : q[i].dest = qps["R"][i].dest
                /\ \/ Probed.probe.recvDone /\ q = qps["R"]
                   \/ ~Probed.probe.recvDone /\ q = Popped("R", Probed.shadow)
  <2> DEFINE polled == ~Probed.probe.recvDone
             seen == IF polled THEN RecordProbe(Probed, "recv", g, TRUE) ELSE Probed
             sl == DropUnusedRetired(CommitShadow(seen), p, req["R"])
             q == IF polled THEN Popped("R", Probed.shadow) ELSE qps["R"]
  <2>1. /\ seen \in Slots(QpIds) /\ seen.shadow = Probed.shadow /\ seen.active = Probed.active
        /\ seen.retired = Probed.retired
    <3>1. RecordProbe(Probed, "recv", g, TRUE) \in Slots(QpIds)
      BY <1>1, RecordProbeType, Zenon
    <3> QED BY <1>1, <3>1 DEF RecordProbe, Slots
  <2>2. Install("R", p, sl, q) /\ In("R", {"rprobe"})
    BY <1>2, Zenon DEF CommitR
  <2>3. seen.shadow.qp # NoQp /\ seen.shadow.qp \in QpIds
    BY <1>1, <2>1, <2>2, Zenon DEF ReplacementsSound, Slots, Endpoints
  <2>4. Probed.probe.recvDone => q \in [QpIds -> QpRecords] /\ \A i \in QpIds : q[i].dest = qps["R"][i].dest
    BY <1>1
  <2>5. ASSUME polled
        PROVE  q \in [QpIds -> QpRecords] /\ \A i \in QpIds : q[i].dest = qps["R"][i].dest
    <3>1. qps["R"][slots["R"][p].shadow.qp].cq # <<>>
      BY <1>1, <1>2, <2>5, Zenon DEF CommitR, ShadowCompletion, HasCompletion
    <3> QED BY <1>1, <2>5, <3>1, ShadowPoppedType
  <2>6. \/ Probed.probe.recvDone /\ q = qps["R"]
        \/ ~Probed.probe.recvDone /\ q = Popped("R", Probed.shadow)
    OBVIOUS
  <2> HIDE DEF seen, q
  <2>7. sl \in Slots(QpIds) /\ Commits(seen, sl)
    <3>1. CommitShadow(seen) \in Slots(QpIds)
      BY <1>1, <2>1, SlotOperatorsType
    <3>2. sl \in Slots(QpIds)
      BY <3>1, DropUnusedRetiredType
    <3> QED BY <1>1, <2>1, <2>3, <3>2, OperatorsMove
  <2> HIDE DEF sl
  <2>8. Commits(Probed, sl)
    BY <2>1, <2>7 DEF Commits
  <2> QED BY <2>2, <2>4, <2>5, <2>6, <2>7, <2>8 DEF Move
<1>3. ASSUME RProbeFailed
      PROVE  \E sl : Move("R", p, sl, qps["R"]) /\ GivesUp(Probed, sl)
  <2>1. Install("R", p, AbortRecovery(Probed), qps["R"])
    BY <1>3 DEF RProbeFailed
  <2>2. AbortRecovery(Probed) \in Slots(QpIds) /\ GivesUp(Probed, AbortRecovery(Probed))
    BY <1>1, AbortRecoveryType, OperatorsLose DEF GivesUp
  <2> QED BY <1>1, <2>1, <2>2 DEF Move
<1> HIDE DEF p, g
<1> QED BY <1>2, <1>3 DEF p, g

\* Readmission, at either end, at most takes the slot out of use again.
LEMMA MarkMoves ==
    ASSUME TypeOK, NEW s \in Sides, MarkRecovered(s)
    PROVE  /\ \A p \in Planes : Loses(slots[s][p], slots'[s][p])
           /\ \A t \in Sides, p \in Planes : slots'[t][p].probe = slots[t][p].probe
           /\ \A t \in Sides, p \in Planes : slots'[t][p].shadow = slots[t][p].shadow
           /\ \A t \in Sides : t # s => slots'[t] = slots[t]
           /\ \A p \in Planes : SlotQps(slots'[s][p]) = SlotQps(slots[s][p])
           /\ HealthyIfGenerationOK(table[s][pc[s].plane], pc[s].gen) => UNCHANGED slots
<1> DEFINE p == pc[s].plane
<1>1. /\ p \in Planes
      /\ UNCHANGED slots \/ slots' = [slots EXCEPT ![s][p] = Quarantine(@)]
      /\ HealthyIfGenerationOK(table[s][pc[s].plane], pc[s].gen) => UNCHANGED slots
  BY StateTypes DEF MarkRecovered
<1>2. \A o \in Planes : Loses(slots[s][o], slots[s][o]) /\ Loses(slots[s][o], Quarantine(slots[s][o]))
  <2>1. 0 \in Nat
    OBVIOUS
  <2> QED BY <2>1, StateTypes, OperatorsLose
<1>3. \A o \in Planes : LET q == Quarantine(slots[s][o])
                        IN  /\ q.probe = slots[s][o].probe /\ q.shadow = slots[s][o].shadow
                            /\ q.active = slots[s][o].active /\ q.retired = slots[s][o].retired
  BY StateTypes DEF Quarantine, Slots
<1>4. CASE UNCHANGED slots
  BY <1>1, <1>2, <1>4
<1>5. CASE slots' = [slots EXCEPT ![s][p] = Quarantine(@)]
  <2>1. /\ slots'[s][p] = Quarantine(slots[s][p])
        /\ \A o \in Planes : o # p => slots'[s][o] = slots[s][o]
        /\ \A t \in Sides : t # s => slots'[t] = slots[t]
    BY <1>1, <1>5 DEF TypeOK
  <2>2. \A o \in Planes : SlotQps(slots'[s][o]) = SlotQps(slots[s][o])
    BY <1>3, <2>1 DEF SlotQps
  <2>3. \A t \in Sides, o \in Planes :
            slots'[t][o].probe = slots[t][o].probe /\ slots'[t][o].shadow = slots[t][o].shadow
    BY <1>3, <2>1
  <2>4. \A o \in Planes : Loses(slots[s][o], slots'[s][o])
    BY <1>2, <2>1
  <2> QED BY <1>1, <2>1, <2>2, <2>3, <2>4
<1> QED BY <1>1, <1>4, <1>5

\* Every such step keeps the queue pairs of an end apart.
LEMMA MoveSeparate ==
    ASSUME TypeOK, SlotsSeparate, NEW s \in Sides, NEW p \in Planes, NEW sl, NEW q,
           Move(s, p, sl, q),
           \/ Loses(slots[s][p], sl)
           \/ \E g : Connects(slots[s][p], sl, g)
           \/ Commits(slots[s][p], sl)
           \/ \E x \in QpIds, g \in Nat : x \notin NamedQps(s) /\ Begins(slots[s][p], sl, x, g)
    PROVE  SlotsSeparate'
<1> DEFINE slot == slots[s][p]
<1>1. /\ sl \in Slots(QpIds) /\ q \in [QpIds -> QpRecords] /\ Install(s, p, sl, q)
      /\ slot \in Slots(QpIds) /\ SeparateSlot(slot)
  BY StateTypes DEF Move, SlotsSeparate
<1>2. QpsOf(slot) \subseteq LiveQps(slots[s])
  BY DEF LiveQps
<1>3. NoEndpoint.qp = NoQp
  BY DEF NoEndpoint
<1> HIDE DEF slot
<1>4. SeparateSlot(sl) /\ \A i \in QpsOf(sl) : i \in QpsOf(slot) \/ i \notin LiveQps(slots[s])
  <2>1. CASE Loses(slot, sl)
    BY <1>1, <2>1, LosesSeparate
  <2>2. CASE \E g : Connects(slot, sl, g)
    <3>1. SlotQps(sl) = SlotQps(slot) /\ sl.active = slot.active /\ sl.shadow.qp = slot.shadow.qp
      BY <2>2 DEF Connects, SlotQps
    <3>2. QpsOf(sl) = QpsOf(slot)
      BY <2>2 DEF Connects, QpsOf
    <3> QED BY <1>1, <3>1, <3>2 DEF SeparateSlot
  <2>3. CASE Commits(slot, sl)
    <3>1. QpsOf(sl) \subseteq QpsOf(slot)
      BY <1>3, <2>3 DEF Commits, QpsOf
    <3>2. SeparateSlot(sl)
      BY <1>3, <2>3 DEF Commits, SeparateSlot
    <3> QED BY <3>1, <3>2
  <2>4. CASE \E x \in QpIds, g \in Nat : x \notin NamedQps(s) /\ Begins(slot, sl, x, g)
    <3>1. PICK x \in QpIds : x \notin NamedQps(s) /\ \E g \in Nat : Begins(slot, sl, x, g)
      BY <2>4
    <3>2. /\ sl.active = slot.active /\ sl.retired = slot.retired /\ sl.shadow.qp = x
          /\ x \notin LiveQps(slots[s])
      BY <3>1 DEF Begins, NamedQps
    <3>3. x \notin QpsOf(slot) /\ x # NoQp
      BY <1>2, <3>2, SidesAndPlanes DEF slot
    <3>4. SlotQps(sl) = SlotQps(slot) /\ x \notin SlotQps(slot)
      BY <3>2, <3>3 DEF SlotQps, QpsOf
    <3>5. \A i \in QpsOf(sl) : i = x \/ i \in QpsOf(slot)
      BY <3>2 DEF QpsOf
    <3>6. SeparateSlot(sl)
      BY <1>1, <3>2, <3>4 DEF SeparateSlot
    <3> QED BY <3>2, <3>5, <3>6
  <2> QED BY <2>1, <2>2, <2>3, <2>4 DEF slot
<1> QED BY <1>1, <1>4, InstallSeparate DEF slot

LEMMA OrdinarySeparate ==
    ASSUME TypeOK, TypeOK', SlotsSeparate, OrdinarySlots
    PROVE  SlotsSeparate'
<1>1. \A s \in Sides, p \in Planes :
         /\ QpsOf(slots'[s][p]) \subseteq QpsOf(slots[s][p])
         /\ SeparateSlot(slots'[s][p])
  <2>1. ASSUME NEW s \in Sides, NEW p \in Planes
        PROVE  /\ QpsOf(slots'[s][p]) \subseteq QpsOf(slots[s][p])
               /\ SeparateSlot(slots'[s][p])
    <3>1. slots[s][p] \in Slots(QpIds) /\ slots'[s][p] \in Slots(QpIds)
      BY DEF TypeOK
    <3>2. Loses(slots[s][p], slots'[s][p]) /\ SeparateSlot(slots[s][p])
      BY DEF OrdinarySlots, SlotsSeparate
    <3> QED BY <3>1, <3>2, LosesSeparate
  <2> QED BY <2>1
<1>2. \A s \in Sides : \A p, o \in Planes : p # o => QpsOf(slots[s][p]) \cap QpsOf(slots[s][o]) = {}
  BY DEF SlotsSeparate
<1>3. \A s \in Sides : \A p, o \in Planes : p # o => QpsOf(slots'[s][p]) \cap QpsOf(slots'[s][o]) = {}
  BY <1>1, <1>2
<1> QED BY <1>1, <1>3 DEF SlotsSeparate, OrdinarySlots

LEMMA MarkSeparate ==
    ASSUME TypeOK, TypeOK', SlotsSeparate, NEW s \in Sides, MarkRecovered(s), UNCHANGED qps
    PROVE  OrdinarySlots
<1>1. \A t \in Sides, p \in Planes : Loses(slots[t][p], slots'[t][p])
  BY MarkMoves DEF Loses, Keeps
<1>2. \A t \in Sides, p \in Planes : QpsOf(slots[t][p]) = QpsOf(slots'[t][p])
  <2>1. \A t \in Sides, p \in Planes :
            SlotQps(slots'[t][p]) = SlotQps(slots[t][p]) /\ slots'[t][p].shadow = slots[t][p].shadow
    BY MarkMoves
  <2>2. \A slot : QpsOf(slot) = (SlotQps(slot) \cup {slot.shadow.qp}) \ {NoQp}
    BY DEF QpsOf, SlotQps
  <2> QED BY <2>1, <2>2
<1>3. \A t \in Sides : LiveQps(slots[t]) = LiveQps(slots'[t])
  BY <1>2 DEF LiveQps
<1> QED BY <1>1, <1>3 DEF OrdinarySlots, SlotsSeparate

LEMMA SenderSeparate ==
    ASSUME TypeOK, TypeOK', SlotsSeparate, SenderHandshake
    PROVE  SlotsSeparate'
<1> DEFINE p == pc["S"].plane
<1>1. "S" \in Sides /\ p \in Planes /\ Current = slots["S"][p] /\ Current \in Slots(QpIds)
  BY SidesAndPlanes, StateTypes DEF Current
<1>2. ASSUME NEW o \in Planes, RecoverStart(o)
      PROVE  SlotsSeparate'
  <2>1. PICK sl : /\ Move("S", o, sl, qps["S"])
                  /\ \/ sl = slots["S"][o]
                     \/ Begins(slots["S"][o], sl, FreshQp("S"), table["S"][o].gen)
    BY <1>2, SenderMoves
  <2>2. /\ FreshQp("S") \in QpIds /\ FreshQp("S") \notin NamedQps("S")
        /\ table["S"][o].gen \in Nat
    BY <1>1, <1>2, StateTypes, FreshQpType DEF RecoverStart, PlaneEntry
  <2>3. Loses(slots["S"][o], slots["S"][o])
    BY DEF Loses, Keeps
  <2> QED BY <1>1, <2>1, <2>2, <2>3, MoveSeparate
<1>3. CASE SenderGivesUp
  BY <1>1, <1>3, MoveSeparate DEF SenderGivesUp, GivesUp
<1>4. CASE RecoverConnect
  BY <1>1, <1>4, SenderMoves, MoveSeparate
<1>5. CASE ProbeOk
  <2>1. Loses(Current, RecordProbe(Current, "send", pc["S"].gen, TRUE))
    BY <1>1, StateTypes, OperatorsLose
  <2> QED BY <1>1, <1>5, <2>1, SenderMoves, MoveSeparate
<1>6. CASE RecvAck
  BY <1>1, <1>3, <1>6, SenderMoves, MoveSeparate
<1>7. CASE MarkHealthyS
  BY <1>1, <1>7, MarkSeparate, OrdinarySeparate DEF MarkHealthyS
<1>8. CASE HandshakeTimeout
  BY <1>8 DEF HandshakeTimeout, SlotsSeparate
<1> QED BY <1>2, <1>3, <1>4, <1>5, <1>6, <1>7, <1>8, SenderMoves DEF SenderHandshake

LEMMA ReceiverSeparate ==
    ASSUME TypeOK, TypeOK', SlotsSeparate, ReplacementsSound, ReceiverHandshake
    PROVE  SlotsSeparate'
<1> DEFINE p == pc["R"].plane
<1>1. "R" \in Sides /\ p \in Planes /\ Probed = slots["R"][p]
  BY SidesAndPlanes, StateTypes DEF Probed
<1>2. CASE UNCHANGED <<slots, qps>>
  BY <1>2 DEF SlotsSeparate
<1>3. ASSUME NEW o \in Planes, NEW sl, GivesUp(slots["R"][o], sl), Move("R", o, sl, qps["R"])
      PROVE  SlotsSeparate'
  BY <1>1, <1>3, MoveSeparate DEF GivesUp
<1>4. ASSUME NEW ready \in BOOLEAN, RecvRecoveryReq(ready)
      PROVE  SlotsSeparate'
  <2> DEFINE m == Head(net["R"])
             x == FreshQp("R")
  <2>1. /\ m.plane \in Planes /\ m.gen \in Nat /\ x \in QpIds /\ x \notin NamedQps("R")
        /\ \/ UNCHANGED <<slots, qps>>
           \/ \E sl : Move("R", m.plane, sl, qps["R"]) /\ GivesUp(slots["R"][m.plane], sl)
           \/ \E sl : /\ Move("R", m.plane, sl, ConnectedQp("R", x, m.qp, m.gen))
                      /\ Begins(slots["R"][m.plane], sl, x, m.gen)
    BY <1>4, RequestMoves
  <2> HIDE DEF m, x
  <2> QED BY <1>1, <1>2, <1>3, <2>1, MoveSeparate DEF x
<1>5. CASE RecvRecoveryReady
  BY <1>2, <1>3, <1>5, ReadyMoves
<1>6. CASE CommitR
  BY <1>1, <1>6, ReceiverMoves, MoveSeparate
<1>7. CASE RProbeFailed
  BY <1>1, <1>3, <1>7, ReceiverMoves
<1>8. CASE MarkHealthyR
  BY <1>1, <1>8, MarkSeparate, OrdinarySeparate DEF MarkHealthyR
<1> QED BY <1>4, <1>5, <1>6, <1>7, <1>8 DEF ReceiverHandshake

-----------------------------------------------------------------------------
\* What a step of one end leaves of the handshake's messages, and of the other
\* end.
LEMMA SenderLeaves ==
    ASSUME TypeOK, OneToken, TablesKnown, SenderHandshake
    PROVE  /\ pc'["R"] = pc["R"]
           /\ \/ HandshakeTimeout
              \/ /\ pc["R"].ph \notin {"rprobe", "rmark"}
                 /\ \A t \in Sides : \A i \in 1 .. Len(net'[t]) :
                       net'[t][i].type \in HandshakeTypes =>
                          /\ t = "R"
                          /\ \/ net'[t][i].type = "RecoveryReq" /\ pc'["S"].ph = "resp"
                             \/ ProbeOk /\ net'[t][i] = RecoveryReady(pc["S"].plane, pc["S"].gen)
<1>0. "S" \in Sides /\ Peer("S") = "R" /\ pc["S"].plane \in Planes /\ pc["S"].gen \in Nat
      /\ pc'["R"] = pc["R"] /\ Query(0) \in Messages
  BY SidesAndPlanes, StateTypes, SenderPosition, QueryTypes DEF Peer
<1>1. ASSUME NEW p \in Planes, RecoverStart(p)
      PROVE  /\ pc["R"].ph \notin {"rprobe", "rmark"}
             /\ \A t \in Sides : \A i \in 1 .. Len(net'[t]) :
                   net'[t][i].type \in HandshakeTypes =>
                      t = "R" /\ net'[t][i].type = "RecoveryReq" /\ pc'["S"].ph = "resp"
  <2>1. PICK sl : /\ sl \in Slots(QpIds) /\ sl.shadow.qp # NoQp
                  /\ Send("S", RecoveryReq(p, table["S"][p].gen, sl.shadow.qp))
    <3>1. FreshQp("S") \in QpIds
      BY <1>0, <1>1, FreshQpType DEF RecoverStart
    <3> QED BY <1>0, <1>1, <3>1, SenderMoves, SidesAndPlanes DEF Move, Begins
  <2> DEFINE m == RecoveryReq(p, table["S"][p].gen, sl.shadow.qp)
  <2>2. m \in Messages /\ m.type = "RecoveryReq"
    <3>1. table["S"][p].gen \in Nat /\ sl.shadow.qp \in QpIds
      BY <1>0, <2>1, StateTypes DEF PlaneEntry, Slots, Endpoints
    <3>2. m.type = "RecoveryReq"
      BY DEF RecoveryReq
    <3> QED BY <3>1, <3>2, MessageTypes
  <2> HIDE DEF m
  <2>3. NoTokens /\ pc["R"].ph \notin {"rprobe", "rmark"}
    <3>1. pc["S"].ph \notin {"resp", "ack", "failed"}
      BY <1>1 DEF RecoverStart, MayRecover, BeforeReplay, In
    <3> QED BY <1>0, <3>1, TokenFacts
  <2>4. pc'["S"].ph = "resp"
    <3>1. pc'["S"] = [ph |-> "resp", plane |-> p, gen |-> table["S"][p].gen]
      BY <1>1, SenderPosition DEF RecoverStart, SenderHandshake
    <3> QED BY <3>1
  <2>5. Send("S", m)
    BY <2>1 DEF m
  <2> QED BY <1>0, <2>2, <2>3, <2>4, <2>5, OnlyNewToken
<1>2. CASE RecoverRefused \/ RecoverConnect \/ RecvAck
  <2>1. TokenFirst("S") /\ Receive("S")
    BY <1>2, AnswerFirst
  <2>2. pc["R"].ph \notin {"rprobe", "rmark"}
    BY <1>0, <2>1, TokenFacts
  <2>3. NoTokens'
    BY <1>0, <2>1, NoNewToken
  <2> QED BY <1>0, <2>2, <2>3 DEF NoTokens
<1>3. CASE ProbeOk
  <2> DEFINE m == RecoveryReady(pc["S"].plane, pc["S"].gen)
  <2>1. NoTokens /\ pc["R"].ph \notin {"rprobe", "rmark"}
    BY <1>0, <1>3, TokenFacts DEF ProbeOk, In
  <2>2. Send("S", m) /\ m \in Messages
    BY <1>0, <1>3, MessageTypes DEF ProbeOk
  <2> HIDE DEF m
  <2>3. \A t \in Sides : \A i \in 1 .. Len(net'[t]) :
           net'[t][i].type \in HandshakeTypes => t = "R" /\ net'[t][i] = m
    BY <1>0, <2>1, <2>2, OnlyNewToken
  <2> QED BY <1>0, <1>3, <2>1, <2>3 DEF m
<1>4. CASE ProbeFailed \/ MarkHealthyS
  <2>1. NoTokens /\ pc["R"].ph \notin {"rprobe", "rmark"} /\ UNCHANGED net
    BY <1>0, <1>4, TokenFacts DEF ProbeFailed, MarkHealthyS, In
  <2> QED BY <1>0, <2>1 DEF NoTokens
<1>5. \/ \E p \in Planes : RecoverStart(p)
      \/ RecoverRefused \/ RecoverConnect \/ RecvAck
      \/ ProbeOk
      \/ ProbeFailed \/ MarkHealthyS
      \/ HandshakeTimeout
  BY DEF SenderHandshake
<1> QED BY <1>0, <1>1, <1>2, <1>3, <1>4, <1>5

\* The receiver answers with one message at the end of the sender's socket.
LEMMA ReceiverLeaves ==
    ASSUME TypeOK, OneToken, TablesKnown, SlotsSeparate, ReceiverHandshake
    PROVE  /\ pc'["S"] = pc["S"] /\ slots'["S"] = slots["S"]
           /\ \A t \in Sides : \A i \in 1 .. Len(net'[t]) :
                 net'[t][i].type \in HandshakeTypes => t = "S" /\ i = Len(net'[t])
           /\ pc'["R"].ph \in {"rprobe", "rmark"} =>
                 \/ RecvRecoveryReady \/ CommitR
<1>0. "R" \in Sides /\ Peer("R") = "S" /\ pc'["S"] = pc["S"]
      /\ pc["R"].plane \in Planes /\ pc["R"].gen \in Nat
  BY SidesAndPlanes, StateTypes, ReceiverPosition DEF Peer
<1>1. slots'["S"] = slots["S"]
  <2>1. \A p, sl, q : Move("R", p, sl, q) => slots'["S"] = slots["S"]
    BY StateTypes, SidesAndPlanes DEF Move, Install, TypeOK
  <2>2. ASSUME NEW ready \in BOOLEAN, RecvRecoveryReq(ready)
        PROVE  slots'["S"] = slots["S"]
    BY <2>1, <2>2, RequestMoves
  <2>3. RecvRecoveryReady => slots'["S"] = slots["S"]
    BY <2>1, ReadyMoves
  <2>4. CommitR => slots'["S"] = slots["S"]
    BY DEF CommitR, Install, TypeOK
  <2>5. RProbeFailed => slots'["S"] = slots["S"]
    BY DEF RProbeFailed, Install, TypeOK
  <2>6. MarkHealthyR => slots'["S"] = slots["S"]
    BY DEF MarkHealthyR, MarkRecovered, TypeOK
  <2> QED BY <2>2, <2>3, <2>4, <2>5, <2>6 DEF ReceiverHandshake
<1>2. ASSUME NEW m \in Messages,
             (TokenFirst("R") /\ ReceiveAndSend("R", m)) \/ (NoTokens /\ Send("R", m))
      PROVE  \A t \in Sides : \A i \in 1 .. Len(net'[t]) :
                net'[t][i].type \in HandshakeTypes => t = "S" /\ i = Len(net'[t])
  BY <1>0, <1>2, OnlyNewToken
<1>3. ASSUME (TokenFirst("R") /\ Receive("R")) \/ (NoTokens /\ UNCHANGED net)
      PROVE  \A t \in Sides : \A i \in 1 .. Len(net'[t]) : net'[t][i].type \notin HandshakeTypes
  BY <1>0, <1>3, NoNewToken DEF NoTokens
<1>5. Goto("R", "control") => pc'["R"].ph = "control"
  BY <1>0, ReceiverPosition DEF At
<1>6. ASSUME NEW ready \in BOOLEAN, RecvRecoveryReq(ready)
      PROVE  /\ \A t \in Sides : \A i \in 1 .. Len(net'[t]) :
                  net'[t][i].type \in HandshakeTypes => t = "S" /\ i = Len(net'[t])
             /\ pc'["R"].ph \notin {"rprobe", "rmark"}
  <2>1. PICK m \in Messages : ReceiveAndSend("R", m)
    <3>1. LET m == Head(net["R"])
              x == FreshQp("R")
          IN  /\ m.plane \in Planes /\ m.gen \in Nat /\ x \in QpIds
              /\ \/ ReceiveAndSend("R", RecoveryResp(m.plane, m.gen, FALSE, NoQp))
                 \/ ReceiveAndSend("R", RecoveryResp(m.plane, m.gen, TRUE, x))
      BY <1>6, RequestMoves
    <3> QED BY <3>1, MessageTypes
  <2>2. TokenFirst("R")
    BY <1>6, RequestMoves DEF TokenFirst, HandshakeTypes
  <2>3. pc'["R"].ph \notin {"rprobe", "rmark"}
    BY <1>6, ReceiverPosition DEF RecvRecoveryReq
  <2> QED BY <1>2, <2>1, <2>2, <2>3
<1>7. CASE RecvRecoveryReady
  <2>1. \/ Receive("R")
        \/ ReceiveAndSend("R", RecoveryAck(Head(net["R"]).plane, Head(net["R"]).gen, FALSE))
    BY <1>7, ReadyMoves
  <2>2. TokenFirst("R")
    BY <1>7, ReadyMoves DEF TokenFirst, HandshakeTypes
  <2>3. RecoveryAck(Head(net["R"]).plane, Head(net["R"]).gen, FALSE) \in Messages
    BY <1>7, ReadyMoves, MessageTypes
  <2> QED BY <1>0, <1>1, <1>2, <1>3, <1>7, <2>1, <2>2, <2>3
<1>8. CASE CommitR
  <2>1. NoTokens /\ UNCHANGED net
    BY <1>8, TokenFacts DEF CommitR, In
  <2> QED BY <1>0, <1>1, <1>3, <1>8, <2>1
<1>9. CASE RProbeFailed \/ MarkHealthyR
  <2>1. NoTokens
    BY <1>9, TokenFacts DEF RProbeFailed, MarkHealthyR, In
  <2>2. PICK ok \in BOOLEAN : Send("R", RecoveryAck(pc["R"].plane, pc["R"].gen, ok))
    BY <1>9 DEF RProbeFailed, MarkHealthyR, HealthyIfGenerationOK
  <2>3. RecoveryAck(pc["R"].plane, pc["R"].gen, ok) \in Messages
    BY <1>0, MessageTypes
  <2>4. pc'["R"].ph = "control"
    BY <1>5, <1>9 DEF RProbeFailed, MarkHealthyR
  <2> QED BY <1>0, <1>1, <1>2, <2>1, <2>2, <2>3, <2>4
<1> QED BY <1>0, <1>1, <1>6, <1>7, <1>8, <1>9 DEF ReceiverHandshake

-----------------------------------------------------------------------------
\* The sender has a shadow only while it recovers the plane, and nobody recovers
\* a plane on which it is Active.
ShadowInRecovery ==
    \A p \in Planes : slots["S"][p].shadow.qp # NoQp =>
        \/ pc["S"].ph = "failed"
        \/ pc["S"].ph \in {"resp", "probe", "ack"} /\ pc["S"].plane = p

SenderInactive ==
    /\ pc["S"].ph \in {"resp", "probe", "ack"} => Current.state # "Active"
    /\ pc["R"].ph \in {"rprobe", "rmark"} => slots["S"][pc["R"].plane].state # "Active"
    /\ \A i \in 1 .. Len(net["R"]) : net["R"][i].type = "RecoveryReady" =>
          slots["S"][net["R"][i].plane].state # "Active"

\* A move changes one slot of one end.
LEMMA MoveSlot ==
    ASSUME TypeOK, NEW s \in Sides, NEW p \in Planes, NEW sl, NEW q, Move(s, p, sl, q)
    PROVE  /\ slots'[s][p] = sl
           /\ \A o \in Planes : o # p => slots'[s][o] = slots[s][o]
           /\ \A t \in Sides : t # s => slots'[t] = slots[t] /\ qps'[t] = qps[t]
           /\ \A i \in QpIds : qps'[s][i] = IF i \in LiveQps(slots'[s]) THEN q[i] ELSE NullQp
<1>1. slots \in [Sides -> [Planes -> Slots(QpIds)]] /\ qps \in [Sides -> [QpIds -> QpRecords]]
  BY DEF TypeOK
<1> QED BY <1>1 DEF Move, Install

LEMMA OrdinaryInactive ==
    ASSUME TypeOK, TypeOK', ShadowInRecovery, SenderInactive, OrdinaryStep
    PROVE  ShadowInRecovery' /\ SenderInactive'
<1>1. /\ "S" \in Sides /\ "R" \in Sides
      /\ pc'["S"] = pc["S"] \/ (pc["S"].ph \notin HandshakePhases /\ pc'["S"].ph \notin HandshakePhases)
      /\ pc'["R"] = pc["R"] \/ pc'["R"].ph \notin {"rprobe", "rmark"}
  BY SidesAndPlanes DEF OrdinaryStep, OrdinaryPositions, HandshakePhases
<1>2. \A p \in Planes : Keeps(slots["S"][p], slots'["S"][p])
  BY <1>1 DEF OrdinaryStep, OrdinarySlots, Loses
<1>3. ShadowInRecovery'
  BY <1>1, <1>2 DEF ShadowInRecovery, Keeps, HandshakePhases
<1>4. \A p \in Planes : slots["S"][p].state # "Active" => slots'["S"][p].state # "Active"
  BY <1>2 DEF Keeps
<1>5. pc'["S"].ph \in {"resp", "probe", "ack"} => slots'["S"][pc'["S"].plane].state # "Active"
  BY <1>1, <1>4, StateTypes DEF SenderInactive, HandshakePhases, Current
<1>6. pc'["R"].ph \in {"rprobe", "rmark"} => slots'["S"][pc'["R"].plane].state # "Active"
  BY <1>1, <1>4, StateTypes DEF SenderInactive
<1>7. ASSUME NEW i \in 1 .. Len(net'["R"]), net'["R"][i].type = "RecoveryReady"
      PROVE  slots'["S"][net'["R"][i].plane].state # "Active"
  <2>1. PICK k \in [Sides -> 0 .. 1] : \A t \in Sides : \A j \in 1 .. Len(net'[t]) :
            Remains(k, t, j) \/ (IsNew(k, t, j) /\ OrdinaryMessage(t, net'[t][j]))
    BY DEF OrdinaryStep, OrdinaryNet
  <2>2. i + k["R"] \in 1 .. Len(net["R"]) /\ net'["R"][i] = net["R"][i + k["R"]]
    BY <1>1, <1>7, <2>1 DEF Remains, OrdinaryMessage, HandshakeTypes
  <2>3. net["R"][i + k["R"]] \in Messages
    BY <1>1, <2>2 DEF TypeOK
  <2>4. net["R"][i + k["R"]].plane \in Planes
    BY <1>7, <2>2, <2>3, MessageFields
  <2> QED BY <1>4, <1>7, <2>2, <2>4 DEF SenderInactive
<1> QED BY <1>3, <1>5, <1>6, <1>7 DEF SenderInactive, Current

LEMMA SenderKeepsInactive ==
    ASSUME TypeOK, TypeOK', OneToken, TablesKnown, SlotsSeparate, ShadowInRecovery,
           SenderInactive, SenderHandshake
    PROVE  ShadowInRecovery' /\ SenderInactive'
<1> DEFINE p == pc["S"].plane
           g == pc["S"].gen
<1>1. "S" \in Sides /\ p \in Planes /\ g \in Nat /\ Current = slots["S"][p]
      /\ Current \in Slots(QpIds) /\ Current' = slots'["S"][pc'["S"].plane]
  BY SidesAndPlanes, StateTypes DEF Current
<1>2. \A ph, o, n : GotoOn("S", ph, o, n) => pc'["S"] = [ph |-> ph, plane |-> o, gen |-> n]
  BY <1>1 DEF GotoOn, TypeOK
<1>12. pc'["S"].ph \notin {"failed", "ack"} => ~HandshakeTimeout /\ ~ProbeOk
  <2>1. Goto("S", "failed") => pc'["S"].ph = "failed"
    BY <1>1 DEF Goto, At, TypeOK
  <2>2. GotoOn("S", "ack", p, g) => pc'["S"].ph = "ack"
    BY <1>1 DEF GotoOn, TypeOK
  <2> QED BY <2>1, <2>2 DEF HandshakeTimeout, ProbeOk
<1> DEFINE InRecovery(ph) == ph \in {"resp", "probe", "ack"}
<1>3. ASSUME ~HandshakeTimeout, ~ProbeOk,
             \A o \in Planes : /\ slots'["S"][o].shadow.qp # NoQp =>
                                     InRecovery(pc'["S"].ph) /\ pc'["S"].plane = o,
             InRecovery(pc'["S"].ph) => slots'["S"][pc'["S"].plane].state # "Active"
      PROVE  ShadowInRecovery' /\ SenderInactive'
  <2>1. /\ pc'["R"].ph \notin {"rprobe", "rmark"}
        /\ \A i \in 1 .. Len(net'["R"]) : net'["R"][i].type # "RecoveryReady"
    BY <1>3, SenderLeaves, SidesAndPlanes DEF HandshakeTypes
  <2> QED BY <1>1, <1>3, <2>1 DEF ShadowInRecovery, SenderInactive
<1>4. ASSUME NEW o \in Planes, RecoverStart(o)
      PROVE  ShadowInRecovery' /\ SenderInactive'
  <2>1. pc["S"].ph \notin {"resp", "probe", "ack", "failed"}
    BY <1>4 DEF RecoverStart, MayRecover, BeforeReplay, In
  <2>2. \A n \in Planes : slots["S"][n].shadow.qp = NoQp
    BY <2>1 DEF ShadowInRecovery
  <2>3. PICK sl : Move("S", o, sl, qps["S"]) /\ sl.state # "Active"
    BY <1>4, <2>2, SenderMoves DEF Begins
  <2>4. pc'["S"] = [ph |-> "resp", plane |-> o, gen |-> table["S"][o].gen]
    BY <1>2, <1>4 DEF RecoverStart
  <2>5. ~HandshakeTimeout /\ ~ProbeOk
    BY <2>1 DEF HandshakeTimeout, ProbeOk, In
  <2>6. /\ slots'["S"][o] = sl
        /\ \A n \in Planes : n # o => slots'["S"][n] = slots["S"][n]
    BY <1>1, <2>3, MoveSlot
  <2> QED BY <1>3, <2>2, <2>3, <2>4, <2>5, <2>6
<1>5. ASSUME SenderGivesUp, ~HandshakeTimeout, ~ProbeOk, pc["S"].ph # "failed",
             pc'["S"].ph = "recovered"
      PROVE  ShadowInRecovery' /\ SenderInactive'
  <2>1. PICK sl : Move("S", p, sl, qps["S"]) /\ GivesUp(Current, sl)
    BY <1>5 DEF SenderGivesUp
  <2>2. /\ slots'["S"][p] = sl
        /\ \A n \in Planes : n # p => slots'["S"][n] = slots["S"][n]
    BY <1>1, <2>1, MoveSlot
  <2>3. \A n \in Planes : slots'["S"][n].shadow.qp = NoQp
    BY <1>5, <2>1, <2>2 DEF GivesUp, ShadowInRecovery
  <2> QED BY <1>3, <1>5, <2>3
<1>6. CASE RecoverRefused \/ ProbeFailed
  <2>1. pc'["S"].ph = "recovered"
    <3>1. GotoOn("S", "recovered", p, 0)
      BY <1>6 DEF RecoverRefused, ProbeFailed, RecoverGiveUp
    <3> QED BY <1>1, <3>1 DEF GotoOn, TypeOK
  <2>2. SenderGivesUp /\ ~HandshakeTimeout /\ ~ProbeOk
    BY <1>6, <1>12, <2>1, SenderMoves
  <2>3. pc["S"].ph # "failed"
    BY <1>6, AnswerFirst DEF ProbeFailed, In
  <2> QED BY <1>5, <2>2, <2>1, <2>3
<1>7. CASE RecoverConnect
  <2>1. PICK sl, q : Move("S", p, sl, q) /\ Connects(Current, sl, g)
    BY <1>7, SenderMoves
  <2>2. /\ slots'["S"][p] = sl
        /\ \A n \in Planes : n # p => slots'["S"][n] = slots["S"][n]
    BY <1>1, <2>1, MoveSlot
  <2>3. pc["S"].ph = "resp" /\ Head(net["S"]).plane = p
    BY <1>7, AnswerFirst
  <2>4. pc'["S"] = [ph |-> "probe", plane |-> p, gen |-> Head(net["S"]).gen]
    BY <1>2, <1>7, <2>3 DEF RecoverConnect
  <2>5. ~HandshakeTimeout /\ ~ProbeOk
    BY <1>12, <2>4
  <2>6. \A n \in Planes : n # p => slots["S"][n].shadow.qp = NoQp
    BY <2>3 DEF ShadowInRecovery
  <2> QED BY <1>3, <2>1, <2>2, <2>4, <2>5, <2>6 DEF Connects
<1>8. CASE ProbeOk
  <2> DEFINE sl == RecordProbe(Current, "send", pc["S"].gen, TRUE)
  <2>1. Move("S", p, sl, Popped("S", Current.shadow))
    BY <1>8, SenderMoves
  <2>2. Loses(Current, sl)
    BY <1>1, OperatorsLose
  <2> HIDE DEF sl
  <2>3. /\ slots'["S"][p] = sl
        /\ \A n \in Planes : n # p => slots'["S"][n] = slots["S"][n]
    BY <1>1, <2>1, MoveSlot
  <2>4. pc'["S"] = [ph |-> "ack", plane |-> p, gen |-> g] /\ pc["S"].ph = "probe"
    BY <1>2, <1>8 DEF ProbeOk, In
  <2>5. \A n \in Planes : slots["S"][n].state # "Active" => slots'["S"][n].state # "Active"
    BY <1>1, <2>2, <2>3 DEF Loses, Keeps
  <2>6. slots'["S"][p].state # "Active"
    BY <1>1, <2>4, <2>5 DEF SenderInactive
  <2>7. \A n \in Planes : n # p => slots'["S"][n].shadow.qp = NoQp
    BY <2>3, <2>4 DEF ShadowInRecovery
  <2>8. ~HandshakeTimeout
    BY <2>4 DEF HandshakeTimeout, In
  <2>9. /\ pc'["R"].ph \notin {"rprobe", "rmark"}
        /\ \A i \in 1 .. Len(net'["R"]) : net'["R"][i].type = "RecoveryReady" =>
              net'["R"][i].plane = p
    <3>1. /\ pc'["R"].ph \notin {"rprobe", "rmark"}
          /\ \A i \in 1 .. Len(net'["R"]) : net'["R"][i].type = "RecoveryReady" =>
                net'["R"][i] = RecoveryReady(p, g)
      BY <2>4, <2>8, SenderLeaves, SidesAndPlanes DEF HandshakeTypes
    <3> QED BY <3>1 DEF RecoveryReady
  <2>10. ShadowInRecovery'
    BY <2>4, <2>7 DEF ShadowInRecovery
  <2> QED BY <1>1, <2>4, <2>6, <2>9, <2>10 DEF SenderInactive
<1>9. CASE RecvAck
  <2>1. pc'["S"].ph \in {"recovered", "mark"}
    BY <1>9, SenderMoves DEF SenderGivesUp
  <2>2. ~HandshakeTimeout /\ ~ProbeOk
    BY <1>12, <2>1
  <2>3. pc["S"].ph = "ack"
    BY <1>9, AnswerFirst
  <2>4. CASE SenderGivesUp /\ pc'["S"].ph = "recovered"
    BY <1>5, <2>2, <2>3, <2>4
  <2>5. CASE pc'["S"].ph = "mark" /\ \E sl : Move("S", p, sl, qps["S"]) /\ Commits(Current, sl)
    <3>1. PICK sl : Move("S", p, sl, qps["S"]) /\ Commits(Current, sl)
      BY <2>5
    <3>2. /\ slots'["S"][p] = sl
          /\ \A n \in Planes : n # p => slots'["S"][n] = slots["S"][n]
      BY <1>1, <3>1, MoveSlot
    <3>3. \A n \in Planes : slots'["S"][n].shadow.qp = NoQp
      BY <2>3, <3>1, <3>2 DEF Commits, NoEndpoint, ShadowInRecovery
    <3> QED BY <1>3, <2>2, <2>5, <3>3
  <2> QED BY <1>9, <2>4, <2>5, SenderMoves
<1>10. CASE MarkHealthyS
  <2>1. pc["S"].ph = "mark" /\ pc'["S"].ph = "recovered" /\ MarkRecovered("S")
    BY <1>1, <1>10 DEF MarkHealthyS, GotoOn, In, TypeOK
  <2>2. \A n \in Planes : slots'["S"][n].shadow.qp = NoQp
    BY <1>1, <2>1, MarkMoves DEF ShadowInRecovery
  <2>3. ~HandshakeTimeout /\ ~ProbeOk
    BY <2>1 DEF HandshakeTimeout, ProbeOk, In
  <2> QED BY <1>3, <2>1, <2>2, <2>3
<1>11. CASE HandshakeTimeout
  <2>1. UNCHANGED <<slots, net>> /\ pc'["S"].ph = "failed" /\ pc'["R"] = pc["R"]
    BY <1>1, <1>11, SenderPosition DEF HandshakeTimeout, Goto, At, TypeOK
  <2> QED BY <2>1 DEF ShadowInRecovery, SenderInactive
<1> QED BY <1>4, <1>6, <1>7, <1>8, <1>9, <1>10, <1>11 DEF SenderHandshake

LEMMA ReceiverKeepsInactive ==
    ASSUME TypeOK, TypeOK', OneToken, TablesKnown, TablesKnown', SlotsSeparate, ShadowInRecovery,
           SenderInactive, ReceiverHandshake
    PROVE  ShadowInRecovery' /\ SenderInactive'
<1>1. "S" \in Sides /\ "R" \in Sides /\ pc'["S"] = pc["S"] /\ slots'["S"] = slots["S"]
  BY ReceiverLeaves, SidesAndPlanes
<1>2. \A i \in 1 .. Len(net'["R"]) : net'["R"][i].type # "RecoveryReady"
  BY <1>1, ReceiverLeaves DEF HandshakeTypes
<1>3. ASSUME pc'["R"].ph \in {"rprobe", "rmark"}
      PROVE  slots["S"][pc'["R"].plane].state # "Active"
  <2>1. CASE RecvRecoveryReady
    <3>1. /\ net["R"] # <<>> /\ Head(net["R"]).type = "RecoveryReady"
          /\ pc'["R"].plane = Head(net["R"]).plane
      <4> DEFINE m == Head(net["R"])
      <4>1. /\ net["R"] # <<>> /\ m.type = "RecoveryReady"
            /\ \/ pc'["R"].ph \notin {"rprobe", "rmark"}
               \/ pc'["R"] = [ph |-> "rprobe", plane |-> m.plane, gen |-> m.gen]
        BY <2>1, ReadyMoves
      <4> QED BY <1>3, <4>1
    <3>2. 1 \in 1 .. Len(net["R"]) /\ Head(net["R"]) = net["R"][1]
      BY <1>1, <3>1 DEF TypeOK
    <3> QED BY <3>1, <3>2 DEF SenderInactive
  <2>2. CASE CommitR
    <3>1. pc["R"].ph = "rprobe"
      BY <2>2 DEF CommitR, In
    <3>2. pc'["R"].plane = pc["R"].plane
      BY <1>1, <2>2 DEF CommitR, GotoOn, TypeOK
    <3> QED BY <3>1, <3>2 DEF SenderInactive
  <2> QED BY <1>3, <2>1, <2>2, ReceiverLeaves
<1> QED BY <1>1, <1>2, <1>3 DEF ShadowInRecovery, SenderInactive, Current

-----------------------------------------------------------------------------
\* The slot has what the sender needs at this point of the recovery at.
Held(slot, at) ==
    /\ slot.shadow.qp # NoQp /\ slot.shadow.gen = at.gen
    /\ at.ph # "resp" => slot.shadow.ready /\ slot.probe.gen = at.gen /\ ~slot.probe.failed
    /\ at.ph = "ack" => slot.probe.sendDone

\* No event of plane p that is newer than g.
NotNewer(m, p, g) == m.type = "PlaneEvent" /\ m.plane = p => m.gen <= g

\* The sender has its shadow, or has lost it to an event the receiver knows of.
ShadowOrNews ==
    pc["S"].ph \in {"resp", "probe", "ack"} =>
        \/ Held(Current, pc["S"])
        \/ pc["S"].ph # "probe" /\ table["R"][pc["S"].plane].gen > pc["S"].gen

\* While the receiver commits, no such event is under way, ...
NothingNewerSent ==
    pc["R"].ph \in {"rprobe", "rmark"} =>
        /\ pc["S"].ph = "ack" => Held(Current, pc["S"])
        /\ \A i \in 1 .. Len(net["S"]) : NotNewer(net["S"][i], pc["R"].plane, pc["R"].gen)
        /\ \A t \in Threads : mon["R"][t].stage = "send" /\ mon["R"][t].plane = pc["R"].plane
              => mon["R"][t].gen <= pc["R"].gen

\* ... and none is ahead of a positive answer.
NothingNewerAhead ==
    \A i \in 1 .. Len(net["S"]) :
        net["S"][i].type \in {"RecoveryResp", "RecoveryAck"} /\ net["S"][i].ok =>
            /\ pc["S"].ph \in {"resp", "ack"} => Held(Current, pc["S"])
            /\ \A j \in 1 .. i - 1 :
                  NotNewer(net["S"][j], net["S"][i].plane, net["S"][i].gen)

SenderHolds == ShadowOrNews /\ NothingNewerSent /\ NothingNewerAhead

\* In an ordinary step a recovering sender keeps its slot, or takes an event
\* that is newer than its recovery.
NewsTaken ==
    /\ net["S"] # <<>> /\ Head(net["S"]).type = "PlaneEvent"
    /\ Head(net["S"]).plane = pc["S"].plane
    /\ Head(net["S"]).gen > pc["S"].gen
    /\ pc["S"].ph \in {"resp", "ack"}
    /\ table["R"][pc["S"].plane].gen > pc["S"].gen

LEMMA SlotOrNews ==
    ASSUME TypeOK, TablesKnown, OrdinaryStep, pc["S"].ph \in {"resp", "probe", "ack"}
    PROVE  /\ pc'["S"] = pc["S"]
           /\ slots'["S"][pc["S"].plane] = Current \/ (NewsTaken /\ RecvPlaneEvent("S"))
<1> DEFINE p == pc["S"].plane
<1>1. /\ "S" \in Sides /\ p \in Planes /\ pc["S"] \in Positions /\ Current = slots["S"][p]
      /\ pc'["S"] = pc["S"] /\ Peer("S") = "R"
  <2>1. "S" \in Sides /\ p \in Planes /\ pc["S"] \in Positions
    BY StateTypes, SidesAndPlanes DEF TypeOK
  <2> QED BY <2>1 DEF OrdinaryStep, OrdinaryPositions, HandshakePhases, Current, Peer
<1>2. CASE slots'["S"] = slots["S"]
  BY <1>1, <1>2
<1>3. CASE RecvPlaneEvent("S") /\ slots'["S"][p] # slots["S"][p]
  <2> DEFINE m == Head(net["S"])
  <2>1. net["S"] # <<>> /\ m.type = "PlaneEvent" /\ MayHandle("S")
    BY <1>3 DEF RecvPlaneEvent, Arrived
  <2>2. m \in Messages /\ m = net["S"][1] /\ 1 \in 1 .. Len(net["S"])
    BY <1>1, <2>1 DEF TypeOK
  <2>3. m.plane \in Planes /\ m.gen \in Nat
    BY <2>1, <2>2, MessageFields
  <2>4. RemoteEventApplies(table["S"][m.plane], m.gen) /\ m.plane = p
    BY <1>1, <1>3, <2>3 DEF RecvPlaneEvent, Install, TypeOK
  <2>5. m.gen > table["S"][p].gen
    BY <2>4 DEF RemoteEventApplies
  <2>6. KnownMessage(table, "S", m) /\ KnownPosition(table, "S", pc["S"])
    BY <1>1, <2>2 DEF TablesKnown
  <2>7. table["S"][p].gen \in Nat /\ table["R"][p].gen \in Nat /\ pc["S"].gen \in Nat
    BY <1>1, StateTypes, SidesAndPlanes DEF PlaneEntry, Positions
  <2>8. table["R"][p].gen >= m.gen
    BY <1>1, <2>1, <2>3, <2>4, <2>6, <2>7 DEF KnownMessage, Agreement!Reached
  <2>9. table["S"][p].gen >= pc["S"].gen
    BY <1>1, <2>6, <2>7 DEF KnownPosition, Agreement!Reached
  <2>10. pc["S"].ph \in {"resp", "ack"}
    BY <2>1 DEF MayHandle, In
  <2> QED BY <1>1, <1>3, <2>1, <2>3, <2>4, <2>5, <2>7, <2>8, <2>9, <2>10 DEF NewsTaken
<1> QED BY <1>1, <1>2, <1>3 DEF OrdinaryStep, OrdinaryWaits

LEMMA OrdinaryHolds ==
    ASSUME TypeOK, TypeOK', OneToken, TablesKnown, TableGrows, SenderHolds, OrdinaryStep
    PROVE  SenderHolds'
<1>1. /\ "S" \in Sides /\ "R" \in Sides /\ pc["S"].plane \in Planes /\ pc["S"].gen \in Nat
      /\ pc["R"].plane \in Planes /\ pc["R"].gen \in Nat
  BY StateTypes, SidesAndPlanes
<1>2. /\ pc'["S"] = pc["S"] \/ pc'["S"].ph \notin {"resp", "probe", "ack"}
      /\ pc'["R"] = pc["R"] \/ pc'["R"].ph \notin {"rprobe", "rmark"}
  BY <1>1 DEF OrdinaryStep, OrdinaryPositions, HandshakePhases
<1>3. PICK k \in [Sides -> 0 .. 1] : \A t \in Sides : \A j \in 1 .. Len(net'[t]) :
          Remains(k, t, j) \/ (IsNew(k, t, j) /\ OrdinaryMessage(t, net'[t][j]))
  BY DEF OrdinaryStep, OrdinaryNet
<1> DEFINE c == k["S"]
<1>4. /\ c \in 0 .. 1 /\ Len(net'["S"]) \in Nat /\ Len(net["S"]) \in Nat
      /\ \A j \in 1 .. Len(net'["S"]) :
            \/ j + c \in 1 .. Len(net["S"]) /\ net'["S"][j] = net["S"][j + c]
            \/ j = Len(net'["S"]) /\ OrdinaryMessage("S", net'["S"][j])
  BY <1>1, <1>3 DEF Remains, IsNew, TypeOK
<1> HIDE DEF c
<1>5. Current' = slots'["S"][pc'["S"].plane]
  BY DEF Current
\* The sender's slot.
<1>6. ASSUME pc'["S"].ph \in {"resp", "probe", "ack"}, Held(Current, pc["S"]), ~NewsTaken
      PROVE  Held(Current', pc'["S"])
  BY <1>2, <1>5, <1>6, SlotOrNews
<1>7. ShadowOrNews'
  <2> SUFFICES ASSUME pc'["S"].ph \in {"resp", "probe", "ack"}
               PROVE  \/ Held(Current', pc'["S"])
                      \/ /\ pc'["S"].ph # "probe"
                         /\ table'["R"][pc'["S"].plane].gen > pc'["S"].gen
    BY DEF ShadowOrNews
  <2>1. pc'["S"] = pc["S"]
    BY <1>2
  <2>2. table["R"][pc["S"].plane].gen > pc["S"].gen => table'["R"][pc["S"].plane].gen > pc["S"].gen
    <3>1. /\ table["R"][pc["S"].plane].gen \in Nat /\ table'["R"][pc["S"].plane].gen \in Nat
      BY <1>1 DEF TypeOK, PlaneEntry
    <3> QED BY <1>1, <3>1 DEF TableGrows, Agreement!EntryStep
  <2>3. CASE NewsTaken
    BY <2>1, <2>2, <2>3 DEF NewsTaken
  <2>4. CASE Held(Current, pc["S"]) /\ ~NewsTaken
    BY <1>6, <2>4
  <2> QED BY <2>1, <2>2, <2>3, <2>4 DEF SenderHolds, ShadowOrNews
<1>8. NothingNewerSent'
  <2> SUFFICES ASSUME pc'["R"].ph \in {"rprobe", "rmark"}
               PROVE  /\ pc'["S"].ph = "ack" => Held(Current', pc'["S"])
                      /\ \A i \in 1 .. Len(net'["S"]) :
                            NotNewer(net'["S"][i], pc'["R"].plane, pc'["R"].gen)
                      /\ \A t \in Threads :
                            mon'["R"][t].stage = "send" /\ mon'["R"][t].plane = pc'["R"].plane
                               => mon'["R"][t].gen <= pc'["R"].gen
    BY DEF NothingNewerSent
  <2>1. /\ pc'["R"] = pc["R"] /\ pc["R"].ph \in {"rprobe", "rmark"}
        /\ \A i \in 1 .. Len(net["S"]) : NotNewer(net["S"][i], pc["R"].plane, pc["R"].gen)
        /\ \A t \in Threads : mon["R"][t].stage = "send" /\ mon["R"][t].plane = pc["R"].plane
              => mon["R"][t].gen <= pc["R"].gen
    BY <1>2 DEF SenderHolds, NothingNewerSent
  <2>2. ASSUME pc'["S"].ph = "ack"
        PROVE  Held(Current', pc'["S"])
    <3>1. pc["S"].ph = "ack" /\ Held(Current, pc["S"])
      BY <1>2, <2>1, <2>2 DEF SenderHolds, NothingNewerSent
    <3>2. pc["R"].plane = pc["S"].plane /\ pc["R"].gen = pc["S"].gen
      BY <2>1, <3>1 DEF OneToken
    <3>3. ~NewsTaken
      <4>1. SUFFICES ASSUME NewsTaken PROVE FALSE
        OBVIOUS
      <4>2. net["S"][1] = Head(net["S"]) /\ 1 \in 1 .. Len(net["S"]) /\ Head(net["S"]) \in Messages
        BY <1>1, <4>1 DEF NewsTaken, TypeOK
      <4>3. Head(net["S"]).gen \in Nat
        BY <4>1, <4>2, MessageFields DEF NewsTaken
      <4> QED BY <1>1, <2>1, <3>2, <4>1, <4>2, <4>3 DEF NewsTaken, NotNewer
    <3> QED BY <1>6, <2>2, <3>1, <3>3
  <2>3. ASSUME NEW i \in 1 .. Len(net'["S"])
        PROVE  NotNewer(net'["S"][i], pc["R"].plane, pc["R"].gen)
    <3>1. CASE i + c \in 1 .. Len(net["S"]) /\ net'["S"][i] = net["S"][i + c]
      BY <2>1, <3>1
    <3>2. CASE OrdinaryMessage("S", net'["S"][i])
      BY <2>1, <3>2 DEF OrdinaryMessage, NotNewer
    <3> QED BY <1>4, <3>1, <3>2
  <2>4. ASSUME NEW t \in Threads, mon'["R"][t].stage = "send"
        PROVE  mon'["R"][t] = mon["R"][t]
    BY <2>1, <2>4 DEF OrdinaryStep, OrdinaryMonitors
  <2> QED BY <2>1, <2>2, <2>3, <2>4
<1>9. NothingNewerAhead'
  <2> SUFFICES ASSUME NEW i \in 1 .. Len(net'["S"]),
                      net'["S"][i].type \in {"RecoveryResp", "RecoveryAck"}, net'["S"][i].ok
               PROVE  /\ pc'["S"].ph \in {"resp", "ack"} => Held(Current', pc'["S"])
                      /\ \A j \in 1 .. i - 1 :
                            NotNewer(net'["S"][j], net'["S"][i].plane, net'["S"][i].gen)
    BY DEF NothingNewerAhead
  <2>1. i + c \in 1 .. Len(net["S"]) /\ net'["S"][i] = net["S"][i + c]
    BY <1>4 DEF OrdinaryMessage, HandshakeTypes
  <2>2. /\ pc["S"].ph \in {"resp", "ack"} => Held(Current, pc["S"])
        /\ \A j \in 1 .. (i + c) - 1 :
              NotNewer(net["S"][j], net["S"][i + c].plane, net["S"][i + c].gen)
    BY <2>1 DEF SenderHolds, NothingNewerAhead
  <2>3. ASSUME NEW j \in 1 .. i - 1
        PROVE  NotNewer(net'["S"][j], net'["S"][i].plane, net'["S"][i].gen)
    <3>1. j \in 1 .. Len(net'["S"]) /\ j # Len(net'["S"]) /\ j + c \in 1 .. (i + c) - 1
      BY <1>4
    <3>2. net'["S"][j] = net["S"][j + c]
      BY <1>4, <3>1
    <3> QED BY <2>1, <2>2, <3>1, <3>2
  <2>4. ASSUME pc'["S"].ph \in {"resp", "ack"}
        PROVE  Held(Current', pc'["S"])
    <3>1. pc'["S"] = pc["S"] /\ Held(Current, pc["S"])
      BY <1>2, <2>2, <2>4
    <3>2. Matches(net["S"][i + c], pc["S"])
      BY <1>1, <2>1, <2>4, <3>1 DEF OneToken, HandshakeTypes
    <3>3. net["S"][i + c].plane = pc["S"].plane /\ net["S"][i + c].gen = pc["S"].gen
      BY <3>2 DEF Matches
    <3>4. ~NewsTaken
      <4>1. SUFFICES ASSUME NewsTaken PROVE FALSE
        OBVIOUS
      <4>2. net["S"][1] = Head(net["S"]) /\ 1 \in 1 .. Len(net["S"]) /\ Head(net["S"]) \in Messages
        BY <1>1, <4>1 DEF NewsTaken, TypeOK
      <4>3. Head(net["S"]).gen \in Nat
        BY <4>1, <4>2, MessageFields DEF NewsTaken
      <4>4. i + c # 1
        BY <2>1, <4>1, <4>2 DEF NewsTaken
      <4>5. 1 \in 1 .. (i + c) - 1
        BY <1>4, <4>4
      <4> QED BY <1>1, <2>2, <3>3, <4>1, <4>2, <4>3, <4>5 DEF NewsTaken, NotNewer
    <3> QED BY <1>6, <2>4, <3>1, <3>4
  <2> QED BY <2>3, <2>4
<1> QED BY <1>7, <1>8, <1>9 DEF SenderHolds

LEMMA SenderKeepsHolding ==
    ASSUME TypeOK, TypeOK', OneToken, TablesKnown, TableGrows, ShadowInRecovery, SenderHolds,
           SenderHandshake
    PROVE  SenderHolds'
<1> DEFINE p == pc["S"].plane
           g == pc["S"].gen
<1>1. /\ "S" \in Sides /\ "R" \in Sides /\ p \in Planes /\ g \in Nat /\ Current = slots["S"][p]
      /\ Current \in Slots(QpIds) /\ Current' = slots'["S"][pc'["S"].plane]
      /\ pc'["R"] = pc["R"]
  BY SidesAndPlanes, StateTypes, SenderLeaves DEF Current
<1>2. ASSUME ~HandshakeTimeout,
             pc'["S"].ph \in {"resp", "probe", "ack"} => Held(Current', pc'["S"])
      PROVE  SenderHolds'
  <2>1. /\ pc'["R"].ph \notin {"rprobe", "rmark"}
        /\ \A i \in 1 .. Len(net'["S"]) : net'["S"][i].type \notin {"RecoveryResp", "RecoveryAck"}
    BY <1>1, <1>2, SenderLeaves DEF HandshakeTypes
  <2> QED BY <1>2, <2>1 DEF SenderHolds, ShadowOrNews, NothingNewerSent, NothingNewerAhead
<1>3. ASSUME NEW o \in Planes, RecoverStart(o)
      PROVE  SenderHolds'
  <2>1. pc["S"].ph \notin {"resp", "probe", "ack", "failed"}
    BY <1>3 DEF RecoverStart, MayRecover, BeforeReplay, In
  <2>2. slots["S"][o].shadow.qp = NoQp
    BY <2>1 DEF ShadowInRecovery
  <2>3. PICK sl : /\ Move("S", o, sl, qps["S"])
                  /\ Begins(slots["S"][o], sl, FreshQp("S"), table["S"][o].gen)
    BY <1>3, <2>2, SenderMoves
  <2>4. FreshQp("S") # NoQp
    BY <1>1, <1>3, FreshQpType, SidesAndPlanes DEF RecoverStart
  <2>5. pc'["S"] = [ph |-> "resp", plane |-> o, gen |-> table["S"][o].gen]
    BY <1>1, <1>3 DEF RecoverStart, GotoOn, TypeOK
  <2>6. Current' = sl
    BY <1>1, <2>3, <2>5, MoveSlot
  <2>7. ~HandshakeTimeout
    BY <2>1 DEF HandshakeTimeout, In
  <2>8. Held(Current', pc'["S"])
    BY <2>3, <2>4, <2>5, <2>6 DEF Held, Begins
  <2> QED BY <1>2, <2>7, <2>8
<1>4. CASE RecoverConnect
  <2>1. PICK sl, q : Move("S", p, sl, q) /\ Connects(Current, sl, g)
    BY <1>4, SenderMoves
  <2>2. /\ pc["S"].ph = "resp" /\ TokenFirst("S")
        /\ Head(net["S"]).plane = p /\ Head(net["S"]).gen = g
        /\ Head(net["S"]).type = "RecoveryResp" /\ Head(net["S"]).ok
    BY <1>4, AnswerFirst DEF RecoverConnect, Arrived
  <2>3. Held(Current, pc["S"])
    <3>1. 1 \in 1 .. Len(net["S"]) /\ net["S"][1] = Head(net["S"])
      BY <1>1, <2>2 DEF TokenFirst, TypeOK
    <3> QED BY <2>2, <3>1 DEF SenderHolds, NothingNewerAhead
  <2>4. pc'["S"] = [ph |-> "probe", plane |-> p, gen |-> g]
    BY <1>1, <1>4, <2>2 DEF RecoverConnect, GotoOn, TypeOK
  <2>5. Current' = sl
    BY <1>1, <2>1, <2>4, MoveSlot
  <2>6. Held(Current', pc'["S"])
    BY <2>1, <2>3, <2>4, <2>5 DEF Held, Connects, FreshProbe
  <2>7. ~HandshakeTimeout
    BY <1>1, <2>4 DEF HandshakeTimeout, Goto, At, TypeOK
  <2> QED BY <1>2, <2>6, <2>7
<1>5. CASE ProbeOk
  <2> DEFINE sl == RecordProbe(Current, "send", g, TRUE)
  <2>1. Move("S", p, sl, Popped("S", Current.shadow)) /\ pc["S"].ph = "probe"
    BY <1>5, SenderMoves DEF ProbeOk, In
  <2>2. Held(Current, pc["S"])
    BY <2>1 DEF SenderHolds, ShadowOrNews
  <2>3. pc'["S"] = [ph |-> "ack", plane |-> p, gen |-> g]
    BY <1>1, <1>5 DEF ProbeOk, GotoOn, TypeOK
  <2>4. Current' = sl
    <3> HIDE DEF sl
    <3> QED BY <1>1, <2>1, <2>3, MoveSlot
  <2>5. Held(sl, pc'["S"])
    <3>1. Current.probe.gen = g
      BY <2>1, <2>2 DEF Held
    <3>2. sl = [Current EXCEPT !.probe.sendDone = TRUE]
      BY <3>1 DEF RecordProbe
    <3>3. /\ sl.shadow = Current.shadow /\ sl.probe.gen = Current.probe.gen
          /\ sl.probe.failed = Current.probe.failed /\ sl.probe.sendDone
      <4> HIDE DEF sl
      <4> QED BY <1>1, <3>1, <3>2 DEF Slots, Probes
    <3> HIDE DEF sl
    <3> QED BY <2>1, <2>2, <2>3, <3>3 DEF Held
  <2>6. Held(Current', pc'["S"])
    BY <2>4, <2>5
  <2>7. ~HandshakeTimeout
    BY <2>1 DEF HandshakeTimeout, In
  <2> QED BY <1>2, <2>6, <2>7
<1>6. CASE RecoverRefused \/ ProbeFailed \/ RecvAck \/ MarkHealthyS
  <2>1. pc'["S"].ph \in {"recovered", "mark"}
    <3>1. ASSUME NEW ph, NEW o, NEW n, GotoOn("S", ph, o, n)
          PROVE  pc'["S"].ph = ph
      BY <1>1, <3>1 DEF GotoOn, TypeOK
    <3> QED BY <1>6, <3>1
            DEF RecoverRefused, ProbeFailed, RecvAck, MarkHealthyS, RecoverGiveUp
  <2>2. ~HandshakeTimeout
    BY <1>1, <2>1 DEF HandshakeTimeout, Goto, At, TypeOK
  <2> QED BY <1>2, <2>1, <2>2
<1>7. CASE HandshakeTimeout
  <2>1. pc'["S"].ph = "failed" /\ UNCHANGED <<net, mon>>
    BY <1>1, <1>7 DEF HandshakeTimeout, Goto, At, TypeOK
  <2> QED BY <1>1, <2>1 DEF SenderHolds, ShadowOrNews, NothingNewerSent, NothingNewerAhead
<1> QED BY <1>3, <1>4, <1>5, <1>6, <1>7 DEF SenderHandshake

LEMMA ReceiverKeepsHolding ==
    ASSUME TypeOK, TypeOK', OneToken, TablesKnown, TablesKnown', TableGrows, SlotsSeparate,
           ReplacementsSound, SenderHolds, ReceiverHandshake
    PROVE  SenderHolds'
<1>1. /\ "S" \in Sides /\ "R" \in Sides /\ Peer("S") = "R"
      /\ pc'["S"] = pc["S"] /\ slots'["S"] = slots["S"] /\ Current' = Current
      /\ pc["S"].plane \in Planes /\ pc["S"].gen \in Nat
      /\ \A i \in 1 .. Len(net'["S"]) :
            net'["S"][i].type \in HandshakeTypes => i = Len(net'["S"])
      /\ Len(net'["S"]) \in Nat
  BY SidesAndPlanes, StateTypes, ReceiverLeaves DEF Current, Peer, TypeOK
<1>2. ASSUME NEW p \in Planes
      PROVE  /\ table["R"][p].gen \in Nat /\ table'["R"][p].gen \in Nat
             /\ table'["R"][p].gen >= table["R"][p].gen
  <2>1. table["R"][p].gen \in Nat /\ table'["R"][p].gen \in Nat
    BY <1>1 DEF TypeOK, PlaneEntry
  <2>2. Agreement!EntryStep(table["R"][p], table'["R"][p])
    BY <1>1 DEF TableGrows
  <2> QED BY <2>1, <2>2 DEF Agreement!EntryStep
<1>3. pc["S"].ph \in {"resp", "probe", "ack"} =>
          \/ Held(Current, pc["S"])
          \/ pc["S"].ph # "probe" /\ table'["R"][pc["S"].plane].gen > pc["S"].gen
  BY <1>1, <1>2 DEF SenderHolds, ShadowOrNews
<1> SUFFICES
      /\ pc'["R"].ph \in {"rprobe", "rmark"} =>
            /\ pc["S"].ph = "ack" => Held(Current, pc["S"])
            /\ \A i \in 1 .. Len(net'["S"]) : NotNewer(net'["S"][i], pc'["R"].plane, pc'["R"].gen)
            /\ \A t \in Threads : mon'["R"][t].stage = "send" /\ mon'["R"][t].plane = pc'["R"].plane
                  => mon'["R"][t].gen <= pc'["R"].gen
      /\ \A i \in 1 .. Len(net'["S"]) :
            net'["S"][i].type \in {"RecoveryResp", "RecoveryAck"} /\ net'["S"][i].ok =>
                /\ pc["S"].ph \in {"resp", "ack"} => Held(Current, pc["S"])
                /\ \A j \in 1 .. i - 1 :
                      NotNewer(net'["S"][j], net'["S"][i].plane, net'["S"][i].gen)
  <2>1. ShadowOrNews'
    BY <1>1, <1>3 DEF ShadowOrNews
  <2> QED BY <1>1, <2>1 DEF SenderHolds, NothingNewerSent, NothingNewerAhead
\* What the sender will hear of the receiver is not newer than its table.
<1>4. ASSUME NEW i \in 1 .. Len(net'["S"]), NEW p \in Planes
      PROVE  NotNewer(net'["S"][i], p, table'["R"][p].gen)
  <2>1. net'["S"][i] \in Messages /\ KnownMessage(table', "S", net'["S"][i])
    BY <1>1 DEF TypeOK, TablesKnown
  <2>2. SUFFICES ASSUME net'["S"][i].type = "PlaneEvent", net'["S"][i].plane = p
                 PROVE  net'["S"][i].gen <= table'["R"][p].gen
    BY DEF NotNewer
  <2>3. net'["S"][i].gen \in Nat
    BY <2>1, <2>2, MessageFields
  <2> QED BY <1>1, <1>2, <2>1, <2>2, <2>3 DEF KnownMessage, Agreement!Reached
<1>5. ASSUME NEW t \in Threads, mon'["R"][t].stage = "send"
      PROVE  mon'["R"][t].gen <= table'["R"][mon'["R"][t].plane].gen
  <2>1. mon'["R"][t] \in Deliveries /\ KnownDelivery(table', "R", mon'["R"][t])
    BY <1>1 DEF TypeOK, TablesKnown
  <2> QED BY <1>1, <1>2, <1>5, <2>1 DEF KnownDelivery, Deliveries, Agreement!Reached
<1>6. ASSUME NEW p \in Planes, pc["S"].ph \in {"resp", "ack"}, pc["S"].plane = p,
             pc["S"].gen = table'["R"][p].gen
      PROVE  Held(Current, pc["S"])
  BY <1>1, <1>2, <1>3, <1>6
<1>7. ASSUME NEW ready \in BOOLEAN, RecvRecoveryReq(ready)
      PROVE  /\ pc'["R"].ph \notin {"rprobe", "rmark"}
             /\ \A i \in 1 .. Len(net'["S"]) :
                  net'["S"][i].type \in {"RecoveryResp", "RecoveryAck"} /\ net'["S"][i].ok =>
                      /\ pc["S"].ph \in {"resp", "ack"} => Held(Current, pc["S"])
                      /\ \A j \in 1 .. i - 1 :
                            NotNewer(net'["S"][j], net'["S"][i].plane, net'["S"][i].gen)
  <2> DEFINE m == Head(net["R"])
             x == FreshQp("R")
  <2>1. /\ TokenFirst("R") /\ m.type = "RecoveryReq" /\ m.plane \in Planes /\ m.gen \in Nat
        /\ x \in QpIds
        /\ \/ ReceiveAndSend("R", RecoveryResp(m.plane, m.gen, FALSE, NoQp))
           \/ /\ ReceiveAndSend("R", RecoveryResp(m.plane, m.gen, TRUE, x))
              /\ table'["R"][m.plane].gen = m.gen
    <3>1. /\ net["R"] # <<>> /\ m.type = "RecoveryReq" /\ m.plane \in Planes /\ m.gen \in Nat
          /\ x \in QpIds
          /\ \/ ReceiveAndSend("R", RecoveryResp(m.plane, m.gen, FALSE, NoQp))
             \/ /\ ReceiveAndSend("R", RecoveryResp(m.plane, m.gen, TRUE, x))
                /\ table'["R"][m.plane].gen = m.gen
      BY <1>7, RequestMoves
    <3> HIDE DEF x
    <3> QED BY <3>1 DEF TokenFirst, HandshakeTypes
  <2>2. pc'["R"].ph \notin {"rprobe", "rmark"}
    <3>1. AfterHandle("R") /\ MayHandle("R")
      BY <1>7 DEF RecvRecoveryReq
    <3> QED BY <3>1, ReceiverPosition
  <2>3. pc["S"].ph = "failed" \/ Matches(m, pc["S"])
    BY <1>1, <2>1, TokenFacts
  <2>4. pc["S"].ph \in {"resp", "ack"} => pc["S"].plane = m.plane /\ pc["S"].gen = m.gen
    BY <2>3 DEF Matches
  <2> HIDE DEF m, x
  <2>5. CASE ReceiveAndSend("R", RecoveryResp(m.plane, m.gen, FALSE, NoQp))
    <3>1. RecoveryResp(m.plane, m.gen, FALSE, NoQp) \in Messages
      BY <2>1, MessageTypes
    <3> DEFINE n == RecoveryResp(m.plane, m.gen, FALSE, NoQp)
    <3> HIDE DEF n
    <3>2. \A t \in Sides : \A i \in 1 .. Len(net'[t]) : net'[t][i].type \in HandshakeTypes =>
              net'[t][i] = n
      <4>1. n \in Messages /\ ReceiveAndSend("R", n)
        BY <2>5, <3>1 DEF n
      <4> QED BY <1>1, <2>1, <4>1, OnlyNewToken
    <3>3. \A i \in 1 .. Len(net'["S"]) :
              net'["S"][i].type \in {"RecoveryResp", "RecoveryAck"} => ~net'["S"][i].ok
      BY <1>1, <3>2 DEF HandshakeTypes, RecoveryResp, n
    <3> QED BY <2>2, <3>3
  <2>6. CASE /\ ReceiveAndSend("R", RecoveryResp(m.plane, m.gen, TRUE, x))
             /\ table'["R"][m.plane].gen = m.gen
    <3>1. RecoveryResp(m.plane, m.gen, TRUE, x) \in Messages
      BY <2>1, MessageTypes
    <3> DEFINE n == RecoveryResp(m.plane, m.gen, TRUE, x)
    <3> HIDE DEF n
    <3>2. \A t \in Sides : \A i \in 1 .. Len(net'[t]) : net'[t][i].type \in HandshakeTypes =>
              net'[t][i] = n
      <4>1. n \in Messages /\ ReceiveAndSend("R", n)
        BY <2>6, <3>1 DEF n
      <4> QED BY <1>1, <2>1, <4>1, OnlyNewToken
    <3>3. \A i \in 1 .. Len(net'["S"]) : net'["S"][i].type \in HandshakeTypes =>
              net'["S"][i].plane = m.plane /\ net'["S"][i].gen = m.gen
      BY <1>1, <3>2 DEF RecoveryResp, n
    <3>4. pc["S"].ph \in {"resp", "ack"} => Held(Current, pc["S"])
      BY <1>6, <2>1, <2>4, <2>6
    <3>5. ASSUME NEW i \in 1 .. Len(net'["S"]), NEW j \in 1 .. i - 1,
                 net'["S"][i].type \in HandshakeTypes
          PROVE  NotNewer(net'["S"][j], net'["S"][i].plane, net'["S"][i].gen)
      <4>1. j \in 1 .. Len(net'["S"])
        BY <1>1
      <4> QED BY <1>4, <2>1, <2>6, <3>3, <3>5, <4>1
    <3> QED BY <1>1, <2>2, <3>4, <3>5 DEF HandshakeTypes
  <2> QED BY <2>1, <2>5, <2>6
<1>8. CASE RecvRecoveryReady
  <2> DEFINE m == Head(net["R"])
  <2>1. /\ TokenFirst("R") /\ m.type = "RecoveryReady" /\ m.plane \in Planes /\ m.gen \in Nat
        /\ \/ /\ ReceiveAndSend("R", RecoveryAck(m.plane, m.gen, FALSE))
              /\ pc'["R"].ph \notin {"rprobe", "rmark"}
           \/ /\ Receive("R")
              /\ pc'["R"] = [ph |-> "rprobe", plane |-> m.plane, gen |-> m.gen]
              /\ table["R"][m.plane].gen = m.gen
    BY <1>8, ReadyMoves DEF TokenFirst, HandshakeTypes
  <2>2. UNCHANGED table
    BY <1>8 DEF RecvRecoveryReady
  <2>3. pc["S"].ph = "failed" \/ Matches(m, pc["S"])
    BY <1>1, <2>1, TokenFacts
  <2>4. pc["S"].ph \in {"resp", "ack"} => pc["S"].plane = m.plane /\ pc["S"].gen = m.gen
    BY <2>3 DEF Matches
  <2> HIDE DEF m
  <2>5. CASE /\ ReceiveAndSend("R", RecoveryAck(m.plane, m.gen, FALSE))
             /\ pc'["R"].ph \notin {"rprobe", "rmark"}
    <3>1. RecoveryAck(m.plane, m.gen, FALSE) \in Messages
      BY <2>1, MessageTypes
    <3> DEFINE n == RecoveryAck(m.plane, m.gen, FALSE)
    <3> HIDE DEF n
    <3>2. \A t \in Sides : \A i \in 1 .. Len(net'[t]) : net'[t][i].type \in HandshakeTypes =>
              net'[t][i] = n
      <4>1. n \in Messages /\ ReceiveAndSend("R", n)
        BY <2>5, <3>1 DEF n
      <4> QED BY <1>1, <2>1, <4>1, OnlyNewToken
    <3>3. \A i \in 1 .. Len(net'["S"]) :
              net'["S"][i].type \in {"RecoveryResp", "RecoveryAck"} => ~net'["S"][i].ok
      BY <1>1, <3>2 DEF HandshakeTypes, RecoveryAck, n
    <3> QED BY <2>5, <3>3
  <2>6. CASE /\ Receive("R")
             /\ pc'["R"] = [ph |-> "rprobe", plane |-> m.plane, gen |-> m.gen]
             /\ table["R"][m.plane].gen = m.gen
    <3>1. NoTokens'
      BY <1>1, <2>1, <2>6, NoNewToken
    <3>2. table'["R"][m.plane].gen = m.gen
      BY <2>2, <2>6
    <3>3. pc'["R"].plane = m.plane /\ pc'["R"].gen = m.gen
      BY <2>6
    <3>4. pc["S"].ph = "ack" => Held(Current, pc["S"])
      BY <1>6, <2>1, <2>4, <3>2
    <3>5. \A i \in 1 .. Len(net'["S"]) : NotNewer(net'["S"][i], pc'["R"].plane, pc'["R"].gen)
      BY <1>4, <2>1, <3>2, <3>3
    <3>6. \A t \in Threads : mon'["R"][t].stage = "send" /\ mon'["R"][t].plane = pc'["R"].plane
              => mon'["R"][t].gen <= pc'["R"].gen
      BY <1>5, <3>2, <3>3
    <3>7. \A i \in 1 .. Len(net'["S"]) : net'["S"][i].type \notin {"RecoveryResp", "RecoveryAck"}
      BY <1>1, <3>1 DEF NoTokens, HandshakeTypes
    <3> QED BY <3>4, <3>5, <3>6, <3>7
  <2> QED BY <2>1, <2>5, <2>6
<1>9. CASE CommitR
  <2>1. pc["R"].ph = "rprobe" /\ UNCHANGED <<net, mon>>
    BY <1>9 DEF CommitR, In
  <2>2. pc'["R"].plane = pc["R"].plane /\ pc'["R"].gen = pc["R"].gen
    BY <1>1, <1>9 DEF CommitR, GotoOn, TypeOK
  <2>3. NoTokens
    BY <2>1, TokenFacts
  <2>4. \A i \in 1 .. Len(net'["S"]) : net'["S"][i].type \notin {"RecoveryResp", "RecoveryAck"}
    BY <1>1, <2>1, <2>3 DEF NoTokens, HandshakeTypes
  <2> QED BY <2>1, <2>2, <2>4 DEF SenderHolds, NothingNewerSent
<1>10. CASE RProbeFailed \/ MarkHealthyR
  <2>1. NoTokens /\ pc["R"].ph \in {"rprobe", "rmark"}
    BY <1>10, TokenFacts DEF RProbeFailed, MarkHealthyR, In
  <2>2. PICK ok \in BOOLEAN : Send("R", RecoveryAck(pc["R"].plane, pc["R"].gen, ok))
    BY <1>10 DEF RProbeFailed, MarkHealthyR, HealthyIfGenerationOK
  <2> DEFINE m == RecoveryAck(pc["R"].plane, pc["R"].gen, ok)
  <2>3. m \in Messages /\ m.plane = pc["R"].plane /\ m.gen = pc["R"].gen
    <3>1. pc["R"].plane \in Planes /\ pc["R"].gen \in Nat
      BY <1>1, StateTypes
    <3> QED BY <3>1, MessageTypes DEF RecoveryAck
  <2>4. Send("R", m)
    BY <2>2
  <2> HIDE DEF m
  <2>5. pc'["R"].ph \notin {"rprobe", "rmark"}
    <3>1. Goto("R", "control")
      BY <1>10 DEF RProbeFailed, MarkHealthyR
    <3> QED BY <3>1, ReceiverPosition DEF At
  <2>6. \A i \in 1 .. Len(net'["S"]) : net'["S"][i].type \in HandshakeTypes => net'["S"][i] = m
    BY <1>1, <2>1, <2>3, <2>4, OnlyNewToken
  <2>7. /\ pc["S"].ph = "ack" => Held(Current, pc["S"])
        /\ \A i \in 1 .. Len(net["S"]) : NotNewer(net["S"][i], m.plane, m.gen)
    BY <2>1, <2>3 DEF SenderHolds, NothingNewerSent
  <2>8. pc["S"].ph \in {"failed", "ack"}
    BY <2>1 DEF OneToken
  <2>9. ASSUME NEW i \in 1 .. Len(net'["S"]), NEW j \in 1 .. i - 1,
               net'["S"][i].type \in HandshakeTypes
        PROVE  NotNewer(net'["S"][j], net'["S"][i].plane, net'["S"][i].gen)
    <3>1. j \in 1 .. Len(net["S"]) /\ net'["S"][j] = net["S"][j]
      <4>1. i \in Nat /\ j \in 1 .. Len(net'["S"]) /\ j # Len(net'["S"])
        BY <1>1
      <4>2. \/ Remains(NoneTaken, "S", j)
            \/ IsNew(NoneTaken, "S", j)
        BY <1>1, <2>3, <2>4, <4>1, SocketShift
      <4> QED BY <1>1, <4>1, <4>2 DEF Remains, IsNew, NoneTaken
    <3> QED BY <2>6, <2>7, <2>9, <3>1
  <2> QED BY <2>5, <2>7, <2>8, <2>9 DEF HandshakeTypes
<1> QED BY <1>7, <1>8, <1>9, <1>10 DEF ReceiverHandshake

-----------------------------------------------------------------------------
\* How the queue pairs of the two ends belong together.
Linked(Q, x, y) == Q["S"][x].dest = y /\ Q["R"][y].dest = x

HasShadow(slot, g) == slot.shadow.qp # NoQp /\ slot.shadow.gen = g

\* The receiver's slot of the plane the sender recovers.
Opposite == slots["R"][pc["S"].plane]

\* The request names the sender's shadow, and the receiver's, which the answer
\* names, is connected to it.
AskedPair ==
    pc["S"].ph = "resp" =>
        /\ \A i \in 1 .. Len(net["R"]) :
              net["R"][i].type = "RecoveryReq" /\ HasShadow(Current, pc["S"].gen) =>
                  net["R"][i].qp = Current.shadow.qp
        /\ \A i \in 1 .. Len(net["S"]) :
              net["S"][i].type = "RecoveryResp" /\ net["S"][i].ok
              /\ HasShadow(Opposite, pc["S"].gen) =>
                  /\ Opposite.shadow.qp = net["S"][i].qp
                  /\ qps["R"][Opposite.shadow.qp].dest = Current.shadow.qp

\* From then on the two are connected to each other, ...
ProbedPair ==
    pc["S"].ph \in {"probe", "ack"}
    /\ HasShadow(Opposite, pc["S"].gen) /\ HasShadow(Current, pc["S"].gen) =>
        Linked(qps, Current.shadow.qp, Opposite.shadow.qp)

\* ... the receiver waits for the probe of its own, ...
AwaitedShadow ==
    pc["R"].ph = "rprobe" =>
        HasShadow(Probed, pc["R"].gen) /\ Probed.probe.gen = pc["R"].gen

\* ... and what the receiver has committed is connected to what the sender will.
CommitUnderWay ==
    pc["R"].ph = "rmark"
    \/ \E i \in 1 .. Len(net["S"]) : net["S"][i].type = "RecoveryAck" /\ net["S"][i].ok

CommittedPair ==
    pc["S"].ph = "ack" /\ CommitUnderWay =>
        Linked(qps, Current.shadow.qp, Opposite.active.qp) /\ Opposite.active.gen = pc["S"].gen

Pairing == AskedPair /\ ProbedPair /\ AwaitedShadow /\ CommittedPair

\* PairedActive, plane by plane.
PairedOn(p) ==
    slots["S"][p].state = "Active" =>
        /\ Linked(qps, slots["S"][p].active.qp, slots["R"][p].active.qp)
        /\ slots["S"][p].active.gen = slots["R"][p].active.gen

LEMMA PairedPlanes == PairedActive <=> \A p \in Planes : PairedOn(p)
  BY DEF PairedActive, PairedOn, Linked

LEMMA EndpointsLive ==
    ASSUME TypeOK, SlotsSeparate, NEW s \in Sides, NEW p \in Planes
    PROVE  /\ slots[s][p].active.qp \in QpIds /\ slots[s][p].active.qp \in LiveQps(slots[s])
           /\ slots[s][p].shadow.qp # NoQp =>
                 /\ slots[s][p].shadow.qp \in QpIds /\ slots[s][p].shadow.qp \in LiveQps(slots[s])
                 /\ \A o \in Planes : slots[s][p].shadow.qp # slots[s][o].active.qp
<1>1. slots[s][p] \in Slots(QpIds) /\ slots[s][p].active.qp # NoQp
  BY StateTypes DEF SlotsSeparate, SeparateSlot
<1>2. slots[s][p].active.qp \in QpIds /\ slots[s][p].shadow.qp \in QpIds \cup {NoQp}
  BY <1>1 DEF Slots, Endpoints
<1>3. \A o \in Planes : slots[s][o].active.qp \in QpsOf(slots[s][o])
  BY DEF SlotsSeparate, SeparateSlot, QpsOf
<1>4. slots[s][p].shadow.qp # NoQp => slots[s][p].shadow.qp \in QpsOf(slots[s][p])
  BY DEF QpsOf
<1>5. ASSUME slots[s][p].shadow.qp # NoQp, NEW o \in Planes
      PROVE  slots[s][p].shadow.qp # slots[s][o].active.qp
  <2>1. CASE o = p
    BY <1>5, <2>1 DEF SlotsSeparate, SeparateSlot, SlotQps
  <2>2. CASE o # p
    <3>1. QpsOf(slots[s][p]) \cap QpsOf(slots[s][o]) = {}
      BY <2>2 DEF SlotsSeparate
    <3> QED BY <1>3, <1>4, <1>5, <3>1
  <2> QED BY <2>1, <2>2
<1> QED BY <1>1, <1>2, <1>3, <1>4, <1>5 DEF LiveQps

LEMMA EndpointsLivePrimed ==
    ASSUME TypeOK', SlotsSeparate', NEW s \in Sides, NEW p \in Planes
    PROVE  /\ slots'[s][p].active.qp \in QpIds /\ slots'[s][p].active.qp \in LiveQps(slots'[s])
           /\ slots'[s][p].shadow.qp # NoQp =>
                 slots'[s][p].shadow.qp \in QpIds /\ slots'[s][p].shadow.qp \in LiveQps(slots'[s])
<1>1. slots'[s][p] \in Slots(QpIds) /\ slots'[s][p].active.qp # NoQp
  BY DEF TypeOK, SlotsSeparate, SeparateSlot
<1>2. slots'[s][p].active.qp \in QpIds /\ slots'[s][p].shadow.qp \in QpIds \cup {NoQp}
  BY <1>1 DEF Slots, Endpoints
<1> QED BY <1>1, <1>2 DEF LiveQps, QpsOf

\* Steps that keep the active endpoints of a plane and their connections.
LEMMA PairedStays ==
    ASSUME NEW p \in Planes, PairedOn(p),
           slots'["S"][p].state = "Active" => slots["S"][p].state = "Active",
           \A s \in Sides : /\ slots'[s][p].active = slots[s][p].active
                            /\ qps'[s][slots[s][p].active.qp].dest = qps[s][slots[s][p].active.qp].dest
    PROVE  PairedOn(p)'
  BY SidesAndPlanes DEF PairedOn, Linked

LEMMA OrdinaryPaired ==
    ASSUME TypeOK, TypeOK', SlotsSeparate', PairedActive, OrdinarySlots
    PROVE  PairedActive'
<1>1. ASSUME NEW p \in Planes
      PROVE  PairedOn(p)'
  <2>1. \A s \in Sides : Keeps(slots[s][p], slots'[s][p])
    BY DEF OrdinarySlots, Loses
  <2>2. ASSUME NEW s \in Sides
        PROVE  qps'[s][slots[s][p].active.qp].dest = qps[s][slots[s][p].active.qp].dest
    <3>1. slots'[s][p].active = slots[s][p].active
      BY <2>1 DEF Keeps
    <3>2. slots[s][p].active.qp \in QpIds /\ slots[s][p].active.qp \in LiveQps(slots'[s])
      BY <3>1, EndpointsLivePrimed
    <3> QED BY <3>2 DEF OrdinarySlots
  <2>3. PairedOn(p)
    BY PairedPlanes
  <2> QED BY <2>1, <2>2, <2>3, PairedStays, SidesAndPlanes DEF Keeps
<1>2. \A p \in Planes : PairedOn(p)'
  BY <1>1
<1> QED BY <1>2 DEF PairedActive, PairedOn, Linked

\* A move that reconnects no active queue pair.
LEMMA PairedMove ==
    ASSUME TypeOK, TypeOK', SlotsSeparate, SlotsSeparate', PairedActive,
           NEW s \in Sides, NEW p \in Planes, NEW sl, NEW q, Move(s, p, sl, q),
           \A o \in Planes : q[slots[s][o].active.qp].dest = qps[s][slots[s][o].active.qp].dest
    PROVE  /\ \A o \in Planes \ {p} : PairedOn(o)'
           /\ sl.active = slots[s][p].active
              /\ (s = "S" /\ sl.state = "Active" => slots[s][p].state = "Active") => PairedActive'
<1>1. /\ slots'[s][p] = sl
      /\ \A o \in Planes : o # p => slots'[s][o] = slots[s][o]
      /\ \A t \in Sides : t # s => slots'[t] = slots[t] /\ qps'[t] = qps[t]
      /\ \A i \in QpIds : qps'[s][i] = IF i \in LiveQps(slots'[s]) THEN q[i] ELSE NullQp
  BY MoveSlot
<1>2. ASSUME NEW o \in Planes, slots'[s][o].active = slots[s][o].active
      PROVE  qps'[s][slots[s][o].active.qp].dest = qps[s][slots[s][o].active.qp].dest
  <2>1. /\ slots[s][o].active.qp \in QpIds /\ slots[s][o].active.qp \in LiveQps(slots'[s])
    BY <1>2, EndpointsLivePrimed
  <2> QED BY <1>1, <2>1
<1>3. ASSUME NEW o \in Planes, slots'[s][o].active = slots[s][o].active,
             s = "S" /\ slots'[s][o].state = "Active" => slots[s][o].state = "Active"
      PROVE  PairedOn(o)'
  <2>1. \A t \in Sides : /\ slots'[t][o].active = slots[t][o].active
                         /\ qps'[t][slots[t][o].active.qp].dest = qps[t][slots[t][o].active.qp].dest
    BY <1>1, <1>2, <1>3
  <2>2. slots'["S"][o].state = "Active" => slots["S"][o].state = "Active"
    BY <1>1, <1>3, SidesAndPlanes
  <2>3. PairedOn(o)
    BY PairedPlanes
  <2> QED BY <2>1, <2>2, <2>3, PairedStays
<1>4. \A o \in Planes \ {p} : PairedOn(o)'
  BY <1>1, <1>3
<1>5. ASSUME sl.active = slots[s][p].active,
             s = "S" /\ sl.state = "Active" => slots[s][p].state = "Active"
      PROVE  PairedActive'
  <2>1. \A o \in Planes : PairedOn(o)'
    BY <1>1, <1>3, <1>4, <1>5
  <2> QED BY <2>1 DEF PairedActive, PairedOn, Linked
<1> QED BY <1>4, <1>5

\* A replacement that is begun or connected leaves the active ones alone.
LEMMA PairedConnect ==
    ASSUME TypeOK, TypeOK', SlotsSeparate, SlotsSeparate', PairedActive,
           NEW s \in Sides, NEW p \in Planes, NEW sl,
           NEW x \in QpIds, NEW y \in QpIds, NEW n \in Nat,
           Move(s, p, sl, ConnectedQp(s, x, y, n)),
           sl.active = slots[s][p].active, sl.state # "Active",
           \A o \in Planes : x # slots[s][o].active.qp
    PROVE  PairedActive'
<1> DEFINE q == ConnectedQp(s, x, y, n)
<1>1. \A i \in QpIds : i # x => q[i] = qps[s][i]
  BY ConnectMoves
<1>2. Move(s, p, sl, q)
  OBVIOUS
<1> HIDE DEF q
<1>3. ASSUME NEW o \in Planes
      PROVE  q[slots[s][o].active.qp].dest = qps[s][slots[s][o].active.qp].dest
  <2>1. slots[s][o].active.qp \in QpIds /\ x # slots[s][o].active.qp
    BY EndpointsLive
  <2> QED BY <1>1, <2>1
<1> QED BY <1>2, <1>3, PairedMove

\* What ordinary steps leave of a shadow, and of a connection.
LEMMA ShadowKept ==
    ASSUME TypeOK', SlotsSeparate', OrdinarySlots, NEW s \in Sides, NEW p \in Planes,
           slots'[s][p].shadow.qp # NoQp
    PROVE  /\ slots[s][p].shadow = slots'[s][p].shadow
           /\ slots'[s][p].shadow.qp \in QpIds
           /\ qps'[s][slots'[s][p].shadow.qp].dest = qps[s][slots'[s][p].shadow.qp].dest
  BY EndpointsLivePrimed DEF OrdinarySlots, Loses, Keeps

LEMMA ActiveKept ==
    ASSUME TypeOK', SlotsSeparate', OrdinarySlots, NEW s \in Sides, NEW p \in Planes
    PROVE  /\ slots[s][p].active = slots'[s][p].active
           /\ qps'[s][slots'[s][p].active.qp].dest = qps[s][slots'[s][p].active.qp].dest
  BY EndpointsLivePrimed DEF OrdinarySlots, Loses, Keeps

LEMMA OrdinaryPairing ==
    ASSUME TypeOK, TypeOK', OneToken, SlotsSeparate, SlotsSeparate', SenderHolds', Pairing,
           OrdinaryStep
    PROVE  Pairing'
<1> DEFINE p == pc["S"].plane
           g == pc["S"].gen
<1>1. /\ "S" \in Sides /\ "R" \in Sides /\ p \in Planes /\ g \in Nat
      /\ pc["R"].plane \in Planes /\ pc["R"].gen \in Nat
      /\ Current = slots["S"][p] /\ Opposite = slots["R"][p]
  BY StateTypes, SidesAndPlanes DEF Current, Opposite
<1>2. /\ pc'["S"] = pc["S"] \/ pc'["S"].ph \notin {"resp", "probe", "ack"}
      /\ pc'["R"] = pc["R"] \/ pc'["R"].ph \notin {"rprobe", "rmark"}
  BY <1>1 DEF OrdinaryStep, OrdinaryPositions, HandshakePhases
<1>3. \A t \in Sides : \A i \in 1 .. Len(net'[t]) : net'[t][i].type \in HandshakeTypes =>
          \E j \in 1 .. Len(net[t]) : net'[t][i] = net[t][j]
  <2>1. PICK k \in [Sides -> 0 .. 1] : \A t \in Sides : \A j \in 1 .. Len(net'[t]) :
            Remains(k, t, j) \/ (IsNew(k, t, j) /\ OrdinaryMessage(t, net'[t][j]))
    BY DEF OrdinaryStep, OrdinaryNet
  <2> QED BY <2>1 DEF Remains, OrdinaryMessage
<1>4. /\ OrdinarySlots
      /\ Current' = slots'["S"][pc'["S"].plane] /\ Opposite' = slots'["R"][pc'["S"].plane]
      /\ Probed' = slots'["R"][pc'["R"].plane]
  BY DEF OrdinaryStep, Current, Opposite, Probed
<1>5. AskedPair'
  <2> SUFFICES ASSUME pc'["S"].ph = "resp"
               PROVE  /\ \A i \in 1 .. Len(net'["R"]) :
                            net'["R"][i].type = "RecoveryReq" /\ HasShadow(Current', pc'["S"].gen) =>
                                net'["R"][i].qp = Current'.shadow.qp
                      /\ \A i \in 1 .. Len(net'["S"]) :
                            net'["S"][i].type = "RecoveryResp" /\ net'["S"][i].ok
                            /\ HasShadow(Opposite', pc'["S"].gen) =>
                                /\ Opposite'.shadow.qp = net'["S"][i].qp
                                /\ qps'["R"][Opposite'.shadow.qp].dest = Current'.shadow.qp
    BY DEF AskedPair
  <2>1. pc'["S"] = pc["S"]
    BY <1>2
  <2>2. ASSUME NEW i \in 1 .. Len(net'["R"]), net'["R"][i].type = "RecoveryReq",
               HasShadow(Current', pc'["S"].gen)
        PROVE  net'["R"][i].qp = Current'.shadow.qp
    <3>1. Current.shadow = Current'.shadow
      BY <1>1, <1>4, <2>1, <2>2, ShadowKept DEF HasShadow
    <3>2. HasShadow(Current, pc["S"].gen)
      BY <2>1, <2>2, <3>1 DEF HasShadow
    <3>3. PICK j \in 1 .. Len(net["R"]) : net'["R"][i] = net["R"][j]
      BY <1>1, <1>3, <2>2 DEF HandshakeTypes
    <3> QED BY <2>1, <2>2, <3>1, <3>2, <3>3 DEF Pairing, AskedPair
  <2>3. ASSUME NEW i \in 1 .. Len(net'["S"]), net'["S"][i].type = "RecoveryResp",
               net'["S"][i].ok, HasShadow(Opposite', pc'["S"].gen)
        PROVE  /\ Opposite'.shadow.qp = net'["S"][i].qp
               /\ qps'["R"][Opposite'.shadow.qp].dest = Current'.shadow.qp
    <3>1. Held(Current', pc'["S"])
      BY <2>3 DEF SenderHolds, NothingNewerAhead
    <3>2. Current.shadow = Current'.shadow
      BY <1>1, <1>4, <2>1, <3>1, ShadowKept DEF Held
    <3>3. /\ Opposite.shadow = Opposite'.shadow
          /\ qps'["R"][Opposite'.shadow.qp].dest = qps["R"][Opposite'.shadow.qp].dest
      BY <1>1, <1>4, <2>1, <2>3, ShadowKept DEF HasShadow
    <3>4. HasShadow(Opposite, pc["S"].gen)
      BY <2>1, <2>3, <3>3 DEF HasShadow
    <3>5. PICK j \in 1 .. Len(net["S"]) : net'["S"][i] = net["S"][j]
      BY <1>1, <1>3, <2>3 DEF HandshakeTypes
    <3> QED BY <2>1, <2>3, <3>2, <3>3, <3>4, <3>5 DEF Pairing, AskedPair
  <2> QED BY <2>2, <2>3
<1>6. ProbedPair'
  <2> SUFFICES ASSUME pc'["S"].ph \in {"probe", "ack"}, HasShadow(Opposite', pc'["S"].gen),
                      HasShadow(Current', pc'["S"].gen)
               PROVE  Linked(qps', Current'.shadow.qp, Opposite'.shadow.qp)
    BY DEF ProbedPair
  <2>1. pc'["S"] = pc["S"]
    BY <1>2
  <2>2. /\ Current.shadow = Current'.shadow /\ Opposite.shadow = Opposite'.shadow
        /\ qps'["S"][Current'.shadow.qp].dest = qps["S"][Current'.shadow.qp].dest
        /\ qps'["R"][Opposite'.shadow.qp].dest = qps["R"][Opposite'.shadow.qp].dest
    BY <1>1, <1>4, <2>1, ShadowKept DEF HasShadow
  <2>3. HasShadow(Current, pc["S"].gen) /\ HasShadow(Opposite, pc["S"].gen)
    BY <2>1, <2>2 DEF HasShadow
  <2>4. Linked(qps, Current.shadow.qp, Opposite.shadow.qp)
    BY <2>1, <2>3 DEF Pairing, ProbedPair
  <2> QED BY <2>2, <2>4 DEF Linked
<1>7. AwaitedShadow'
  <2> SUFFICES ASSUME pc'["R"].ph = "rprobe"
               PROVE  HasShadow(Probed', pc'["R"].gen) /\ Probed'.probe.gen = pc'["R"].gen
    BY DEF AwaitedShadow
  <2>1. pc'["R"] = pc["R"] /\ Probed' = Probed
    BY <1>2 DEF OrdinaryStep, OrdinaryWaits, Probed
  <2> QED BY <2>1 DEF Pairing, AwaitedShadow
<1>8. CommittedPair'
  <2> SUFFICES ASSUME pc'["S"].ph = "ack", CommitUnderWay'
               PROVE  /\ Linked(qps', Current'.shadow.qp, Opposite'.active.qp)
                      /\ Opposite'.active.gen = pc'["S"].gen
    BY DEF CommittedPair
  <2>1. pc'["S"] = pc["S"]
    BY <1>2
  <2>2. Held(Current', pc'["S"])
    BY DEF SenderHolds, NothingNewerSent, NothingNewerAhead, CommitUnderWay
  <2>3. CommitUnderWay
    <3>1. CASE pc'["R"].ph = "rmark"
      BY <1>2, <3>1 DEF CommitUnderWay
    <3>2. ASSUME NEW i \in 1 .. Len(net'["S"]), net'["S"][i].type = "RecoveryAck", net'["S"][i].ok
          PROVE  CommitUnderWay
      <4>1. PICK j \in 1 .. Len(net["S"]) : net'["S"][i] = net["S"][j]
        BY <1>1, <1>3, <3>2 DEF HandshakeTypes
      <4> QED BY <3>2, <4>1 DEF CommitUnderWay
    <3> QED BY <3>1, <3>2 DEF CommitUnderWay
  <2>4. Linked(qps, Current.shadow.qp, Opposite.active.qp) /\ Opposite.active.gen = pc["S"].gen
    BY <2>1, <2>3 DEF Pairing, CommittedPair
  <2>5. /\ Current.shadow = Current'.shadow
        /\ qps'["S"][Current'.shadow.qp].dest = qps["S"][Current'.shadow.qp].dest
    <3>1. Current' = slots'["S"][pc["S"].plane]
      BY <1>4, <2>1
    <3>2. Current'.shadow.qp # NoQp
      BY <2>2 DEF Held
    <3>3. slots'["S"][pc["S"].plane].shadow.qp # NoQp
      BY <3>1, <3>2
    <3>4. /\ slots["S"][pc["S"].plane].shadow = slots'["S"][pc["S"].plane].shadow
          /\ qps'["S"][slots'["S"][pc["S"].plane].shadow.qp].dest
             = qps["S"][slots'["S"][pc["S"].plane].shadow.qp].dest
      BY <1>1, <1>4, <3>3, ShadowKept
    <3> QED BY <1>1, <3>1, <3>4
  <2>6. /\ Opposite.active = Opposite'.active
        /\ qps'["R"][Opposite'.active.qp].dest = qps["R"][Opposite'.active.qp].dest
    BY <1>1, <1>4, <2>1, ActiveKept
  <2> QED BY <2>1, <2>4, <2>5, <2>6 DEF Linked
<1> QED BY <1>5, <1>6, <1>7, <1>8 DEF Pairing

LEMMA SenderKeepsPairing ==
    ASSUME TypeOK, TypeOK', OneToken, TablesKnown, SlotsSeparate, SlotsSeparate',
           ShadowInRecovery, SenderInactive, SenderHolds, SenderHolds', Pairing, PairedActive,
           SenderHandshake
    PROVE  Pairing' /\ PairedActive'
<1> DEFINE p == pc["S"].plane
           g == pc["S"].gen
<1>1. /\ "S" \in Sides /\ "R" \in Sides /\ p \in Planes /\ g \in Nat
      /\ Current = slots["S"][p] /\ Opposite = slots["R"][p]
      /\ Current \in Slots(QpIds)
      /\ Current' = slots'["S"][pc'["S"].plane] /\ Opposite' = slots'["R"][pc'["S"].plane]
      /\ Probed' = slots'["R"][pc'["R"].plane] /\ Probed = slots["R"][pc["R"].plane]
      /\ pc'["R"] = pc["R"]
  BY StateTypes, SidesAndPlanes, SenderLeaves DEF Current, Opposite, Probed
<1>2. ASSUME NEW o \in Planes, NEW sl, NEW q, Move("S", o, sl, q)
      PROVE  /\ slots'["R"] = slots["R"] /\ qps'["R"] = qps["R"]
             /\ slots'["S"][o] = sl
             /\ \A i \in QpIds : i \in LiveQps(slots'["S"]) => qps'["S"][i] = q[i]
  BY <1>1, <1>2, MoveSlot
<1>3. ASSUME slots'["R"] = slots["R"] PROVE AwaitedShadow'
  BY <1>1, <1>3 DEF Pairing, AwaitedShadow
\* A sender that is in no handshake any more.
<1>4. ASSUME pc'["S"].ph \notin {"resp", "probe", "ack"}, slots'["R"] = slots["R"]
      PROVE  Pairing'
  BY <1>3, <1>4 DEF Pairing, AskedPair, ProbedPair, CommittedPair
<1>5. ASSUME NEW q, NEW sl, Move("S", p, sl, q), Loses(Current, sl),
             \A i \in QpIds : q[i].dest = qps["S"][i].dest
      PROVE  PairedActive'
  <2>1. OrdinarySlots
    BY <1>1, <1>5, InstallOrdinary DEF Move
  <2> QED BY <2>1, OrdinaryPaired
<1>6. ASSUME SenderGivesUp
      PROVE  PairedActive' /\ slots'["R"] = slots["R"]
  <2>1. PICK sl : Move("S", p, sl, qps["S"]) /\ GivesUp(Current, sl)
    BY <1>6 DEF SenderGivesUp
  <2> QED BY <1>1, <1>2, <1>5, <2>1 DEF GivesUp
<1>7. ASSUME NEW ph, NEW o, NEW n, GotoOn("S", ph, o, n)
      PROVE  pc'["S"] = [ph |-> ph, plane |-> o, gen |-> n]
  BY <1>1, <1>7 DEF GotoOn, TypeOK
<1>8. ASSUME NEW o \in Planes, RecoverStart(o)
      PROVE  Pairing' /\ PairedActive'
  <2> DEFINE n == table["S"][o].gen
  <2>1. pc["S"].ph \notin {"resp", "probe", "ack", "failed"}
    BY <1>8 DEF RecoverStart, MayRecover, BeforeReplay, In
  <2>2. slots["S"][o].shadow.qp = NoQp
    BY <2>1 DEF ShadowInRecovery
  <2>3. PICK sl : /\ Move("S", o, sl, qps["S"])
                  /\ Begins(slots["S"][o], sl, FreshQp("S"), n)
                  /\ Send("S", RecoveryReq(o, n, sl.shadow.qp))
    BY <1>8, <2>2, SenderMoves
  <2>4. pc'["S"] = [ph |-> "resp", plane |-> o, gen |-> n]
    BY <1>7, <1>8 DEF RecoverStart
  <2>5. NoTokens
    BY <2>1, TokenFacts
  <2>6. Current' = sl /\ sl.shadow.qp \in QpIds
    <3>1. FreshQp("S") \in QpIds
      BY <1>1, <1>8, FreshQpType DEF RecoverStart
    <3> QED BY <1>1, <1>2, <2>3, <2>4, <3>1 DEF Begins
  <2> DEFINE m == RecoveryReq(o, n, sl.shadow.qp)
  <2>7. m.qp = sl.shadow.qp /\ m.type = "RecoveryReq"
    BY DEF RecoveryReq
  <2>8. m \in Messages
    <3>1. n \in Nat
      BY <1>1, StateTypes DEF PlaneEntry
    <3> QED BY <2>6, <3>1, MessageTypes
  <2> HIDE DEF m
  <2>9. \A t \in Sides : \A i \in 1 .. Len(net'[t]) :
            net'[t][i].type \in HandshakeTypes => net'[t][i] = m
    <3>1. Send("S", m)
      BY <2>3 DEF m
    <3> QED BY <1>1, <2>5, <2>8, <3>1, OnlyNewToken
  <2>10. AskedPair'
    BY <1>1, <2>6, <2>7, <2>9 DEF AskedPair, HandshakeTypes
  <2>11. PairedActive'
    <3>1. sl.active = slots["S"][o].active /\ sl.state # "Active"
      BY <2>3 DEF Begins
    <3> QED BY <1>1, <2>3, <3>1, PairedMove
  <2>12. AwaitedShadow'
    BY <1>2, <1>3, <2>3
  <2> QED BY <2>4, <2>10, <2>11, <2>12 DEF Pairing, ProbedPair, CommittedPair
<1>9. CASE RecoverRefused \/ ProbeFailed
  <2>1. SenderGivesUp
    BY <1>9, SenderMoves
  <2>2. GotoOn("S", "recovered", p, 0)
    BY <1>9 DEF RecoverRefused, ProbeFailed, RecoverGiveUp
  <2>3. pc'["S"].ph = "recovered"
    BY <1>1, <2>2 DEF GotoOn, TypeOK
  <2> QED BY <1>4, <1>6, <2>1, <2>3
<1>10. CASE RecoverConnect
  <2> DEFINE m == Head(net["S"])
             x == Current.shadow.qp
  <2>1. PICK sl : /\ Move("S", p, sl, ConnectedQp("S", x, m.qp, g))
                  /\ Connects(Current, sl, g)
    BY <1>10, SenderMoves
  <2>2. /\ pc["S"].ph = "resp" /\ TokenFirst("S")
        /\ m.plane = p /\ m.gen = g /\ m.type = "RecoveryResp" /\ m.ok
        /\ x \in QpIds /\ m.qp \in QpIds
    BY <1>10, AnswerFirst, SenderMoves DEF RecoverConnect, Arrived
  <2>3. 1 \in 1 .. Len(net["S"]) /\ net["S"][1] = m
    BY <1>1, <2>2 DEF TokenFirst, TypeOK
  <2>4. pc'["S"] = [ph |-> "probe", plane |-> p, gen |-> g]
    BY <1>7, <1>10, <2>2 DEF RecoverConnect
  <2>5. /\ slots'["R"] = slots["R"] /\ qps'["R"] = qps["R"] /\ slots'["S"][p] = sl
        /\ x \in LiveQps(slots'["S"]) => qps'["S"][x].dest = m.qp
    <3> HIDE DEF x, m
    <3>1. ConnectedQp("S", x, m.qp, g)[x].dest = m.qp
      BY <1>1, <2>2, ConnectMoves
    <3>2. /\ slots'["R"] = slots["R"] /\ qps'["R"] = qps["R"] /\ slots'["S"][p] = sl
          /\ x \in LiveQps(slots'["S"]) => qps'["S"][x] = ConnectedQp("S", x, m.qp, g)[x]
      BY <1>1, <1>2, <2>1, <2>2
    <3> QED BY <3>1, <3>2
  <2>6. Current' = sl /\ sl.shadow.qp = x /\ Opposite' = Opposite
    <3>1. pc'["S"].plane = p
      BY <2>4
    <3>2. Current' = sl /\ Opposite' = Opposite
      BY <1>1, <2>5, <3>1
    <3>3. sl.shadow.qp = x
      BY <2>1 DEF Connects
    <3> QED BY <3>2, <3>3
  <2>7. x \in LiveQps(slots'["S"])
    BY <1>1, <2>2, <2>5, <2>6, EndpointsLivePrimed, SidesAndPlanes
  <2>8. ASSUME HasShadow(Opposite, g)
        PROVE  Linked(qps', x, Opposite.shadow.qp)
    <3>1. Opposite.shadow.qp = m.qp /\ qps["R"][Opposite.shadow.qp].dest = x
      BY <2>2, <2>3, <2>8 DEF Pairing, AskedPair
    <3> QED BY <2>5, <2>7, <3>1 DEF Linked
  <2>9. ProbedPair'
    BY <2>4, <2>6, <2>8 DEF ProbedPair
  <2>10. PairedActive'
    <3>1. sl.active = slots["S"][p].active /\ sl.state # "Active"
      BY <1>1, <2>1 DEF Connects
    <3>2. \A a \in Planes : x # slots["S"][a].active.qp
      BY <1>1, <2>2, EndpointsLive, SidesAndPlanes
    <3>3. Move("S", p, sl, ConnectedQp("S", x, m.qp, g)) /\ x \in QpIds /\ m.qp \in QpIds
      BY <2>1, <2>2
    <3> HIDE DEF m, x, p, g
    <3> QED BY <1>1, <3>1, <3>2, <3>3, PairedConnect
  <2>11. AwaitedShadow'
    BY <1>3, <2>5
  <2> QED BY <2>4, <2>9, <2>10, <2>11 DEF Pairing, AskedPair, CommittedPair
<1>11. CASE ProbeOk
  <2> DEFINE sl == RecordProbe(Current, "send", g, TRUE)
             q == Popped("S", Current.shadow)
  <2>1. /\ Move("S", p, sl, q) /\ pc["S"].ph = "probe"
        /\ \A i \in QpIds : q[i].dest = qps["S"][i].dest
    BY <1>11, SenderMoves DEF ProbeOk, In
  <2>2. Loses(Current, sl)
    BY <1>1, OperatorsLose
  <2> HIDE DEF sl, q
  <2>3. OrdinarySlots
    BY <1>1, <2>1, <2>2, InstallOrdinary DEF Move
  <2>4. pc'["S"] = [ph |-> "ack", plane |-> p, gen |-> g]
    BY <1>7, <1>11 DEF ProbeOk
  <2>5. Current' = slots'["S"][p] /\ Opposite' = slots'["R"][p]
    BY <1>1, <2>4
  <2>6. ASSUME HasShadow(Opposite', g), HasShadow(Current', g)
        PROVE  Linked(qps', Current'.shadow.qp, Opposite'.shadow.qp)
    <3>1. /\ Current.shadow = Current'.shadow /\ Opposite.shadow = Opposite'.shadow
          /\ qps'["S"][Current'.shadow.qp].dest = qps["S"][Current'.shadow.qp].dest
          /\ qps'["R"][Opposite'.shadow.qp].dest = qps["R"][Opposite'.shadow.qp].dest
      BY <1>1, <2>3, <2>5, <2>6, ShadowKept DEF HasShadow
    <3>2. Linked(qps, Current.shadow.qp, Opposite.shadow.qp)
      BY <2>1, <2>6, <3>1 DEF Pairing, ProbedPair, HasShadow
    <3> QED BY <3>1, <3>2 DEF Linked
  <2>7. ProbedPair'
    BY <2>4, <2>6 DEF ProbedPair
  <2>8. ~CommitUnderWay'
    <3>1. ~HandshakeTimeout
      BY <2>1 DEF HandshakeTimeout, In
    <3>2. /\ pc["R"].ph \notin {"rprobe", "rmark"}
          /\ \A i \in 1 .. Len(net'["S"]) : net'["S"][i].type # "RecoveryAck"
      BY <1>1, <3>1, SenderLeaves DEF HandshakeTypes
    <3> QED BY <1>1, <3>2 DEF CommitUnderWay
  <2>9. AwaitedShadow'
    BY <1>2, <1>3, <2>1, <1>1
  <2>10. PairedActive'
    BY <2>3, OrdinaryPaired
  <2> QED BY <2>4, <2>7, <2>8, <2>9, <2>10 DEF Pairing, AskedPair, CommittedPair
<1>12. CASE RecvAck
  <2>1. CASE SenderGivesUp /\ pc'["S"].ph = "recovered"
    BY <1>4, <1>6, <2>1
  <2>2. CASE pc'["S"].ph = "mark" /\ \E sl : Move("S", p, sl, qps["S"]) /\ Commits(Current, sl)
    <3>1. PICK sl : Move("S", p, sl, qps["S"]) /\ Commits(Current, sl)
      BY <2>2
    <3> DEFINE m == Head(net["S"])
               x == Current.shadow.qp
    <3>2. /\ pc["S"].ph = "ack" /\ TokenFirst("S") /\ m.type = "RecoveryAck" /\ m.ok
      BY <1>12, AnswerFirst DEF RecvAck, Arrived
    <3>3. 1 \in 1 .. Len(net["S"]) /\ net["S"][1] = m
      BY <1>1, <3>2 DEF TokenFirst, TypeOK
    <3>4. CommitUnderWay
      BY <3>2, <3>3 DEF CommitUnderWay
    <3>5. Held(Current, pc["S"])
      BY <3>2, <3>3 DEF SenderHolds, NothingNewerAhead
    <3>6. Linked(qps, x, Opposite.active.qp) /\ Opposite.active.gen = g
      BY <3>2, <3>4 DEF Pairing, CommittedPair
    <3>7. /\ slots'["R"] = slots["R"] /\ qps'["R"] = qps["R"] /\ slots'["S"][p] = sl
          /\ \A i \in QpIds : i \in LiveQps(slots'["S"]) => qps'["S"][i] = qps["S"][i]
      BY <1>1, <1>2, <3>1
    <3>8. sl.active.qp = x /\ sl.active.gen = g
      BY <3>1, <3>5 DEF Commits, Held
    <3>9. x \in QpIds /\ x \in LiveQps(slots'["S"])
      BY <1>1, <3>7, <3>8, EndpointsLivePrimed
    <3>10. ASSUME NEW o \in Planes, o = p
           PROVE  PairedOn(o)'
      <4>1. slots'["S"][o].active.qp = x /\ slots'["S"][o].active.gen = g
        BY <3>7, <3>8, <3>10
      <4>2. slots'["R"][o].active = Opposite.active
        BY <1>1, <3>7, <3>10
      <4>3. Linked(qps', x, Opposite.active.qp)
        BY <3>6, <3>7, <3>9 DEF Linked
      <4> HIDE DEF p, g, x
      <4> QED BY <3>6, <4>1, <4>2, <4>3 DEF PairedOn
    <3>11. ASSUME NEW o \in Planes, o # p
           PROVE  PairedOn(o)'
      <4>1. PairedActive /\ Move("S", p, sl, qps["S"]) /\ "S" \in Sides /\ p \in Planes
        BY <1>1, <3>1
      <4>2. ASSUME NEW a \in Planes, Move("S", a, sl, qps["S"])
            PROVE  \A b \in Planes \ {a} : PairedOn(b)'
        BY <1>1, <4>2, PairedMove
      <4> QED BY <3>11, <4>1, <4>2
    <3>12. PairedActive'
      <4>1. \A o \in Planes : PairedOn(o)'
        BY <3>10, <3>11
      <4> QED BY <4>1 DEF PairedActive, PairedOn, Linked
    <3> QED BY <1>4, <2>2, <3>7, <3>12
  <2> QED BY <1>12, <2>1, <2>2, SenderMoves
<1>13. CASE MarkHealthyS
  <2>1. MarkRecovered("S") /\ UNCHANGED qps /\ GotoOn("S", "recovered", p, 0)
    BY <1>13 DEF MarkHealthyS
  <2>2. OrdinarySlots /\ slots'["R"] = slots["R"]
    BY <1>1, <2>1, MarkSeparate, MarkMoves
  <2>3. pc'["S"].ph = "recovered"
    BY <1>1, <2>1 DEF GotoOn, TypeOK
  <2> QED BY <1>4, <2>2, <2>3, OrdinaryPaired
<1>14. CASE HandshakeTimeout
  <2>1. UNCHANGED <<slots, qps>> /\ pc'["S"].ph = "failed"
    BY <1>1, <1>14 DEF HandshakeTimeout, Goto, At, TypeOK
  <2>2. PairedActive'
    BY <2>1 DEF PairedActive
  <2> QED BY <1>4, <2>1, <2>2
<1> QED BY <1>8, <1>9, <1>10, <1>11, <1>12, <1>13, <1>14 DEF SenderHandshake

LEMMA ReceiverKeepsPairing ==
    ASSUME TypeOK, TypeOK', OneToken, TablesKnown, TablesKnown', SlotsSeparate, SlotsSeparate',
           ReplacementsSound, SenderInactive, SenderHolds, SenderHolds', Pairing, PairedActive,
           ReceiverHandshake
    PROVE  Pairing' /\ PairedActive'
<1> DEFINE p == pc["S"].plane
           g == pc["S"].gen
<1>1. /\ "S" \in Sides /\ "R" \in Sides /\ p \in Planes /\ g \in Nat
      /\ pc["R"].plane \in Planes /\ pc["R"].gen \in Nat
      /\ pc'["S"] = pc["S"] /\ slots'["S"] = slots["S"] /\ Current' = Current
      /\ Current = slots["S"][p] /\ Opposite = slots["R"][p] /\ Opposite' = slots'["R"][p]
      /\ Probed' = slots'["R"][pc'["R"].plane] /\ Probed = slots["R"][pc["R"].plane]
  BY StateTypes, SidesAndPlanes, ReceiverLeaves DEF Current, Opposite, Probed
<1>2. \A o, sl, q : Move("R", o, sl, q) => qps'["S"] = qps["S"]
  <2>1. ASSUME NEW o, NEW sl, NEW q, Move("R", o, sl, q)
        PROVE  qps'["S"] = qps["S"]
    BY <1>1, <2>1 DEF Move, Install, TypeOK
  <2> QED BY <2>1
\* Steps that connect nothing: what the sender works on stays, or goes.
<1>3. ASSUME OrdinarySlots
      PROVE  PairedActive' /\ ProbedPair'
  <2>1. ASSUME HasShadow(Opposite', g), HasShadow(Current, g), pc["S"].ph \in {"probe", "ack"}
        PROVE  Linked(qps', Current.shadow.qp, Opposite'.shadow.qp)
    <3>1. /\ Opposite.shadow = Opposite'.shadow
          /\ qps'["S"][Current'.shadow.qp].dest = qps["S"][Current'.shadow.qp].dest
          /\ qps'["R"][Opposite'.shadow.qp].dest = qps["R"][Opposite'.shadow.qp].dest
      BY <1>1, <1>3, <2>1, ShadowKept DEF HasShadow
    <3>2. Linked(qps, Current.shadow.qp, Opposite.shadow.qp)
      BY <2>1, <3>1 DEF Pairing, ProbedPair, HasShadow
    <3> QED BY <1>1, <3>1, <3>2 DEF Linked
  <2>2. ProbedPair'
    BY <1>1, <2>1 DEF ProbedPair
  <2> QED BY <1>3, <2>2, OrdinaryPaired
<1>4. ASSUME NEW o \in Planes, NEW sl, GivesUp(slots["R"][o], sl), Move("R", o, sl, qps["R"])
      PROVE  OrdinarySlots
  BY <1>1, <1>4, InstallOrdinary DEF GivesUp, Move
<1>5. UNCHANGED <<slots, qps>> => OrdinarySlots
  BY QuietSlots
\* Refusals.
<1>6. ASSUME OrdinarySlots, pc'["R"].ph \notin {"rprobe", "rmark"},
             \A i \in 1 .. Len(net'["R"]) : net'["R"][i].type \notin HandshakeTypes,
             \A i \in 1 .. Len(net'["S"]) :
                 net'["S"][i].type \in {"RecoveryResp", "RecoveryAck"} => ~net'["S"][i].ok
      PROVE  Pairing' /\ PairedActive'
  <2>1. AskedPair'
    BY <1>6 DEF AskedPair, HandshakeTypes
  <2>2. AwaitedShadow' /\ CommittedPair'
    BY <1>6 DEF AwaitedShadow, CommittedPair, CommitUnderWay
  <2> QED BY <1>3, <1>6, <2>1, <2>2 DEF Pairing
<1>7. \A i \in 1 .. Len(net'["R"]) : net'["R"][i].type \notin HandshakeTypes
  BY <1>1, ReceiverLeaves
<1>8. ASSUME TokenFirst("R"), NEW m \in Messages, ReceiveAndSend("R", m)
      PROVE  \A i \in 1 .. Len(net'["S"]) : net'["S"][i].type \in HandshakeTypes => net'["S"][i] = m
  BY <1>1, <1>8, OnlyNewToken
<1>9. ASSUME NEW ready \in BOOLEAN, RecvRecoveryReq(ready)
      PROVE  Pairing' /\ PairedActive'
  <2> DEFINE m == Head(net["R"])
             old == slots["R"][m.plane]
             x == FreshQp("R")
  <2>1. /\ net["R"] # <<>> /\ m.type = "RecoveryReq"
        /\ m.plane \in Planes /\ m.gen \in Nat /\ m.qp \in QpIds
        /\ x \in QpIds /\ x \notin NamedQps("R")
        /\ \/ /\ \/ UNCHANGED <<slots, qps>>
                 \/ \E sl : Move("R", m.plane, sl, qps["R"]) /\ GivesUp(old, sl)
              /\ ReceiveAndSend("R", RecoveryResp(m.plane, m.gen, FALSE, NoQp))
           \/ /\ \E sl : /\ Move("R", m.plane, sl, ConnectedQp("R", x, m.qp, m.gen))
                         /\ Begins(old, sl, x, m.gen)
              /\ ReceiveAndSend("R", RecoveryResp(m.plane, m.gen, TRUE, x))
    BY <1>9, RequestMoves
  <2> HIDE DEF x
  <2>2. TokenFirst("R") /\ 1 \in 1 .. Len(net["R"]) /\ net["R"][1] = m
    BY <1>1, <2>1 DEF TokenFirst, HandshakeTypes, TypeOK
  <2>3. pc'["R"].ph \notin {"rprobe", "rmark"}
    <3>1. AfterHandle("R") /\ MayHandle("R")
      BY <1>9 DEF RecvRecoveryReq
    <3> QED BY <3>1, ReceiverPosition
  <2>4. pc["S"].ph = "failed" \/ (pc["S"].ph = "resp" /\ m.plane = p /\ m.gen = g)
    <3>1. pc["S"].ph = "failed" \/ Matches(m, pc["S"])
      BY <1>1, <2>2, TokenFacts
    <3> QED BY <2>1, <3>1 DEF Matches
  <2>5. CASE /\ \/ UNCHANGED <<slots, qps>>
                \/ \E sl : Move("R", m.plane, sl, qps["R"]) /\ GivesUp(old, sl)
             /\ ReceiveAndSend("R", RecoveryResp(m.plane, m.gen, FALSE, NoQp))
    <3>1. OrdinarySlots
      BY <1>4, <1>5, <2>1, <2>5
    <3> DEFINE n == RecoveryResp(m.plane, m.gen, FALSE, NoQp)
    <3>2. n \in Messages /\ ~n.ok
      BY <2>1, MessageTypes DEF RecoveryResp
    <3>3. ReceiveAndSend("R", n)
      BY <2>5
    <3> HIDE DEF n
    <3>4. \A i \in 1 .. Len(net'["S"]) :
             net'["S"][i].type \in {"RecoveryResp", "RecoveryAck"} => ~net'["S"][i].ok
      BY <1>8, <2>2, <3>2, <3>3 DEF HandshakeTypes
    <3> QED BY <1>6, <1>7, <2>3, <3>1, <3>4
  <2>6. CASE /\ \E sl : /\ Move("R", m.plane, sl, ConnectedQp("R", x, m.qp, m.gen))
                        /\ Begins(old, sl, x, m.gen)
             /\ ReceiveAndSend("R", RecoveryResp(m.plane, m.gen, TRUE, x))
    <3>1. PICK sl : /\ Move("R", m.plane, sl, ConnectedQp("R", x, m.qp, m.gen))
                    /\ Begins(old, sl, x, m.gen)
      BY <2>6
    <3> DEFINE n == RecoveryResp(m.plane, m.gen, TRUE, x)
    <3>2. n \in Messages /\ n.type = "RecoveryResp" /\ n.ok /\ n.qp = x
      <4>1. n.type = "RecoveryResp" /\ n.ok /\ n.qp = x
        BY DEF RecoveryResp
      <4> QED BY <2>1, <4>1, MessageTypes
    <3>3. ReceiveAndSend("R", n)
      BY <2>6
    <3> HIDE DEF n
    <3>4. \A i \in 1 .. Len(net'["S"]) : net'["S"][i].type \in HandshakeTypes => net'["S"][i] = n
      BY <1>8, <2>2, <3>2, <3>3
    <3>5. /\ slots'["R"][m.plane] = sl /\ x \in LiveQps(slots'["R"])
          /\ sl.shadow.qp = x /\ sl.active = old.active
      <4>1. slots'["R"][m.plane] = sl
        <5> HIDE DEF m, x, old
        <5> QED BY <1>1, <2>1, <3>1, MoveSlot
      <4>2. sl.shadow.qp = x /\ sl.active = old.active
        BY <3>1 DEF Begins
      <4> QED BY <1>1, <2>1, <4>1, <4>2, EndpointsLivePrimed, SidesAndPlanes
    <3>6. qps'["R"][x].dest = m.qp
      <4>1. qps'["R"][x] = ConnectedQp("R", x, m.qp, m.gen)[x]
        BY <1>1, <2>1, <3>1, <3>5, MoveSlot
      <4> QED BY <1>1, <2>1, <4>1, ConnectMoves
    <3>7. ASSUME NEW i \in 1 .. Len(net'["S"]), net'["S"][i].type = "RecoveryResp",
                 net'["S"][i].ok, pc["S"].ph = "resp"
          PROVE  /\ Opposite'.shadow.qp = net'["S"][i].qp
                 /\ qps'["R"][Opposite'.shadow.qp].dest = Current.shadow.qp
      <4>1. net'["S"][i] = n
        BY <3>4, <3>7 DEF HandshakeTypes
      <4>2. Opposite' = sl
        BY <1>1, <2>4, <3>5, <3>7
      <4>3. Held(Current', pc'["S"])
        BY <1>1, <3>7 DEF SenderHolds, NothingNewerAhead
      <4>4. HasShadow(Current, g)
        BY <1>1, <4>3 DEF Held, HasShadow
      <4>5. m.qp = Current.shadow.qp
        BY <2>1, <2>2, <3>7, <4>4 DEF Pairing, AskedPair
      <4> QED BY <3>2, <3>5, <3>6, <4>1, <4>2, <4>5
    <3>8. AskedPair'
      BY <1>1, <1>7, <3>7 DEF AskedPair, HandshakeTypes
    <3>9. PairedActive'
      <4>1. \A a \in Planes : x # slots["R"][a].active.qp
        <5>1. x \notin LiveQps(slots["R"])
          BY <2>1 DEF NamedQps
        <5> QED BY <1>1, <5>1, EndpointsLive
      <4>2. Move("R", m.plane, sl, ConnectedQp("R", x, m.qp, m.gen))
            /\ x \in QpIds /\ m.qp \in QpIds /\ m.plane \in Planes /\ m.gen \in Nat
        BY <2>1, <3>1
      <4>3. sl.active = slots["R"][m.plane].active /\ sl.state # "Active"
        BY <3>1, <3>5 DEF Begins
      <4> HIDE DEF m
      <4> QED BY <1>1, <4>1, <4>2, <4>3, PairedConnect
    <3>10. pc'["S"].ph \notin {"probe", "ack"}
      BY <1>1, <2>4
    <3> QED BY <2>3, <3>8, <3>9, <3>10 DEF Pairing, ProbedPair, AwaitedShadow, CommittedPair
  <2> QED BY <2>1, <2>5, <2>6
<1>10. CASE RecvRecoveryReady
  <2> DEFINE m == Head(net["R"])
             old == slots["R"][m.plane]
  <2>1. /\ net["R"] # <<>> /\ m.type = "RecoveryReady"
        /\ m.plane \in Planes /\ m.gen \in Nat
        /\ \/ /\ \/ UNCHANGED <<slots, qps>>
                 \/ \E sl : Move("R", m.plane, sl, qps["R"]) /\ GivesUp(old, sl)
              /\ ReceiveAndSend("R", RecoveryAck(m.plane, m.gen, FALSE))
              /\ pc'["R"].ph \notin {"rprobe", "rmark"}
           \/ /\ UNCHANGED <<slots, qps>> /\ Receive("R")
              /\ pc'["R"] = [ph |-> "rprobe", plane |-> m.plane, gen |-> m.gen]
              /\ old.shadow.qp # NoQp /\ old.shadow.gen = m.gen /\ old.probe.gen = m.gen
    BY <1>10, ReadyMoves
  <2>2. TokenFirst("R")
    BY <2>1 DEF TokenFirst, HandshakeTypes
  <2>3. CASE /\ \/ UNCHANGED <<slots, qps>>
                \/ \E sl : Move("R", m.plane, sl, qps["R"]) /\ GivesUp(old, sl)
             /\ ReceiveAndSend("R", RecoveryAck(m.plane, m.gen, FALSE))
             /\ pc'["R"].ph \notin {"rprobe", "rmark"}
    <3>1. OrdinarySlots
      BY <1>4, <1>5, <2>1, <2>3
    <3> DEFINE n == RecoveryAck(m.plane, m.gen, FALSE)
    <3>2. n \in Messages /\ ~n.ok
      BY <2>1, MessageTypes DEF RecoveryAck
    <3>3. ReceiveAndSend("R", n)
      BY <2>3
    <3> HIDE DEF n
    <3>4. \A i \in 1 .. Len(net'["S"]) :
             net'["S"][i].type \in {"RecoveryResp", "RecoveryAck"} => ~net'["S"][i].ok
      BY <1>8, <2>2, <3>2, <3>3 DEF HandshakeTypes
    <3> QED BY <1>6, <1>7, <2>3, <3>1, <3>4
  <2>4. CASE /\ UNCHANGED <<slots, qps>> /\ Receive("R")
             /\ pc'["R"] = [ph |-> "rprobe", plane |-> m.plane, gen |-> m.gen]
             /\ old.shadow.qp # NoQp /\ old.shadow.gen = m.gen /\ old.probe.gen = m.gen
    <3>1. PairedActive' /\ ProbedPair'
      BY <1>3, <1>5, <2>4
    <3>2. \A i \in 1 .. Len(net'["S"]) : net'["S"][i].type \notin HandshakeTypes
      BY <1>1, <2>2, <2>4, NoNewToken DEF NoTokens
    <3>3. AwaitedShadow'
      BY <1>1, <2>4 DEF AwaitedShadow, HasShadow
    <3>4. AskedPair'
      BY <1>7, <3>2 DEF AskedPair, HandshakeTypes
    <3>5. ~CommitUnderWay'
      BY <2>4, <3>2 DEF CommitUnderWay, HandshakeTypes
    <3>6. CommittedPair'
      BY <3>5 DEF CommittedPair
    <3> QED BY <3>1, <3>3, <3>4, <3>6 DEF Pairing
  <2> QED BY <2>1, <2>3, <2>4
<1>11. CASE CommitR
  <2> DEFINE o == pc["R"].plane
             x == Probed.shadow.qp
  <2>1. PICK sl, q : /\ Move("R", o, sl, q) /\ Commits(Probed, sl)
                     /\ \A i \in QpIds : q[i].dest = qps["R"][i].dest
    BY <1>11, ReceiverMoves
  <2>2. pc["R"].ph = "rprobe" /\ UNCHANGED net /\ GotoOn("R", "rmark", o, pc["R"].gen)
    BY <1>11 DEF CommitR, In
  <2>3. pc'["R"] = [ph |-> "rmark", plane |-> o, gen |-> pc["R"].gen]
    BY <1>1, <2>2, ReceiverPosition
  <2>4. NoTokens /\ (pc["S"].ph = "ack" => o = p /\ pc["R"].gen = g)
    BY <2>2, TokenFacts DEF ReceiverInStep
  <2>5. /\ slots'["R"][o] = sl
        /\ \A i \in QpIds : i \in LiveQps(slots'["R"]) => qps'["R"][i] = q[i]
        /\ qps'["S"] = qps["S"]
    BY <1>1, <1>2, <2>1, MoveSlot
  <2>6. /\ HasShadow(Probed, pc["R"].gen) /\ sl.active = Probed.shadow
        /\ sl.shadow.qp = NoQp
    BY <2>1, <2>2 DEF Pairing, AwaitedShadow, Commits, NoEndpoint
  <2>7. x \in QpIds /\ x \in LiveQps(slots'["R"])
    BY <1>1, <2>5, <2>6, EndpointsLivePrimed
  <2>8. qps'["R"][x].dest = qps["R"][x].dest
    BY <2>1, <2>5, <2>7
  <2>9. ASSUME pc["S"].ph = "ack"
        PROVE  Linked(qps', Current.shadow.qp, Opposite'.active.qp) /\ Opposite'.active.gen = g
    <3>1. Held(Current, pc["S"])
      BY <2>2, <2>9 DEF SenderHolds, NothingNewerSent
    <3>2. HasShadow(Current, g) /\ HasShadow(Opposite, g) /\ Opposite = Probed /\ Opposite' = sl
      BY <1>1, <2>4, <2>5, <2>6, <2>9, <3>1 DEF Held, HasShadow
    <3>3. Linked(qps, Current.shadow.qp, x)
      BY <2>9, <3>2 DEF Pairing, ProbedPair
    <3> QED BY <2>5, <2>6, <2>8, <3>2, <3>3 DEF Linked, HasShadow
  <2>10. CommittedPair'
    BY <1>1, <2>9 DEF CommittedPair
  <2>11. ProbedPair'
    <3>1. pc["S"].ph # "probe"
      BY <2>2, TokenFacts
    <3>2. pc["S"].ph = "ack" => Opposite'.shadow.qp = NoQp
      BY <1>1, <2>4, <2>5, <2>6
    <3> QED BY <1>1, <3>1, <3>2 DEF ProbedPair, HasShadow
  <2>12. AskedPair'
    <3>1. pc["S"].ph # "resp"
      BY <2>2 DEF OneToken
    <3> QED BY <1>1, <3>1 DEF AskedPair
  <2>13. PairedActive'
    <3>1. slots["R"][o] \in Slots(QpIds) /\ \A a \in Planes : slots["R"][a].active.qp \in QpIds
      BY <1>1, StateTypes, EndpointsLive
    <3>2. \A a \in Planes \ {o} : PairedOn(a)'
      BY <1>1, <2>1, <3>1, PairedMove
    <3>3. slots'["S"][o].state # "Active"
      BY <1>1, <2>2 DEF SenderInactive
    <3>4. \A a \in Planes : PairedOn(a)'
      BY <3>2, <3>3 DEF PairedOn
    <3> QED BY <3>4 DEF PairedActive, PairedOn, Linked
  <2> QED BY <2>3, <2>10, <2>11, <2>12, <2>13 DEF Pairing, AwaitedShadow
<1>12. CASE RProbeFailed \/ MarkHealthyR
  <2>1. OrdinarySlots /\ qps'["S"] = qps["S"]
    <3>1. CASE RProbeFailed
      <4>1. PICK sl : Move("R", pc["R"].plane, sl, qps["R"]) /\ GivesUp(Probed, sl)
        BY <3>1, ReceiverMoves
      <4> QED BY <1>1, <1>2, <1>4, <4>1
    <3>2. CASE MarkHealthyR
      BY <1>1, <3>2, MarkSeparate DEF MarkHealthyR
    <3> QED BY <1>12, <3>1, <3>2
  <2>2. pc["R"].ph \in {"rprobe", "rmark"} /\ (MarkHealthyR => pc["R"].ph = "rmark")
    BY <1>12 DEF RProbeFailed, MarkHealthyR, In
  <2>3. PICK ok \in BOOLEAN : /\ Send("R", RecoveryAck(pc["R"].plane, pc["R"].gen, ok))
                              /\ ok => MarkHealthyR
    BY <1>12 DEF RProbeFailed, MarkHealthyR, HealthyIfGenerationOK
  <2>4. pc'["R"].ph \notin {"rprobe", "rmark"}
    <3>1. Goto("R", "control")
      BY <1>12 DEF RProbeFailed, MarkHealthyR
    <3> QED BY <3>1, ReceiverPosition DEF At
  <2> DEFINE n == RecoveryAck(pc["R"].plane, pc["R"].gen, ok)
  <2>5. n \in Messages /\ n.type = "RecoveryAck" /\ n.ok = ok
    <3>1. n.type = "RecoveryAck" /\ n.ok = ok
      BY DEF RecoveryAck
    <3> QED BY <1>1, <3>1, MessageTypes
  <2>6. Send("R", n)
    BY <2>3
  <2> HIDE DEF n
  <2>7. NoTokens
    BY <2>2, TokenFacts
  <2>8. \A i \in 1 .. Len(net'["S"]) : net'["S"][i].type \in HandshakeTypes => net'["S"][i] = n
    BY <1>1, <2>5, <2>6, <2>7, OnlyNewToken
  <2>9. CASE ~ok
    <3>1. \A i \in 1 .. Len(net'["S"]) :
             net'["S"][i].type \in {"RecoveryResp", "RecoveryAck"} => ~net'["S"][i].ok
      BY <2>5, <2>8, <2>9 DEF HandshakeTypes
    <3> QED BY <1>6, <1>7, <2>1, <2>4, <3>1
  <2>10. CASE ok
    <3>1. pc["R"].ph = "rmark"
      BY <2>2, <2>3, <2>10
    <3>2. ASSUME pc["S"].ph = "ack"
          PROVE  Linked(qps', Current.shadow.qp, Opposite'.active.qp) /\ Opposite'.active.gen = g
      <4>1. Linked(qps, Current.shadow.qp, Opposite.active.qp) /\ Opposite.active.gen = g
        BY <3>1, <3>2 DEF Pairing, CommittedPair, CommitUnderWay
      <4>2. /\ Opposite.active = Opposite'.active
            /\ qps'["R"][Opposite'.active.qp].dest = qps["R"][Opposite'.active.qp].dest
        BY <1>1, <2>1, ActiveKept
      <4> QED BY <2>1, <4>1, <4>2 DEF Linked
    <3>3. CommittedPair'
      BY <1>1, <3>2 DEF CommittedPair
    <3>4. AskedPair'
      <4>1. pc["S"].ph # "resp"
        BY <3>1 DEF OneToken
      <4> QED BY <1>1, <4>1 DEF AskedPair
    <3> QED BY <1>3, <2>1, <2>4, <3>3, <3>4 DEF Pairing, AwaitedShadow
  <2> QED BY <2>9, <2>10
<1> QED BY <1>9, <1>10, <1>11, <1>12 DEF ReceiverHandshake

-----------------------------------------------------------------------------
\* The layers together.
RecoverySound ==
    /\ OneToken /\ SlotsSeparate
    /\ ShadowInRecovery /\ SenderInactive /\ SenderHolds
    /\ Pairing /\ PairedActive

LEMMA InitRecovery ==
    ASSUME Init
    PROVE  RecoverySound
<1>1. /\ \A s \in Sides : pc[s].ph = "idle" /\ net[s] = <<>>
      /\ "S" \in Sides /\ "R" \in Sides
  BY SidesAndPlanes DEF Init, At
<1>2. \A s \in Sides : \A p \in Planes :
         /\ slots[s][p].active.qp = p + 1 /\ slots[s][p].active.gen = 1
         /\ slots[s][p].shadow.qp = NoQp /\ {e.qp : e \in slots[s][p].retired} = {}
  <2>1. ASSUME NEW s \in Sides, NEW p \in Planes
        PROVE  /\ slots[s][p].active.qp = p + 1 /\ slots[s][p].active.gen = 1
               /\ slots[s][p].shadow.qp = NoQp /\ {e.qp : e \in slots[s][p].retired} = {}
    <3>1. /\ slots[s][p].active = [qp |-> p + 1, gen |-> 1, ready |-> TRUE]
          /\ slots[s][p].shadow = NoEndpoint /\ slots[s][p].retired = {}
      BY DEF Init
    <3>2. {e.qp : e \in slots[s][p].retired} = {}
      BY <3>1
    <3> QED BY <3>1, <3>2 DEF NoEndpoint
  <2> QED BY <2>1
<1>3. \A s \in Sides : \A i \in QpIds :
         qps[s][i] = IF i <= NPlanes THEN [NullQp EXCEPT !.dest = i] ELSE NullQp
  BY DEF Init
<1>4. \A p \in Planes : p \in Nat /\ p < NPlanes /\ p + 1 \in QpIds /\ p + 1 # NoQp
  BY DpfrCommAssumption DEF Planes, QpIds, NoQp
<1>5. OneToken
  BY <1>1 DEF OneToken
<1>6. SlotsSeparate
  <2>1. \A s \in Sides : \A p \in Planes : QpsOf(slots[s][p]) = {p + 1}
    BY <1>2, <1>4 DEF QpsOf
  <2>2. \A s \in Sides : \A p \in Planes : SeparateSlot(slots[s][p])
    BY <1>2, <1>4 DEF SeparateSlot, SlotQps
  <2>3. \A s \in Sides : \A p, o \in Planes :
           p # o => QpsOf(slots[s][p]) \cap QpsOf(slots[s][o]) = {}
    BY <1>4, <2>1
  <2>4. ASSUME NEW s \in Sides, NEW i \in QpIds, i \notin LiveQps(slots[s])
        PROVE  qps[s][i] = NullQp
    <3>1. ~(i <= NPlanes)
      <4>1. ASSUME i <= NPlanes PROVE FALSE
        <5>1. i - 1 \in Planes /\ i = (i - 1) + 1
          BY <4>1, DpfrCommAssumption DEF Planes, QpIds
        <5>2. i \in QpsOf(slots[s][i - 1])
          BY <2>1, <5>1
        <5> QED BY <2>4, <5>1, <5>2 DEF LiveQps
      <4> QED BY <4>1
    <3> QED BY <1>3, <3>1
  <2> QED BY <2>2, <2>3, <2>4 DEF SlotsSeparate
<1>7. ShadowInRecovery /\ SenderInactive
  BY <1>1, <1>2 DEF ShadowInRecovery, SenderInactive
<1>8. SenderHolds
  BY <1>1 DEF SenderHolds, ShadowOrNews, NothingNewerSent, NothingNewerAhead
<1>9. Pairing
  BY <1>1 DEF Pairing, AskedPair, ProbedPair, AwaitedShadow, CommittedPair
<1>10. PairedActive
  <2>1. ASSUME NEW p \in Planes
        PROVE  PairedOn(p)
    <3>1. p + 1 \in QpIds /\ p + 1 <= NPlanes
      BY <1>4, DpfrCommAssumption
    <3>2. \A s \in Sides : qps[s][p + 1].dest = p + 1
      BY <1>3, <3>1 DEF NullQp
    <3> QED BY <1>1, <1>2, <3>2 DEF PairedOn, Linked
  <2> QED BY <2>1, PairedPlanes
<1> QED BY <1>5, <1>6, <1>7, <1>8, <1>9, <1>10 DEF RecoverySound

LEMMA NextRecovery ==
    ASSUME TypeOK, TypeOK', TablesKnown, ReplacementsSound, RecoverySound, [Next]_vars
    PROVE  RecoverySound'
<1>1. CASE Next
  <2>1. TablesKnown' /\ TableGrows
    BY <1>1, FabricKnown, MonitorsKnown, ControlKnown, SenderKnown, ReceiverKnown, CallsKnown
       DEF Next, TableStep
  <2>2. OneToken /\ SlotsSeparate /\ ShadowInRecovery /\ SenderInactive /\ SenderHolds
        /\ Pairing /\ PairedActive
    BY DEF RecoverySound
  <2>3. CASE OrdinaryStep
    <3>1. OneToken' /\ SlotsSeparate'
      BY <2>2, <2>3, OrdinaryToken, OrdinarySeparate DEF OrdinaryStep
    <3>2. ShadowInRecovery' /\ SenderInactive' /\ SenderHolds'
      BY <2>1, <2>2, <2>3, OrdinaryInactive, OrdinaryHolds
    <3>3. Pairing' /\ PairedActive'
      BY <2>2, <2>3, <3>1, <3>2, OrdinaryPairing, OrdinaryPaired DEF OrdinaryStep
    <3> QED BY <3>1, <3>2, <3>3 DEF RecoverySound
  <2>4. CASE SenderHandshake
    <3>1. OneToken' /\ SlotsSeparate'
      BY <2>2, <2>4, SenderToken, SenderSeparate
    <3>2. ShadowInRecovery' /\ SenderInactive' /\ SenderHolds'
      BY <2>1, <2>2, <2>4, SenderKeepsInactive, SenderKeepsHolding
    <3>3. Pairing' /\ PairedActive'
      BY <2>2, <2>4, <3>1, <3>2, SenderKeepsPairing
    <3> QED BY <3>1, <3>2, <3>3 DEF RecoverySound
  <2>5. CASE ReceiverHandshake
    <3>1. OneToken' /\ SlotsSeparate'
      BY <2>2, <2>5, ReceiverToken, ReceiverSeparate
    <3>2. ShadowInRecovery' /\ SenderInactive' /\ SenderHolds'
      BY <2>1, <2>2, <2>5, ReceiverKeepsInactive, ReceiverKeepsHolding
    <3>3. Pairing' /\ PairedActive'
      BY <2>1, <2>2, <2>5, <3>1, <3>2, ReceiverKeepsPairing
    <3> QED BY <3>1, <3>2, <3>3 DEF RecoverySound
  <2> QED BY <1>1, <2>2, <2>3, <2>4, <2>5, NextOrdinary
<1>2. CASE UNCHANGED vars
  <2>1. Current' = Current /\ Probed' = Probed /\ Opposite' = Opposite
    BY <1>2 DEF vars, Current, Probed, Opposite
  <2>2. OneToken' /\ SlotsSeparate'
    BY <1>2 DEF vars, RecoverySound, OneToken, SlotsSeparate
  <2>3. ShadowInRecovery' /\ SenderInactive' /\ SenderHolds'
    BY <1>2, <2>1 DEF vars, RecoverySound, ShadowInRecovery, SenderInactive, SenderHolds,
                      ShadowOrNews, NothingNewerSent, NothingNewerAhead
  <2>4. Pairing'
    BY <1>2, <2>1 DEF vars, RecoverySound, Pairing, AskedPair, ProbedPair, AwaitedShadow,
                      CommittedPair, CommitUnderWay, HasShadow, Linked
  <2>5. PairedActive'
    BY <1>2 DEF vars, RecoverySound, PairedActive
  <2> QED BY <2>2, <2>3, <2>4, <2>5 DEF RecoverySound
<1> QED BY <1>1, <1>2

LEMMA RecoveryStaysSound == Spec => []RecoverySound
<1>1. TypeOK /\ TypeOK' /\ TablesKnown /\ ReplacementsSound /\ RecoverySound /\ [Next]_vars
        => RecoverySound'
  BY NextRecovery
<1>2. Init => RecoverySound
  BY InitRecovery
<1> QED BY <1>1, <1>2, ConnectionTypes, CarriedIsReached, ReplacementStaysSound, PTL DEF Spec

\* A positive answer of the receiver finds the sender's shadow: no plane event
\* that could destroy it is handled between the request and the answer.
THEOREM AnswersFindShadow == Spec => []AnswerFindsShadow
<1>1. TypeOK /\ RecoverySound => AnswerFindsShadow
  <2> DEFINE m == Head(net["S"])
  <2>1. SUFFICES ASSUME TypeOK, RecoverySound, net["S"] # <<>>,
                        m.type \in {"RecoveryResp", "RecoveryAck"}, Awaited("S", m), m.ok
                 PROVE  /\ Current.shadow.qp # NoQp /\ Current.shadow.gen = m.gen
                        /\ (m.type = "RecoveryAck" => CanCommit(Current, m.gen))
    BY DEF AnswerFindsShadow
  <2>2. 1 \in 1 .. Len(net["S"]) /\ net["S"][1] = m
    BY <2>1, SidesAndPlanes DEF TypeOK
  <2>3. /\ pc["S"].ph \in {"resp", "ack"} /\ m.gen = pc["S"].gen
        /\ m.type = "RecoveryAck" => pc["S"].ph = "ack"
    BY <2>1 DEF Awaited, In
  <2>4. Held(Current, pc["S"])
    BY <2>1, <2>2, <2>3 DEF RecoverySound, SenderHolds, NothingNewerAhead
  <2> QED BY <2>3, <2>4 DEF Held, CanCommit
<1> QED BY <1>1, ConnectionTypes, RecoveryStaysSound, PTL

\* The handshake never commits two ends of different attempts, and the receiver
\* never retires an end that the sender still posts to.
THEOREM ActiveStaysPaired == Spec => []PairedActive
<1>1. RecoverySound => PairedActive
  BY DEF RecoverySound
<1> QED BY <1>1, RecoveryStaysSound, PTL

-----------------------------------------------------------------------------
\* The probe.  A queue pair that is no shadow has none in its queues.
NoProbes(q) == \A i \in 1 .. Len(q) : ~q[i].probe

NoProbe(qp) == NoProbes(qp.sq) /\ NoProbes(qp.rq) /\ NoProbes(qp.cq)

Quiet(qp) == qp.sq = <<>> /\ qp.rq = <<>> /\ qp.cq = <<>>

ProbeDone(g, ok) == [probe |-> TRUE, gen |-> g, ok |-> ok]

\* The receiver's half of it has been posted, ...
ProbePosted(slot, qp) ==
    /\ qp.sq = <<>> /\ qp.rq = <<ProbeRequest(slot.shadow.gen)>> /\ qp.cq = <<>>
    /\ slot.probe.gen = slot.shadow.gen /\ ~slot.probe.failed /\ ~slot.probe.recvDone

\* ... has been received, which the slot knows when its completion was polled, ...
ProbeArrived(slot, qp) ==
    /\ qp.sq = <<>> /\ qp.rq = <<>>
    /\ slot.probe.gen = slot.shadow.gen /\ ~slot.probe.failed
    /\ qp.cq = IF slot.probe.recvDone THEN <<>> ELSE <<ProbeDone(slot.shadow.gen, TRUE)>>

\* ... or was lost with the queue pair.
ProbeLost(slot, qp) ==
    /\ qp.sq = <<>> /\ qp.rq = <<>>
    /\ qp.cq = <<>> \/ qp.cq = <<ProbeDone(slot.shadow.gen, FALSE)>>

ProbeStage(slot, qp) == ProbePosted(slot, qp) \/ ProbeArrived(slot, qp) \/ ProbeLost(slot, qp)

ProbeStages ==
    \A p \in Planes : slots["R"][p].shadow.qp # NoQp =>
        ProbeStage(slots["R"][p], qps["R"][slots["R"][p].shadow.qp])

IsShadow(sl, i) == \E p \in Planes : sl[p].shadow.qp = i

ProbeFree == \A i \in QpIds : IsShadow(slots["R"], i) \/ NoProbe(qps["R"][i])

\* The receiver's shadow of plane p, if still there for g, has its probe.
ArrivedAt(sl, Q, p, g) == HasShadow(sl[p], g) => ProbeArrived(sl[p], Q[sl[p].shadow.qp])

\* The sender's half is one request or one completion, ...
OneProbe(qp) == qp.rq = <<>> /\ Len(qp.sq) + Len(qp.cq) = 1

\* ... which has reached the receiver's half.
Carried(qp) == (qp.sq # <<>> /\ Head(qp.sq).sent) \/ (qp.cq # <<>> /\ Head(qp.cq).ok)

SenderProbe ==
    /\ pc["S"].ph = "resp" /\ Current.shadow.qp # NoQp => Quiet(qps["S"][Current.shadow.qp])
    /\ pc["S"].ph = "probe" =>
          LET y == qps["S"][Current.shadow.qp]
          IN /\ OneProbe(y)
             /\ Carried(y) => ArrivedAt(slots["R"], qps["R"], pc["S"].plane, pc["S"].gen)

\* So it has for whom Ready was said, and while the receiver waits for it.
ReadyProbe ==
    /\ \A i \in 1 .. Len(net["R"]) : net["R"][i].type = "RecoveryReady" =>
          ArrivedAt(slots["R"], qps["R"], net["R"][i].plane, net["R"][i].gen)
    /\ pc["R"].ph = "rprobe" =>
          ArrivedAt(slots["R"], qps["R"], pc["R"].plane, pc["R"].gen)

ProbeSound == ProbeStages /\ ProbeFree /\ SenderProbe /\ ReadyProbe

LEMMA NoProbesKept ==
    ASSUME NEW T, NEW q \in Seq(T), NoProbes(q)
    PROVE  /\ q # <<>> => NoProbes(Tail(q)) /\ ~Head(q).probe
           /\ \A c \in T : ~c.probe => NoProbes(Append(q, c))
<1>1. ASSUME q # <<>>
      PROVE  NoProbes(Tail(q)) /\ ~Head(q).probe
  <2>1. Head(q) = q[1] /\ 1 \in 1 .. Len(q)
    BY <1>1
  <2>2. \A i \in 1 .. Len(Tail(q)) : i + 1 \in 1 .. Len(q) /\ Tail(q)[i] = q[i + 1]
    BY <1>1
  <2> QED BY <2>1, <2>2 DEF NoProbes
<1>2. ASSUME NEW c \in T, ~c.probe
      PROVE  NoProbes(Append(q, c))
  <2>1. /\ Len(Append(q, c)) = Len(q) + 1
        /\ \A i \in 1 .. Len(q) + 1 : Append(q, c)[i] = IF i = Len(q) + 1 THEN c ELSE q[i]
    OBVIOUS
  <2>2. \A i \in 1 .. Len(q) + 1 : ~Append(q, c)[i].probe
    BY <1>2, <2>1 DEF NoProbes
  <2> QED BY <2>1, <2>2 DEF NoProbes
<1> QED BY <1>1, <1>2

LEMMA NullHasNoProbe == NoProbe(NullQp) /\ Quiet(NullQp)
  BY DEF NoProbe, NoProbes, NullQp, Quiet

\* Posting data, polling and flushing bring no probe into the queues.
LEMMA PostNoProbe ==
    ASSUME NEW qp \in QpRecords, NoProbe(qp), NEW s \in Sides, NEW w \in WorkRequests, ~w.probe
    PROVE  NoProbe(PostTo(qp, s, w))
<1>1. /\ qp.sq \in Seq(WorkRequests) /\ qp.rq \in Seq(WorkRequests) /\ qp.cq \in Seq(Completions)
  BY DEF QpRecords
<1>2. /\ NoProbes(Append(qp.sq, w)) /\ NoProbes(Append(qp.rq, w))
      /\ NoProbes(Append(qp.cq, Completion(w, FALSE)))
  <2>1. Completion(w, FALSE) \in Completions /\ ~Completion(w, FALSE).probe
    BY DEF Completion, Completions, WorkRequests
  <2> QED BY <1>1, <2>1, NoProbesKept DEF NoProbe
<1> DEFINE a == Append(qp.sq, w)
           b == Append(qp.rq, w)
           c == Append(qp.cq, Completion(w, FALSE))
<1>3. PostTo(qp, s, w) \in {[qp EXCEPT !.cq = c], [qp EXCEPT !.sq = a], [qp EXCEPT !.rq = b]}
  BY DEF PostTo
<1> HIDE DEF a, b, c
<1> QED BY <1>2, <1>3 DEF NoProbe, QpRecords, a, b, c

LEMMA FlushNoProbe ==
    ASSUME NEW qp \in QpRecords, NoProbe(qp)
    PROVE  NoProbe(Flushed(qp))
<1> DEFINE all == qp.sq \o qp.rq
           failures == [i \in DOMAIN all |-> Completion(all[i], FALSE)]
<1>1. /\ qp.sq \in Seq(WorkRequests) /\ qp.rq \in Seq(WorkRequests) /\ qp.cq \in Seq(Completions)
  BY DEF QpRecords
<1>2. \A i \in 1 .. Len(all) : ~all[i].probe
  <2>1. /\ Len(all) = Len(qp.sq) + Len(qp.rq)
        /\ \A i \in 1 .. Len(qp.sq) + Len(qp.rq) :
              all[i] = IF i <= Len(qp.sq) THEN qp.sq[i] ELSE qp.rq[i - Len(qp.sq)]
    BY <1>1, ConcatProperties
  <2> HIDE DEF all
  <2>2. Len(qp.sq) \in Nat /\ Len(qp.rq) \in Nat
    BY <1>1, LenProperties
  <2>3. ASSUME NEW i \in 1 .. Len(all)
        PROVE  ~all[i].probe
    <3> DEFINE n == Len(qp.sq)
               k == Len(qp.rq)
    <3>1. i \in 1 .. n + k /\ all[i] = IF i <= n THEN qp.sq[i] ELSE qp.rq[i - n]
      BY <2>1, <2>3
    <3>2. (\A j \in 1 .. n : ~qp.sq[j].probe) /\ (\A j \in 1 .. k : ~qp.rq[j].probe)
      BY DEF NoProbe, NoProbes
    <3>0. n \in Nat /\ k \in Nat
      BY <2>2
    <3> HIDE DEF n, k
    <3>3. CASE i <= n
      BY <3>0, <3>1, <3>2, <3>3
    <3>4. CASE ~(i <= n)
      <4>1. i - n \in 1 .. k
        BY <3>0, <3>1, <3>4
      <4> QED BY <3>1, <3>2, <3>4, <4>1
    <3> QED BY <3>3, <3>4
  <2> QED BY <2>3
<1>3. all \in Seq(WorkRequests) /\ DOMAIN all = 1 .. Len(all) /\ Len(all) \in Nat
  BY <1>1, ConcatProperties, LenProperties
<1> HIDE DEF all
<1>4. \A i \in 1 .. Len(all) : /\ all[i] \in WorkRequests
                                /\ Completion(all[i], FALSE) \in Completions
                                /\ ~Completion(all[i], FALSE).probe
  <2>1. \A w \in WorkRequests : /\ Completion(w, FALSE) \in Completions
                               /\ Completion(w, FALSE).probe = w.probe
    BY DEF Completion, Completions, WorkRequests
  <2>2. \A i \in 1 .. Len(all) : all[i] \in WorkRequests
    BY <1>3, ElementOfSeq
  <2> QED BY <1>2, <2>1, <2>2
<1>5. failures \in Seq(Completions) /\ NoProbes(failures)
  <2>1. failures \in [1 .. Len(all) -> Completions]
    BY <1>3, <1>4
  <2>3. DOMAIN failures = 1 .. Len(all)
        /\ \A i \in 1 .. Len(all) : failures[i] = Completion(all[i], FALSE)
    BY <1>3
  <2> HIDE DEF failures
  <2>2. failures \in Seq(Completions) /\ Len(failures) = Len(all)
    BY <1>3, <2>1, <2>3, SequenceOfLength, LenProperties
  <2> QED BY <1>4, <2>2, <2>3 DEF NoProbes
<1>6. Flushed(qp) = [qp EXCEPT !.err = TRUE, !.sq = <<>>, !.rq = <<>>, !.cq = qp.cq \o failures]
  BY DEF Flushed, all
<1> HIDE DEF failures
<1>7. NoProbes(qp.cq \o failures)
  <2>1. /\ Len(qp.cq \o failures) = Len(qp.cq) + Len(failures)
        /\ \A i \in 1 .. Len(qp.cq) + Len(failures) :
              (qp.cq \o failures)[i] = IF i <= Len(qp.cq) THEN qp.cq[i] ELSE failures[i - Len(qp.cq)]
    BY <1>1, <1>5, ConcatProperties
  <2>2. Len(qp.cq) \in Nat /\ Len(failures) \in Nat
    BY <1>1, <1>5, LenProperties
  <2> QED BY <1>5, <2>1, <2>2 DEF NoProbe, NoProbes
<1>8. NoProbes(<<>>)
  BY DEF NoProbes
<1> QED BY <1>6, <1>7, <1>8 DEF NoProbe, QpRecords

-----------------------------------------------------------------------------
\* A shadow that a step takes away is gone with its queues.
LEMMA LostShadow ==
    ASSUME TypeOK, TypeOK', SlotsSeparate, OrdinarySlots, NEW i \in QpIds,
           IsShadow(slots["R"], i), ~IsShadow(slots'["R"], i)
    PROVE  qps'["R"][i] = NullQp
<1>1. "R" \in Sides /\ i # NoQp
  BY SidesAndPlanes, DpfrCommAssumption DEF QpIds, NoQp
<1>2. PICK p \in Planes : slots["R"][p].shadow.qp = i
  BY DEF IsShadow
<1>3. slots'["R"][p].shadow.qp # i
  BY DEF IsShadow
<1>4. ASSUME NEW o \in Planes, i \in QpsOf(slots'["R"][o])
      PROVE  FALSE
  <2>1. /\ slots["R"][o] \in Slots(QpIds) /\ slots'["R"][o] \in Slots(QpIds)
        /\ Loses(slots["R"][o], slots'["R"][o])
    BY <1>1 DEF TypeOK, OrdinarySlots
  <2>2. i \in QpsOf(slots["R"][o])
    BY <1>4, <2>1, LosesSeparate
  <2>3. i \in QpsOf(slots["R"][p])
    BY <1>1, <1>2 DEF QpsOf
  <2>4. o = p
    BY <1>1, <2>2, <2>3 DEF SlotsSeparate
  <2>5. i \in SlotQps(slots'["R"][p])
    BY <1>3, <1>4, <2>4 DEF QpsOf, SlotQps
  <2>6. i \in SlotQps(slots["R"][p])
    BY <2>1, <2>4, <2>5 DEF SlotQps, Loses, Keeps
  <2>7. SeparateSlot(slots["R"][p])
    BY <1>1 DEF SlotsSeparate
  <2> QED BY <1>1, <1>2, <2>6, <2>7 DEF SeparateSlot
<1>5. i \notin LiveQps(slots'["R"])
  BY <1>4 DEF LiveQps
<1> QED BY <1>1, <1>5 DEF OrdinarySlots

LEMMA StageDepends ==
    ASSUME NEW slot, NEW sl, NEW qp, sl.shadow = slot.shadow, sl.probe = slot.probe
    PROVE  /\ ProbeStage(slot, qp) <=> ProbeStage(sl, qp)
           /\ ProbeArrived(slot, qp) <=> ProbeArrived(sl, qp)
  BY DEF ProbeStage, ProbePosted, ProbeArrived, ProbeLost

KeepsArrived ==
    \A p \in Planes : \A g :
        ArrivedAt(slots["R"], qps["R"], p, g) => ArrivedAt(slots'["R"], qps'["R"], p, g)

\* A step that spares the probes leaves the queues of a shadow alone, and the
\* other queues of an end get none.
ReceiverSpared ==
    /\ \A p \in Planes : slots'["R"][p].shadow.qp # NoQp =>
          /\ slots'["R"][p].probe = slots["R"][p].probe
          /\ qps'["R"][slots'["R"][p].shadow.qp] = qps["R"][slots'["R"][p].shadow.qp]
    /\ \A i \in QpIds : i \in LiveQps(slots'["R"]) /\ NoProbe(qps["R"][i]) => NoProbe(qps'["R"][i])

SenderSpared ==
    pc["S"].ph \in {"resp", "probe"} =>
        \A i \in QpIds : i \in LiveQps(slots'["S"]) => qps'["S"][i] = qps["S"][i]

LEMMA SparedProbes ==
    ASSUME TypeOK, TypeOK', SlotsSeparate, OrdinarySlots, ReceiverSpared, ProbeStages, ProbeFree
    PROVE  ProbeStages' /\ ProbeFree' /\ KeepsArrived
<1>1. ASSUME NEW p \in Planes, slots'["R"][p].shadow.qp # NoQp
      PROVE  /\ slots'["R"][p].shadow = slots["R"][p].shadow
             /\ slots'["R"][p].probe = slots["R"][p].probe
             /\ qps'["R"][slots'["R"][p].shadow.qp] = qps["R"][slots["R"][p].shadow.qp]
  BY <1>1, SidesAndPlanes DEF OrdinarySlots, Loses, Keeps, ReceiverSpared
<1>2. ProbeStages'
  <2> SUFFICES ASSUME NEW p \in Planes, slots'["R"][p].shadow.qp # NoQp
               PROVE  ProbeStage(slots'["R"][p], qps'["R"][slots'["R"][p].shadow.qp])
    BY DEF ProbeStages
  <2>1. ProbeStage(slots["R"][p], qps["R"][slots["R"][p].shadow.qp])
    BY <1>1 DEF ProbeStages
  <2> QED BY <1>1, <2>1, StageDepends
<1>3. KeepsArrived
  <2> SUFFICES ASSUME NEW p \in Planes, NEW g, ArrivedAt(slots["R"], qps["R"], p, g),
                      HasShadow(slots'["R"][p], g)
               PROVE  ProbeArrived(slots'["R"][p], qps'["R"][slots'["R"][p].shadow.qp])
    BY DEF KeepsArrived, ArrivedAt
  <2>1. slots'["R"][p].shadow.qp # NoQp
    BY DEF HasShadow
  <2>2. ProbeArrived(slots["R"][p], qps["R"][slots["R"][p].shadow.qp])
    BY <1>1, <2>1 DEF ArrivedAt, HasShadow
  <2> QED BY <1>1, <2>1, <2>2, StageDepends
<1>4. ProbeFree'
  <2> SUFFICES ASSUME NEW i \in QpIds, ~IsShadow(slots'["R"], i)
               PROVE  NoProbe(qps'["R"][i])
    BY DEF ProbeFree
  <2>1. CASE IsShadow(slots["R"], i)
    BY <2>1, LostShadow, NullHasNoProbe
  <2>2. CASE i \notin LiveQps(slots'["R"])
    BY <2>2, NullHasNoProbe, SidesAndPlanes DEF OrdinarySlots
  <2>3. CASE ~IsShadow(slots["R"], i) /\ i \in LiveQps(slots'["R"])
    BY <2>3 DEF ProbeFree, ReceiverSpared
  <2> QED BY <2>1, <2>2, <2>3
<1> QED BY <1>2, <1>3, <1>4

LEMMA OrdinaryReady ==
    ASSUME TypeOK, TypeOK', ReadyProbe, OrdinaryStep, KeepsArrived
    PROVE  ReadyProbe'
<1>1. "R" \in Sides /\ pc["R"].plane \in Planes
      /\ (pc'["R"] = pc["R"] \/ pc'["R"].ph # "rprobe")
  BY StateTypes, SidesAndPlanes DEF OrdinaryStep, OrdinaryPositions, HandshakePhases
<1>2. ASSUME NEW i \in 1 .. Len(net'["R"]), net'["R"][i].type = "RecoveryReady"
      PROVE  ArrivedAt(slots'["R"], qps'["R"], net'["R"][i].plane, net'["R"][i].gen)
  <2>1. PICK k \in [Sides -> 0 .. 1] : \A t \in Sides : \A j \in 1 .. Len(net'[t]) :
            Remains(k, t, j) \/ (IsNew(k, t, j) /\ OrdinaryMessage(t, net'[t][j]))
    BY DEF OrdinaryStep, OrdinaryNet
  <2>2. PICK j \in 1 .. Len(net["R"]) : net'["R"][i] = net["R"][j]
    BY <1>1, <1>2, <2>1 DEF Remains, OrdinaryMessage, HandshakeTypes
  <2>3. net["R"][j].plane \in Planes
    <3>1. net["R"][j] \in Messages
      BY <1>1 DEF TypeOK
    <3> QED BY <1>2, <2>2, <3>1, MessageFields
  <2> QED BY <1>2, <2>2, <2>3 DEF ReadyProbe, KeepsArrived
<1>3. pc'["R"].ph = "rprobe" => ArrivedAt(slots'["R"], qps'["R"], pc'["R"].plane, pc'["R"].gen)
  BY <1>1 DEF ReadyProbe, KeepsArrived
<1> QED BY <1>2, <1>3 DEF ReadyProbe

LEMMA OrdinarySender ==
    ASSUME TypeOK, TypeOK', SlotsSeparate', SenderHolds', SenderProbe, OrdinaryStep, SenderSpared,
           KeepsArrived
    PROVE  SenderProbe'
<1>1. "S" \in Sides /\ pc["S"].plane \in Planes /\ OrdinarySlots
      /\ Current = slots["S"][pc["S"].plane] /\ Current' = slots'["S"][pc'["S"].plane]
  BY StateTypes, SidesAndPlanes DEF OrdinaryStep, Current
<1>2. pc'["S"] = pc["S"] \/ pc'["S"].ph \notin {"resp", "probe"}
  BY <1>1 DEF OrdinaryStep, OrdinaryPositions, HandshakePhases
<1>3. ASSUME pc'["S"].ph \in {"resp", "probe"}, Current'.shadow.qp # NoQp
      PROVE  /\ Current.shadow = Current'.shadow
             /\ qps'["S"][Current'.shadow.qp] = qps["S"][Current.shadow.qp]
  <2>1. pc'["S"] = pc["S"] /\ Current' = slots'["S"][pc["S"].plane]
    BY <1>1, <1>2, <1>3
  <2>2. Current.shadow = Current'.shadow
    BY <1>1, <1>3, <2>1, ShadowKept
  <2>3. Current'.shadow.qp \in QpIds /\ Current'.shadow.qp \in LiveQps(slots'["S"])
    BY <1>1, <1>3, <2>1, EndpointsLivePrimed
  <2> QED BY <1>3, <2>1, <2>2, <2>3 DEF SenderSpared
<1>4. CASE pc'["S"].ph = "resp"
  BY <1>2, <1>3, <1>4 DEF SenderProbe
<1>5. CASE pc'["S"].ph = "probe"
  <2>1. Current'.shadow.qp # NoQp
    BY <1>5 DEF SenderHolds, ShadowOrNews, Held
  <2>2. pc'["S"] = pc["S"] /\ qps'["S"][Current'.shadow.qp] = qps["S"][Current.shadow.qp]
    BY <1>2, <1>3, <1>5, <2>1
  <2>3. ArrivedAt(slots["R"], qps["R"], pc["S"].plane, pc["S"].gen)
          => ArrivedAt(slots'["R"], qps'["R"], pc["S"].plane, pc["S"].gen)
    BY <1>1 DEF KeepsArrived
  <2> QED BY <1>5, <2>2, <2>3 DEF SenderProbe
<1> QED BY <1>4, <1>5 DEF SenderProbe

\* A slot keeps its probe unless it loses the shadow.
KeepsProbe(slot, sl) == sl.shadow.qp # NoQp => sl.probe = slot.probe

LEMMA OperatorsKeepProbe ==
    ASSUME NEW slot \in Slots(QpIds), NEW g \in Nat
    PROVE  /\ KeepsProbe(slot, slot)
           /\ KeepsProbe(slot, AbortRecovery(slot))
           /\ KeepsProbe(slot, OnBroken(slot, g))
           /\ KeepsProbe(slot, OnRecovering(slot, g))
           /\ KeepsProbe(slot, OnFailure(slot))
           /\ \A p, r : KeepsProbe(slot, DropUnusedRetired(slot, p, r))
<1>1. \A s \in Slots(QpIds) : Quarantine(s).probe = s.probe /\ Quarantine(s).shadow = s.shadow
  BY DEF Quarantine, Slots
<1>2. AbortRecovery(slot) \in Slots(QpIds) /\ AbortRecovery(slot).shadow.qp = NoQp
  BY AbortRecoveryType
<1>3. \A s \in Slots(QpIds) : /\ [s EXCEPT !.state = "Rebuilding"].probe = s.probe
                              /\ [s EXCEPT !.state = "Rebuilding"].shadow = s.shadow
  BY DEF Slots
<1>4. KeepsProbe(slot, slot) /\ KeepsProbe(slot, AbortRecovery(slot))
  BY <1>2 DEF KeepsProbe
<1>5. KeepsProbe(slot, OnBroken(slot, g)) /\ KeepsProbe(slot, OnFailure(slot))
  BY <1>1, <1>2 DEF KeepsProbe, OnBroken, OnFailure
<1>6. KeepsProbe(slot, OnRecovering(slot, g))
  BY <1>2, <1>3 DEF KeepsProbe, OnRecovering
<1>7. \A p, r : KeepsProbe(slot, DropUnusedRetired(slot, p, r))
  BY DEF KeepsProbe, DropUnusedRetired, Slots
<1> QED BY <1>4, <1>5, <1>6, <1>7

\* The queue pair i of an end is left alone, or is no shadow and gets no probe.
QueueSpared(old, new, i) ==
    \/ new[i] = old[i]
    \/ ~IsShadow(slots["R"], i) /\ (NoProbe(old[i]) => NoProbe(new[i]))

LEMMA QueuesSpared ==
    ASSUME TypeOK, TypeOK', OrdinarySlots,
           \A p \in Planes : KeepsProbe(slots["R"][p], slots'["R"][p]),
           \A i \in QpIds : i \in LiveQps(slots'["R"]) => QueueSpared(qps["R"], qps'["R"], i)
    PROVE  ReceiverSpared
<1>1. "R" \in Sides
  BY SidesAndPlanes
<1>2. ASSUME NEW p \in Planes, slots'["R"][p].shadow.qp # NoQp
      PROVE  /\ slots'["R"][p].probe = slots["R"][p].probe
             /\ qps'["R"][slots'["R"][p].shadow.qp] = qps["R"][slots'["R"][p].shadow.qp]
  <2> DEFINE i == slots'["R"][p].shadow.qp
  <2>1. i \in QpIds /\ i \in LiveQps(slots'["R"])
    <3>1. slots'["R"][p] \in Slots(QpIds)
      BY <1>1 DEF TypeOK
    <3> QED BY <1>2, <3>1 DEF LiveQps, QpsOf, Slots, Endpoints
  <2>2. slots["R"][p].shadow.qp = i
    BY <1>1, <1>2 DEF OrdinarySlots, Loses, Keeps
  <2>3. IsShadow(slots["R"], i)
    BY <2>2 DEF IsShadow
  <2>4. slots'["R"][p].probe = slots["R"][p].probe
    BY <1>2 DEF KeepsProbe
  <2> HIDE DEF i
  <2>5. qps'["R"][i] = qps["R"][i]
    BY <2>1, <2>3 DEF QueueSpared
  <2> QED BY <2>4, <2>5 DEF i
<1>3. \A i \in QpIds : i \in LiveQps(slots'["R"]) /\ NoProbe(qps["R"][i]) => NoProbe(qps'["R"][i])
  BY DEF QueueSpared
<1> QED BY <1>2, <1>3 DEF ReceiverSpared

LEMMA InstallSpared ==
    ASSUME TypeOK, TypeOK', OrdinarySlots, NEW s \in Sides, NEW p \in Planes, NEW sl, NEW q,
           Install(s, p, sl, q), KeepsProbe(slots[s][p], sl),
           s = "R" => \A i \in QpIds : QueueSpared(qps["R"], q, i),
           s = "S" /\ pc["S"].ph \in {"resp", "probe"} => q = qps["S"]
    PROVE  ReceiverSpared /\ SenderSpared
<1>1. /\ slots'[s][p] = sl
      /\ \A o \in Planes : o # p => slots'[s][o] = slots[s][o]
      /\ \A t \in Sides : t # s => slots'[t] = slots[t] /\ qps'[t] = qps[t]
      /\ \A i \in QpIds : i \in LiveQps(slots'[s]) => qps'[s][i] = q[i]
  BY DEF Install, TypeOK
<1>2. "S" \in Sides /\ "R" \in Sides
  BY SidesAndPlanes
<1>3. ReceiverSpared
  <2>1. \A o \in Planes : KeepsProbe(slots["R"][o], slots'["R"][o])
    BY <1>1, <1>2 DEF KeepsProbe
  <2>2. \A i \in QpIds : i \in LiveQps(slots'["R"]) => QueueSpared(qps["R"], qps'["R"], i)
    BY <1>1, <1>2 DEF QueueSpared
  <2> QED BY <2>1, <2>2, QueuesSpared
<1>4. SenderSpared
  BY <1>1, <1>2 DEF SenderSpared
<1> QED BY <1>3, <1>4

LEMMA QuietSpared ==
    ASSUME UNCHANGED <<slots, qps>>
    PROVE  ReceiverSpared /\ SenderSpared
  BY DEF ReceiverSpared, SenderSpared

\* A request is posted to an active queue pair, which is no shadow.
LEMMA PostSpared ==
    ASSUME TypeOK, TypeOK', SlotsSeparate, OrdinarySlots, UNCHANGED slots, NEW s \in Sides,
           NEW r \in Requests, PostRequest(s, r),
           s = "S" => pc["S"].ph \notin {"resp", "probe"}
    PROVE  ReceiverSpared /\ SenderSpared
<1>1. PICK p \in Planes : /\ Selectable(slots[s][p], table[s][p])
                          /\ qps' = WithPosted(s, r, p)
  BY DEF PostRequest, Selected, SelectablePlanes
<1> DEFINE x == slots[s][p].active.qp
           w == DataRequest(r.step, slots[s][p].active.gen)
           new == PostTo(qps[s][x], s, w)
<1>2. x \in QpIds /\ x # NoQp
  BY <1>1, StateTypes DEF Selectable, SlotAtGeneration, Slots, Endpoints
<1>3. qps' = [qps EXCEPT ![s][x] = new]
  BY <1>1 DEF WithPosted
<1>4. "S" \in Sides /\ "R" \in Sides
  BY SidesAndPlanes
<1>5. NoProbe(qps[s][x]) => NoProbe(new)
  <2>1. w \in WorkRequests /\ ~w.probe
    BY StateTypes, DpfrCommAssumption DEF DataRequest, WorkRequests, Requests, Slots, Endpoints
  <2>2. qps[s][x] \in QpRecords
    BY <1>2, StateTypes
  <2> HIDE DEF w, x
  <2> QED BY <2>1, <2>2, PostNoProbe
<1>6. ASSUME s = "R"
      PROVE  ~IsShadow(slots["R"], x)
  <2> SUFFICES ASSUME NEW o \in Planes, slots["R"][o].shadow.qp = x
               PROVE  FALSE
    BY DEF IsShadow
  <2>1. x \in QpsOf(slots["R"][o]) /\ x \in QpsOf(slots["R"][p])
    BY <1>2, <1>6 DEF QpsOf
  <2>2. o = p
    BY <1>4, <2>1 DEF SlotsSeparate
  <2>3. SeparateSlot(slots["R"][p])
    BY <1>4 DEF SlotsSeparate
  <2> QED BY <1>2, <1>6, <2>2, <2>3 DEF SeparateSlot, SlotQps
<1> HIDE DEF x, new
<1>7. \A t \in Sides : \A i \in QpIds : qps'[t][i] = IF t = s /\ i = x THEN new ELSE qps[t][i]
  BY <1>2, <1>3 DEF TypeOK
<1>8. \A i \in QpIds : QueueSpared(qps["R"], qps'["R"], i)
  BY <1>4, <1>5, <1>6, <1>7 DEF QueueSpared
<1>9. \A o \in Planes : KeepsProbe(slots["R"][o], slots'["R"][o])
  BY DEF KeepsProbe
<1>10. ReceiverSpared
  BY <1>8, <1>9, QueuesSpared
<1>11. SenderSpared
  BY <1>4, <1>7 DEF SenderSpared
<1> QED BY <1>10, <1>11

\* A completion that is no probe's is none of a shadow's.
LEMMA PoppedSpared ==
    ASSUME TypeOK, ProbeStages, NEW e, e.qp \in QpIds, qps["R"][e.qp].cq # <<>>,
           ~Head(qps["R"][e.qp].cq).probe
    PROVE  \A i \in QpIds : QueueSpared(qps["R"], Popped("R", e), i)
<1> DEFINE x == e.qp
<1>1. qps["R"] \in [QpIds -> QpRecords] /\ qps["R"][x] \in QpRecords
  BY StateTypes, SidesAndPlanes
<1>2. /\ \A i \in QpIds : i # x => Popped("R", e)[i] = qps["R"][i]
      /\ Popped("R", e)[x] = [qps["R"][x] EXCEPT !.cq = Tail(@)]
  BY <1>1 DEF Popped
<1>3. ~IsShadow(slots["R"], x)
  <2> SUFFICES ASSUME NEW p \in Planes, slots["R"][p].shadow.qp = x
               PROVE  FALSE
    BY DEF IsShadow
  <2>1. x # NoQp
    BY DEF QpIds, NoQp
  <2>2. ProbeStage(slots["R"][p], qps["R"][x])
    BY <2>1 DEF ProbeStages
  <2> QED BY <2>2 DEF ProbeStage, ProbePosted, ProbeArrived, ProbeLost, ProbeDone
<1>4. NoProbe(qps["R"][x]) => NoProbe(Popped("R", e)[x])
  <2>1. qps["R"][x].cq \in Seq(Completions)
    BY <1>1 DEF QpRecords
  <2>2. NoProbes(qps["R"][x].cq) => NoProbes(Tail(qps["R"][x].cq))
    BY <2>1, NoProbesKept
  <2> QED BY <1>1, <1>2, <2>2 DEF NoProbe, QpRecords
<1> HIDE DEF x
<1> QED BY <1>2, <1>3, <1>4 DEF QueueSpared

LEMMA MonitorsSpared ==
    ASSUME TypeOK, TypeOK', OrdinarySlots, Monitors
    PROVE  ReceiverSpared /\ SenderSpared
<1>1. PICK s \in Sides, t \in Threads :
          \/ \E p \in Planes, up \in BOOLEAN : MonitorMark(s, t, p, up)
          \/ MonitorNotify(s, t) \/ MonitorSend(s, t)
  BY DEF Monitors
<1>2. CASE UNCHANGED <<slots, qps>>
  BY <1>2, QuietSpared
<1>3. CASE MonitorNotify(s, t)
  <2> DEFINE d == mon[s][t]
             p == d.plane
             sl == IF d.up THEN OnRecovering(slots[s][p], d.gen) ELSE OnBroken(slots[s][p], d.gen)
  <2>1. p \in Planes /\ d.gen \in Nat
    BY DEF TypeOK, Deliveries
  <2>2. KeepsProbe(slots[s][p], sl)
    BY <2>1, StateTypes, OperatorsKeepProbe
  <2>3. Install(s, p, sl, qps[s]) /\ In(s, {"idle", "failed"})
    BY <1>3 DEF MonitorNotify
  <2>4. \A i \in QpIds : QueueSpared(qps["R"], qps["R"], i)
    BY DEF QueueSpared
  <2> HIDE DEF sl, p, d
  <2> QED BY <2>1, <2>2, <2>3, <2>4, InstallSpared DEF In
<1> QED BY <1>1, <1>2, <1>3 DEF MonitorMark, MonitorSend

LEMMA ControlSpared ==
    ASSUME TypeOK, TypeOK', OrdinarySlots, Control
    PROVE  ReceiverSpared /\ SenderSpared
<1>1. PICK s \in Sides : RecvPlaneEvent(s) \/ IgnoreAnswer(s)
  BY DEF Control
<1>2. CASE UNCHANGED <<slots, qps>>
  BY <1>2, QuietSpared
<1>3. CASE RecvPlaneEvent(s) /\ ~UNCHANGED <<slots, qps>>
  <2> DEFINE m == Head(net[s])
             p == m.plane
             sl == IF m.up THEN OnRecovering(slots[s][p], m.gen) ELSE OnFailure(slots[s][p])
  <2>1. p \in Planes /\ m.gen \in Nat
    BY <1>3, StateTypes, MessageFields DEF RecvPlaneEvent, Arrived
  <2>2. KeepsProbe(slots[s][p], sl)
    BY <2>1, StateTypes, OperatorsKeepProbe
  <2>3. Install(s, p, sl, qps[s])
    BY <1>3 DEF RecvPlaneEvent
  <2>4. \A i \in QpIds : QueueSpared(qps["R"], qps["R"], i)
    BY DEF QueueSpared
  <2> HIDE DEF sl, p, m
  <2> QED BY <2>1, <2>2, <2>3, <2>4, InstallSpared
<1> QED BY <1>1, <1>2, <1>3 DEF IgnoreAnswer

LEMMA QueriesSpared ==
    ASSUME TypeOK, TypeOK', SlotsSeparate, OrdinarySlots,
           StartQuery \/ RecvQueryResp \/ QueryTimeout \/ ReplayLater \/ RecvQuery
    PROVE  ReceiverSpared /\ SenderSpared
<1>1. UNCHANGED slots
  BY DEF StartQuery, RecvQueryResp, QueryTimeout, ReplayLater, RecvQuery
<1>2. /\ "S" \in Sides /\ "R" \in Sides
      /\ req["S"] \in Requests /\ req["R"] \in Requests
  BY SidesAndPlanes, StateTypes
<1>3. CASE UNCHANGED qps
  BY <1>1, <1>3, QuietSpared
<1>4. CASE PostRequest("R", req["R"])
  BY <1>1, <1>2, <1>4, PostSpared
<1>5. CASE PostRequest("S", req["S"]) /\ pc["S"].ph \notin {"resp", "probe"}
  BY <1>1, <1>2, <1>5, PostSpared
<1>6. RecvQueryResp \/ ReplayLater =>
          UNCHANGED qps \/ (PostRequest("S", req["S"]) /\ pc["S"].ph \notin {"resp", "probe"})
  BY DEF RecvQueryResp, ReplayLater, Replay, In, BeforeReplay
<1>7. RecvQuery => UNCHANGED qps \/ PostRequest("R", req["R"])
  BY DEF RecvQuery
<1> QED BY <1>3, <1>4, <1>5, <1>6, <1>7 DEF StartQuery, QueryTimeout

\* Of the calls, all but the polling of a probe.
LEMMA CallsSpared ==
    ASSUME TypeOK, TypeOK', SlotsSeparate, OrdinarySlots, ProbeStages, NEW s \in Sides,
           \/ Return(s) \/ Post(s) \/ Backpressure(s) \/ Test(s)
           \/ \E p \in Planes : \E e \in PolledEndpoints(slots[s][p]) :
                 \/ \E ok \in BOOLEAN : PollStale(s, p, e, ok)
                 \/ PollSuccess(s, p, e) \/ PollStaleError(s, p, e) \/ PollError(s, p, e)
    PROVE  ReceiverSpared /\ SenderSpared
<1>1. CASE UNCHANGED <<slots, qps>>
  BY <1>1, QuietSpared
<1>2. CASE Post(s)
  <2>1. NewRequest(s) \in Requests
    BY <1>2, NewRequestType DEF Post
  <2>2. UNCHANGED slots /\ PostRequest(s, NewRequest(s)) /\ pc[s].ph = "idle"
    BY <1>2 DEF Post, MayPost, In
  <2> QED BY <2>1, <2>2, PostSpared
<1>3. ASSUME NEW p \in Planes, NEW e \in PolledEndpoints(slots[s][p]),
             \/ \E ok \in BOOLEAN : PollStale(s, p, e, ok)
             \/ PollSuccess(s, p, e) \/ PollStaleError(s, p, e) \/ PollError(s, p, e)
      PROVE  ReceiverSpared /\ SenderSpared
  <2>1. /\ qps[s][e.qp].cq # <<>> /\ ~Head(qps[s][e.qp].cq).probe
        /\ pc[s].ph \in {"idle", "control", "cqs"}
    BY <1>3, Zenon DEF PollStale, PollSuccess, PollStaleError, PollError, HasCompletion, PollAt,
                       BeforeReplay, In
  <2>2. e.qp \in QpIds
    BY StateTypes DEF PolledEndpoints, Slots, Endpoints
  <2>3. s = "R" => \A i \in QpIds : QueueSpared(qps["R"], Popped("R", e), i)
    BY <2>1, <2>2, PoppedSpared
  <2>4. CASE \E sl : Install(s, p, sl, Popped(s, e)) /\ KeepsProbe(slots[s][p], sl)
    <3>1. PICK sl : Install(s, p, sl, Popped(s, e)) /\ KeepsProbe(slots[s][p], sl)
      BY <2>4
    <3> QED BY <2>1, <2>3, <3>1, InstallSpared
  <2>5. CASE \E ok \in BOOLEAN : PollStale(s, p, e, ok)
    <3>1. slots' = slots /\ qps' = [qps EXCEPT ![s] = Popped(s, e)]
      BY <2>5 DEF PollStale
    <3>2. "S" \in Sides /\ "R" \in Sides
      BY SidesAndPlanes
    <3>3. \A t \in Sides : qps'[t] = IF t = s THEN Popped(s, e) ELSE qps[t]
      BY <3>1 DEF TypeOK
    <3>4. \A i \in QpIds : QueueSpared(qps["R"], qps'["R"], i)
      BY <2>3, <3>2, <3>3 DEF QueueSpared
    <3>5. \A o \in Planes : KeepsProbe(slots["R"][o], slots'["R"][o])
      BY <3>1 DEF KeepsProbe
    <3>6. ReceiverSpared
      BY <3>4, <3>5, QueuesSpared
    <3>7. SenderSpared
      BY <2>1, <3>2, <3>3 DEF SenderSpared
    <3> QED BY <3>6, <3>7
  <2>6. slots[s][p] \in Slots(QpIds) /\ 0 \in Nat
    BY StateTypes
  <2>7. PollSuccess(s, p, e) \/ PollStaleError(s, p, e) \/ PollError(s, p, e) =>
            \E sl : Install(s, p, sl, Popped(s, e)) /\ KeepsProbe(slots[s][p], sl)
    BY <2>6, OperatorsKeepProbe DEF PollSuccess, PollStaleError, PollError
  <2> QED BY <1>3, <2>4, <2>5, <2>7
<1> QED BY <1>1, <1>2, <1>3 DEF Return, Backpressure, Test

-----------------------------------------------------------------------------
\* The steps that do touch a probe, or the slots of the receiver.
LEMMA NotShadow ==
    ASSUME TypeOK, SlotsSeparate, ProbeFree, NEW p \in Planes, NEW i \in SlotQps(slots["R"][p]),
           i # NoQp
    PROVE  i \in QpIds /\ ~IsShadow(slots["R"], i) /\ NoProbe(qps["R"][i])
<1>1. "R" \in Sides /\ slots["R"][p] \in Slots(QpIds)
  BY StateTypes, SidesAndPlanes
<1>2. i \in QpIds /\ i \in QpsOf(slots["R"][p])
  BY <1>1 DEF SlotQps, QpsOf, Slots, Endpoints
<1>3. ~IsShadow(slots["R"], i)
  <2> SUFFICES ASSUME NEW o \in Planes, slots["R"][o].shadow.qp = i
               PROVE  FALSE
    BY DEF IsShadow
  <2>1. i \in QpsOf(slots["R"][o])
    BY DEF QpsOf
  <2>2. o = p
    BY <1>1, <1>2, <2>1 DEF SlotsSeparate
  <2>3. SeparateSlot(slots["R"][p])
    BY <1>1 DEF SlotsSeparate
  <2> QED BY <2>2, <2>3 DEF SeparateSlot
<1> QED BY <1>2, <1>3 DEF ProbeFree

LEMMA ShadowsSame ==
    ASSUME ProbeStages, ProbeFree, qps'["R"] = qps["R"],
           \A p \in Planes : /\ slots'["R"][p].shadow = slots["R"][p].shadow
                             /\ slots'["R"][p].probe = slots["R"][p].probe
    PROVE  ProbeStages' /\ ProbeFree' /\ KeepsArrived
<1>1. \A p \in Planes : \A qp : /\ ProbeStage(slots["R"][p], qp) <=> ProbeStage(slots'["R"][p], qp)
                                /\ ProbeArrived(slots["R"][p], qp) <=> ProbeArrived(slots'["R"][p], qp)
  BY StageDepends
<1>2. ProbeStages'
  BY <1>1 DEF ProbeStages
<1>3. \A i : IsShadow(slots'["R"], i) <=> IsShadow(slots["R"], i)
  BY DEF IsShadow
<1>4. ProbeFree'
  BY <1>3 DEF ProbeFree
<1>5. KeepsArrived
  BY <1>1 DEF KeepsArrived, ArrivedAt, HasShadow
<1> QED BY <1>2, <1>4, <1>5

\* One slot of the receiver is moved: what has to be seen is its own shadow, and
\* that its other queue pairs have no probe.
LEMMA ReceiverMoved ==
    ASSUME TypeOK, TypeOK', SlotsSeparate, SlotsSeparate', ProbeStages, ProbeFree,
           NEW p \in Planes, NEW sl, NEW q, Move("R", p, sl, q),
           \A o \in Planes : o # p => \A i \in QpsOf(slots["R"][o]) : q[i] = qps["R"][i],
           sl.shadow.qp # NoQp => ProbeStage(sl, q[sl.shadow.qp]),
           \A i \in QpsOf(sl) : i = sl.shadow.qp \/ NoProbe(q[i])
    PROVE  /\ ProbeStages' /\ ProbeFree'
           /\ slots'["R"][p] = sl
           /\ sl.shadow.qp # NoQp => qps'["R"][sl.shadow.qp] = q[sl.shadow.qp]
           /\ \A o \in Planes : \A g :
                 o # p /\ ArrivedAt(slots["R"], qps["R"], o, g)
                    => ArrivedAt(slots'["R"], qps'["R"], o, g)
<1>1. /\ "R" \in Sides
      /\ slots'["R"][p] = sl
      /\ \A o \in Planes : o # p => slots'["R"][o] = slots["R"][o]
      /\ \A i \in QpIds : qps'["R"][i] = IF i \in LiveQps(slots'["R"]) THEN q[i] ELSE NullQp
  BY MoveSlot, SidesAndPlanes
<1>2. ASSUME NEW o \in Planes, slots'["R"][o].shadow.qp # NoQp
      PROVE  qps'["R"][slots'["R"][o].shadow.qp] = q[slots'["R"][o].shadow.qp]
  <2>1. /\ slots'["R"][o].shadow.qp \in QpIds
        /\ slots'["R"][o].shadow.qp \in LiveQps(slots'["R"])
    BY <1>1, <1>2, EndpointsLivePrimed
  <2> QED BY <1>1, <2>1
<1>3. ASSUME NEW o \in Planes, o # p, slots["R"][o].shadow.qp # NoQp
      PROVE  qps'["R"][slots["R"][o].shadow.qp] = qps["R"][slots["R"][o].shadow.qp]
  <2>1. slots["R"][o].shadow.qp \in QpsOf(slots["R"][o])
    BY <1>3 DEF QpsOf
  <2> QED BY <1>1, <1>2, <1>3, <2>1
<1>4. ProbeStages'
  <2> SUFFICES ASSUME NEW o \in Planes, slots'["R"][o].shadow.qp # NoQp
               PROVE  ProbeStage(slots'["R"][o], qps'["R"][slots'["R"][o].shadow.qp])
    BY DEF ProbeStages
  <2>1. CASE o = p
    BY <1>1, <1>2, <2>1
  <2>2. CASE o # p
    BY <1>1, <1>3, <2>2 DEF ProbeStages
  <2> QED BY <2>1, <2>2
<1>5. \A o \in Planes : \A g :
          o # p /\ ArrivedAt(slots["R"], qps["R"], o, g) => ArrivedAt(slots'["R"], qps'["R"], o, g)
  BY <1>1, <1>3 DEF ArrivedAt, HasShadow
<1>6. ASSUME NEW i \in QpIds, ~IsShadow(slots'["R"], i)
      PROVE  NoProbe(qps'["R"][i])
  <2>1. CASE i \notin LiveQps(slots'["R"])
    BY <1>1, <2>1, NullHasNoProbe
  <2>2. ASSUME NEW o \in Planes, i \in QpsOf(slots'["R"][o])
        PROVE  NoProbe(qps'["R"][i])
    <3>1. i \in LiveQps(slots'["R"])
      BY <2>2 DEF LiveQps
    <3>2. CASE o = p
      <4>1. i # sl.shadow.qp
        BY <1>1, <1>6 DEF IsShadow
      <4> QED BY <1>1, <2>2, <3>1, <3>2, <4>1
    <3>3. CASE o # p
      <4>1. i \in SlotQps(slots["R"][o]) /\ i # NoQp
        BY <1>1, <1>6, <2>2, <3>3 DEF IsShadow, QpsOf, SlotQps
      <4>2. NoProbe(qps["R"][i])
        BY <4>1, NotShadow
      <4>3. q[i] = qps["R"][i]
        BY <1>1, <2>2, <3>3
      <4> QED BY <1>1, <3>1, <4>2, <4>3
    <3> QED BY <3>2, <3>3
  <2> QED BY <2>1, <2>2 DEF LiveQps
<1> QED BY <1>1, <1>2, <1>4, <1>5, <1>6 DEF ProbeFree

LEMMA PollProbeKeeps ==
    ASSUME TypeOK, TypeOK', SlotsSeparate, SlotsSeparate', ProbeStages, ProbeFree,
           NEW s \in Sides, NEW p \in Planes, NEW e \in PolledEndpoints(slots[s][p]),
           NEW ok \in BOOLEAN, PollProbe(s, p, e, ok)
    PROVE  ProbeStages' /\ ProbeFree' /\ KeepsArrived /\ SenderSpared
<1> DEFINE sl == RecordProbe(slots[s][p], ProbeKind(s), Head(qps[s][e.qp].cq).gen, ok)
           x == e.qp
<1>1. /\ pc[s].ph \in {"idle", "control", "cqs"} /\ HasCompletion(s, e, TRUE, ok)
      /\ Install(s, p, sl, Popped(s, e))
  BY DEF PollProbe, PollAt, BeforeReplay, In
<1>2. "S" \in Sides /\ "R" \in Sides /\ slots[s][p] \in Slots(QpIds)
  BY SidesAndPlanes, StateTypes
<1>3. /\ Popped(s, e) \in [QpIds -> QpRecords] /\ sl \in Slots(QpIds)
      /\ x \in QpIds /\ x # NoQp
  <2>1. Popped(s, e) \in [QpIds -> QpRecords]
    BY <1>1, PoppedType DEF HasCompletion
  <2>2. sl \in Slots(QpIds)
    BY <1>2, RecordProbeType DEF ProbeKind
  <2>3. x \in QpIds /\ x # NoQp
    BY <1>2 DEF PolledEndpoints, Slots, Endpoints
  <2> QED BY <2>1, <2>2, <2>3
<1>4. CASE s = "S"
  <2>1. slots'["R"] = slots["R"] /\ qps'["R"] = qps["R"]
    BY <1>1, <1>2, <1>4 DEF Install, TypeOK
  <2>2. SenderSpared
    BY <1>1, <1>4 DEF SenderSpared
  <2> QED BY <2>1, <2>2, ShadowsSame
<1>5. CASE s = "R"
  <2> DEFINE slot == slots["R"][p]
             qp == qps["R"][x]
             new == Popped("R", e)
  <2>1. /\ qp \in QpRecords /\ qp.cq # <<>> /\ Head(qp.cq).probe /\ Head(qp.cq).ok = ok
        /\ qp.cq \in Seq(Completions)
    BY <1>1, <1>2, <1>3, <1>5, StateTypes DEF HasCompletion, QpRecords
  <2>2. IsShadow(slots["R"], x)
    <3>1. Head(qp.cq) = qp.cq[1] /\ 1 \in 1 .. Len(qp.cq)
      BY <2>1
    <3>2. ~NoProbe(qp)
      BY <2>1, <3>1 DEF NoProbe, NoProbes
    <3> QED BY <1>3, <3>2 DEF ProbeFree
  <2>3. slot.shadow.qp = x
    <3>1. PICK o \in Planes : slots["R"][o].shadow.qp = x
      BY <2>2 DEF IsShadow
    <3>2. x \in QpsOf(slots["R"][o]) /\ x \in QpsOf(slot)
      BY <1>3, <1>5, <3>1 DEF QpsOf, PolledEndpoints
    <3>3. o = p
      BY <1>2, <3>2 DEF SlotsSeparate
    <3> QED BY <3>1, <3>3
  <2>4. /\ new[x] = [qp EXCEPT !.cq = Tail(@)]
        /\ \A i \in QpIds : i # x => new[i] = qps["R"][i]
    BY <1>2, <1>3, StateTypes DEF Popped
  <2>5. ProbeStage(slot, qp)
    BY <1>3, <2>3 DEF ProbeStages
  <2>6. /\ ProbeStage(sl, new[x])
        /\ ProbeArrived(slot, qp) => ProbeArrived(sl, new[x])
        /\ sl.shadow = slot.shadow /\ sl.active = slot.active /\ sl.retired = slot.retired
    <3>0. sl = RecordProbe(slot, "recv", Head(qp.cq).gen, ok) /\ slot \in Slots(QpIds)
      BY <1>2, <1>5 DEF ProbeKind
    <3> HIDE DEF sl
    <3>1. /\ new[x].sq = qp.sq /\ new[x].rq = qp.rq /\ new[x].cq = Tail(qp.cq)
      BY <2>1, <2>4 DEF QpRecords
    <3>2. sl.shadow = slot.shadow /\ sl.active = slot.active /\ sl.retired = slot.retired
      BY <3>0 DEF RecordProbe, Slots
    <3>3. \A c : Tail(<<c>>) = <<>> /\ Head(<<c>>) = c
      OBVIOUS
    <3> HIDE DEF new, qp, slot
    <3>4. CASE ProbeArrived(slot, qp)
      <4>1. /\ qp.sq = <<>> /\ qp.rq = <<>> /\ qp.cq = <<ProbeDone(slot.shadow.gen, TRUE)>>
            /\ slot.probe.gen = slot.shadow.gen /\ ~slot.probe.failed
        BY <2>1, <3>4 DEF ProbeArrived
      <4>2. Head(qp.cq).gen = slot.shadow.gen /\ ok /\ Tail(qp.cq) = <<>>
        BY <2>1, <3>3, <4>1 DEF ProbeDone
      <4>3. sl = [slot EXCEPT !.probe.recvDone = TRUE]
        BY <3>0, <4>1, <4>2 DEF RecordProbe
      <4>4. sl.probe.gen = slot.probe.gen /\ ~sl.probe.failed /\ sl.probe.recvDone
        BY <3>0, <4>1, <4>3 DEF Slots, Probes
      <4> QED BY <3>1, <3>2, <4>1, <4>2, <4>4 DEF ProbeArrived, ProbeStage
    <3>5. CASE ~ProbeArrived(slot, qp)
      <4>1. ProbeLost(slot, qp)
        BY <2>1, <2>5, <3>5 DEF ProbeStage, ProbePosted
      <4>2. qp.sq = <<>> /\ qp.rq = <<>> /\ Tail(qp.cq) = <<>>
        BY <2>1, <3>3, <4>1 DEF ProbeLost
      <4> QED BY <3>1, <3>2, <3>5, <4>2 DEF ProbeLost, ProbeStage
    <3> QED BY <3>4, <3>5
  <2>7. \A o \in Planes : o # p => \A i \in QpsOf(slots["R"][o]) : new[i] = qps["R"][i]
    <3>1. \A o \in Planes : o # p => x \notin QpsOf(slots["R"][o])
      <4>1. x \in QpsOf(slot)
        BY <1>3, <2>3 DEF QpsOf
      <4> QED BY <1>2, <4>1 DEF SlotsSeparate
    <3>2. \A o \in Planes : QpsOf(slots["R"][o]) \subseteq QpIds
      BY <1>2, StateTypes DEF QpsOf, Slots, Endpoints
    <3> QED BY <2>4, <3>1, <3>2
  <2>8. \A i \in QpsOf(sl) : i = sl.shadow.qp \/ NoProbe(new[i])
    <3> SUFFICES ASSUME NEW i \in QpsOf(sl), i # sl.shadow.qp
                 PROVE  NoProbe(new[i])
      OBVIOUS
    <3>1. i \in SlotQps(slot) /\ i # NoQp /\ i # x
      BY <2>3, <2>6, Zenon DEF QpsOf, SlotQps
    <3>2. i \in QpIds /\ NoProbe(qps["R"][i])
      BY <3>1, NotShadow
    <3> QED BY <2>4, <3>1, <3>2
  <2>9. Move("R", p, sl, new)
    BY <1>1, <1>3, <1>5 DEF Move
  <2>10. SenderSpared
    <3>1. slots'["S"] = slots["S"] /\ qps'["S"] = qps["S"]
      BY <1>1, <1>2, <1>5 DEF Install, TypeOK
    <3> QED BY <3>1 DEF SenderSpared
  <2> HIDE DEF sl, new, x, slot, qp
  <2>11. /\ ProbeStages' /\ ProbeFree'
         /\ slots'["R"][p] = sl /\ qps'["R"][x] = new[x]
         /\ \A o \in Planes : \A g :
                o # p /\ ArrivedAt(slots["R"], qps["R"], o, g)
                   => ArrivedAt(slots'["R"], qps'["R"], o, g)
    <3>1. sl.shadow.qp = x
      BY <2>3, <2>6
    <3> QED BY <1>3, <2>6, <2>7, <2>8, <2>9, <3>1, ReceiverMoved
  <2>12. KeepsArrived
    <3>1. \A g : ArrivedAt(slots["R"], qps["R"], p, g) => ArrivedAt(slots'["R"], qps'["R"], p, g)
      BY <1>3, <2>3, <2>6, <2>11 DEF ArrivedAt, HasShadow, slot, qp
    <3> QED BY <2>11, <3>1 DEF KeepsArrived
  <2> QED BY <2>10, <2>11, <2>12
<1> QED BY <1>4, <1>5 DEF Sides

-----------------------------------------------------------------------------
\* The fabric.  What its steps do to the queues of a probe.
LEMMA ProbeReceived ==
    ASSUME NEW slot, NEW qp \in QpRecords, ProbePosted(slot, qp)
    PROVE  ProbeArrived(slot, [qp EXCEPT !.rq = Tail(qp.rq),
                                         !.cq = Append(qp.cq, Completion(Head(qp.rq), TRUE))])
<1>1. Tail(qp.rq) = <<>> /\ Head(qp.rq) = ProbeRequest(slot.shadow.gen)
  BY DEF ProbePosted
<1>2. Append(qp.cq, ProbeDone(slot.shadow.gen, TRUE)) = <<ProbeDone(slot.shadow.gen, TRUE)>>
  BY DEF ProbePosted
<1>3. Completion(ProbeRequest(slot.shadow.gen), TRUE) = ProbeDone(slot.shadow.gen, TRUE)
  BY DEF Completion, ProbeRequest, ProbeDone
<1> QED BY <1>1, <1>2, <1>3 DEF ProbePosted, ProbeArrived, QpRecords

LEMMA ReceivedNoProbe ==
    ASSUME NEW qp \in QpRecords, NoProbe(qp), qp.rq # <<>>
    PROVE  NoProbe([qp EXCEPT !.rq = Tail(qp.rq),
                              !.cq = Append(qp.cq, Completion(Head(qp.rq), TRUE))])
<1> DEFINE w == Head(qp.rq)
           c == Completion(w, TRUE)
           rq == Tail(qp.rq)
           cq == Append(qp.cq, c)
<1>1. /\ qp.rq \in Seq(WorkRequests) /\ qp.cq \in Seq(Completions)
      /\ NoProbes(qp.sq) /\ NoProbes(qp.rq) /\ NoProbes(qp.cq)
  BY DEF QpRecords, NoProbe
<1>2. w \in WorkRequests
  BY <1>1, HeadTailProperties, Zenon
<1>3. NoProbes(rq) /\ ~w.probe
  BY <1>1, NoProbesKept, Zenon
<1> HIDE DEF w, rq
<1>4. c \in Completions /\ ~c.probe
  BY <1>2, <1>3 DEF Completion, Completions, WorkRequests
<1> HIDE DEF c
<1>5. NoProbes(cq)
  BY <1>1, <1>4, NoProbesKept
<1> HIDE DEF cq
<1>6. NoProbe([qp EXCEPT !.rq = rq, !.cq = cq])
  BY <1>1, <1>3, <1>5 DEF NoProbe, QpRecords
<1> QED BY <1>6 DEF rq, cq, c, w

\* The error flush of a queue pair with a single request.
LEMMA FlushSingle ==
    ASSUME NEW qp \in QpRecords, NEW w \in WorkRequests, qp.cq = <<>>,
           (qp.sq = <<>> /\ qp.rq = <<w>>) \/ (qp.sq = <<w>> /\ qp.rq = <<>>)
    PROVE  Flushed(qp) = [qp EXCEPT !.err = TRUE, !.sq = <<>>, !.rq = <<>>,
                                    !.cq = <<Completion(w, FALSE)>>]
<1> DEFINE all == qp.sq \o qp.rq
           failures == [i \in DOMAIN all |-> Completion(all[i], FALSE)]
<1>1. all = <<w>>
  <2>1. <<w>> \in Seq(WorkRequests)
    OBVIOUS
  <2>2. <<>> \o <<w>> = <<w>> /\ <<w>> \o <<>> = <<w>>
    BY <2>1, ConcatEmptySeq
  <2> QED BY <2>2
<1>2. failures = <<Completion(w, FALSE)>>
  <2> DEFINE c == Completion(w, FALSE)
  <2>1. DOMAIN all = 1 .. 1 /\ all[1] = w
    BY <1>1
  <2> HIDE DEF c
  <2>4. \A i \in 1 .. 1 : Completion(all[i], FALSE) = c
    <3>1. \A i \in 1 .. 1 : i = 1
      OBVIOUS
    <3>2. Completion(all[1], FALSE) = c
      BY <2>1 DEF c
    <3> QED BY <3>1, <3>2
  <2>2. failures = [i \in 1 .. 1 |-> c]
    <3> DEFINE f(i) == Completion(all[i], FALSE)
    <3>1. failures = [i \in 1 .. 1 |-> f(i)] /\ \A i \in 1 .. 1 : f(i) = c
      BY <2>1, <2>4
    <3> HIDE DEF f, all, failures
    <3> QED BY <3>1
  <2> HIDE DEF failures, c
  <2>3. [i \in 1 .. 1 |-> c] = <<c>>
    OBVIOUS
  <2> QED BY <2>2, <2>3 DEF c
<1>3. Flushed(qp) = [qp EXCEPT !.err = TRUE, !.sq = <<>>, !.rq = <<>>, !.cq = qp.cq \o failures]
  BY DEF Flushed
<1> HIDE DEF failures
<1>4. qp.cq \o failures = <<Completion(w, FALSE)>>
  BY <1>2
<1> QED BY <1>3, <1>4

LEMMA ProbeFlushed ==
    ASSUME NEW slot, NEW qp \in QpRecords, ProbePosted(slot, qp), slot.shadow.gen \in Nat
    PROVE  ProbeLost(slot, Flushed(qp))
<1> DEFINE w == ProbeRequest(slot.shadow.gen)
<1>1. w \in WorkRequests /\ Completion(w, FALSE) = ProbeDone(slot.shadow.gen, FALSE)
  BY DpfrCommAssumption DEF ProbeRequest, WorkRequests, Completion, ProbeDone
<1>2. qp.sq = <<>> /\ qp.rq = <<w>> /\ qp.cq = <<>>
  BY DEF ProbePosted
<1> HIDE DEF w
<1>3. Flushed(qp) = [qp EXCEPT !.err = TRUE, !.sq = <<>>, !.rq = <<>>,
                               !.cq = <<Completion(w, FALSE)>>]
  BY <1>1, <1>2, FlushSingle
<1> QED BY <1>1, <1>3 DEF ProbeLost, QpRecords

LEMMA OneProbeSteps ==
    ASSUME NEW qp \in QpRecords, OneProbe(qp)
    PROVE  /\ \A i \in DOMAIN qp.sq : OneProbe([qp EXCEPT !.sq[i].sent = TRUE])
           /\ qp.sq # <<>> /\ Head(qp.sq).sent =>
                 OneProbe([qp EXCEPT !.sq = Tail(qp.sq),
                                     !.cq = Append(qp.cq, Completion(Head(qp.sq), TRUE))])
           /\ qp.sq \o qp.rq # <<>> => OneProbe(Flushed(qp)) /\ ~Carried(Flushed(qp))
<1>1. /\ qp.sq \in Seq(WorkRequests) /\ qp.rq = <<>> /\ qp.cq \in Seq(Completions)
      /\ Len(qp.sq) \in Nat /\ Len(qp.cq) \in Nat
  BY DEF QpRecords, OneProbe
<1>2. ASSUME NEW i \in DOMAIN qp.sq
      PROVE  OneProbe([qp EXCEPT !.sq[i].sent = TRUE])
  <2> DEFINE sq == [qp.sq EXCEPT ![i].sent = TRUE]
  <2>1. Len(sq) = Len(qp.sq)
    <3>1. DOMAIN sq = 1 .. Len(qp.sq) /\ DOMAIN qp.sq = 1 .. Len(qp.sq)
      BY <1>1
    <3> QED BY <1>1, <3>1
  <2> HIDE DEF sq
  <2>2. [qp EXCEPT !.sq = sq].sq = sq /\ [qp EXCEPT !.sq = sq].rq = qp.rq
        /\ [qp EXCEPT !.sq = sq].cq = qp.cq
    BY DEF QpRecords
  <2> QED BY <2>1, <2>2 DEF OneProbe, sq
<1>3. qp.sq # <<>> => Len(qp.sq) = 1 /\ qp.cq = <<>>
  <2> DEFINE n == Len(qp.sq)
             k == Len(qp.cq)
  <2>0. n + k = 1 /\ n \in Nat /\ k \in Nat
    BY <1>1, Zenon DEF OneProbe
  <2>1. n = 0 => qp.sq = <<>>
    BY <1>1
  <2>2. k = 0 => qp.cq = <<>>
    BY <1>1
  <2> HIDE DEF n, k
  <2>3. qp.sq # <<>> => n = 1 /\ k = 0
    BY <2>0, <2>1
  <2> QED BY <2>2, <2>3 DEF n
<1>4. ASSUME qp.sq # <<>>
      PROVE  OneProbe([qp EXCEPT !.sq = Tail(qp.sq),
                                 !.cq = Append(qp.cq, Completion(Head(qp.sq), TRUE))])
  <2> DEFINE sq == Tail(qp.sq)
             cq == Append(qp.cq, Completion(Head(qp.sq), TRUE))
  <2>1. Len(sq) = 0 /\ Len(cq) = 1
    BY <1>1, <1>3, <1>4
  <2> HIDE DEF sq, cq
  <2>2. [qp EXCEPT !.sq = sq, !.cq = cq].sq = sq /\ [qp EXCEPT !.sq = sq, !.cq = cq].rq = qp.rq
        /\ [qp EXCEPT !.sq = sq, !.cq = cq].cq = cq
    BY DEF QpRecords
  <2>3. OneProbe([qp EXCEPT !.sq = sq, !.cq = cq])
    BY <1>1, <2>1, <2>2 DEF OneProbe
  <2> QED BY <2>3 DEF sq, cq
<1>5. ASSUME qp.sq \o qp.rq # <<>>
      PROVE  OneProbe(Flushed(qp)) /\ ~Carried(Flushed(qp))
  <2>1. qp.sq # <<>>
    BY <1>1, <1>5
  <2>2. PICK w \in WorkRequests : qp.sq = <<w>>
    <3>1. Len(qp.sq) = 1 /\ qp.sq[1] \in WorkRequests
      BY <1>1, <1>3, <2>1
    <3>2. qp.sq = <<qp.sq[1]>>
      BY <1>1, <3>1
    <3> QED BY <3>1, <3>2
  <2>3. Flushed(qp) = [qp EXCEPT !.err = TRUE, !.sq = <<>>, !.rq = <<>>,
                                 !.cq = <<Completion(w, FALSE)>>]
    BY <1>1, <1>3, <2>1, <2>2, FlushSingle
  <2>4. Flushed(qp).sq = <<>> /\ Flushed(qp).rq = <<>> /\ Flushed(qp).cq = <<Completion(w, FALSE)>>
    BY <2>3 DEF QpRecords
  <2>5. ~Completion(w, FALSE).ok
    BY DEF Completion
  <2> DEFINE c == Completion(w, FALSE)
             f == Flushed(qp)
  <2>6. f.sq = <<>> /\ f.rq = <<>> /\ f.cq = <<c>> /\ ~c.ok
    BY <2>4, <2>5
  <2> HIDE DEF c, f
  <2>7. Len(f.sq) = 0 /\ Len(f.cq) = 1 /\ Head(f.cq) = c
    BY <2>6
  <2>8. OneProbe(f) /\ ~Carried(f)
    BY <2>6, <2>7 DEF OneProbe, Carried
  <2> QED BY <2>8 DEF f
<1> QED BY <1>2, <1>4, <1>5

\* A step of the fabric changes one queue pair of the receiver that has work
\* posted, and one of the sender that is not quiet.
LEMMA FabricReceiver ==
    ASSUME TypeOK, SlotsSeparate, UNCHANGED slots, ProbeStages, ProbeFree, NEW d,
           \A i \in QpIds : i # d => qps'["R"][i] = qps["R"][i],
           qps["R"][d].sq # <<>> \/ qps["R"][d].rq # <<>>,
           \A p \in Planes : ProbePosted(slots["R"][p], qps["R"][d])
                               => ProbeStage(slots["R"][p], qps'["R"][d]),
           NoProbe(qps["R"][d]) => NoProbe(qps'["R"][d])
    PROVE  ProbeStages' /\ ProbeFree' /\ KeepsArrived
<1>1. \A p \in Planes : slots["R"][p].shadow.qp # NoQp => slots["R"][p].shadow.qp \in QpIds
  BY EndpointsLive, SidesAndPlanes
<1>2. ASSUME NEW p \in Planes, slots["R"][p].shadow.qp # NoQp
      PROVE  /\ ProbeStage(slots["R"][p], qps'["R"][slots["R"][p].shadow.qp])
             /\ ProbeArrived(slots["R"][p], qps["R"][slots["R"][p].shadow.qp])
                  => ProbeArrived(slots["R"][p], qps'["R"][slots["R"][p].shadow.qp])
  <2>1. ProbeStage(slots["R"][p], qps["R"][slots["R"][p].shadow.qp])
    BY <1>2 DEF ProbeStages
  <2>2. CASE slots["R"][p].shadow.qp # d
    BY <1>1, <1>2, <2>1, <2>2
  <2>3. CASE slots["R"][p].shadow.qp = d
    <3>1. ~ProbeArrived(slots["R"][p], qps["R"][d]) /\ ~ProbeLost(slots["R"][p], qps["R"][d])
      BY DEF ProbeArrived, ProbeLost
    <3> QED BY <2>1, <2>3, <3>1 DEF ProbeStage
  <2> QED BY <2>2, <2>3
<1>3. ProbeStages'
  BY <1>2 DEF ProbeStages
<1>4. KeepsArrived
  BY <1>2 DEF KeepsArrived, ArrivedAt, HasShadow
<1>5. \A i \in QpIds : NoProbe(qps["R"][i]) => NoProbe(qps'["R"][i])
  OBVIOUS
<1>6. ProbeFree'
  BY <1>5 DEF ProbeFree, IsShadow
<1> QED BY <1>3, <1>4, <1>6

LEMMA FabricSender ==
    ASSUME TypeOK, SlotsSeparate, UNCHANGED <<slots, pc>>, SenderHolds, SenderProbe,
           KeepsArrived, NEW q,
           \A i \in QpIds : i # q => qps'["S"][i] = qps["S"][i],
           ~Quiet(qps["S"][q]),
           OneProbe(qps["S"][q]) =>
              /\ OneProbe(qps'["S"][q])
              /\ \/ Carried(qps'["S"][q]) => Carried(qps["S"][q])
                 \/ pc["S"].ph = "probe" /\ Current.shadow.qp = q =>
                       ArrivedAt(slots'["R"], qps'["R"], pc["S"].plane, pc["S"].gen)
    PROVE  SenderProbe'
<1>1. /\ Current' = Current /\ "S" \in Sides /\ pc["S"].plane \in Planes
      /\ Current.shadow.qp # NoQp => Current.shadow.qp \in QpIds
  BY EndpointsLive, StateTypes, SidesAndPlanes DEF Current
<1>2. CASE pc["S"].ph = "resp"
  BY <1>1, <1>2 DEF SenderProbe
<1>3. CASE pc["S"].ph = "probe"
  <2> DEFINE x == Current.shadow.qp
  <2>1. x # NoQp /\ x \in QpIds
    BY <1>1, <1>3 DEF SenderHolds, ShadowOrNews, Held
  <2>2. /\ OneProbe(qps["S"][x])
        /\ Carried(qps["S"][x]) => ArrivedAt(slots'["R"], qps'["R"], pc["S"].plane, pc["S"].gen)
    BY <1>1, <1>3 DEF SenderProbe, KeepsArrived
  <2>3. /\ OneProbe(qps'["S"][x])
        /\ Carried(qps'["S"][x]) => ArrivedAt(slots'["R"], qps'["R"], pc["S"].plane, pc["S"].gen)
    BY <1>3, <2>1, <2>2
  <2> QED BY <1>1, <1>3, <2>3 DEF SenderProbe
<1> QED BY <1>2, <1>3 DEF SenderProbe

LEMMA DeliverKeepsProbe ==
    ASSUME TypeOK, SlotsSeparate, SenderHolds, Pairing, ProbeStages, ProbeFree, SenderProbe,
           NEW q \in QpIds, Deliver(q)
    PROVE  ProbeStages' /\ ProbeFree' /\ KeepsArrived /\ SenderProbe'
<1> DEFINE d == qps["S"][q].dest
           x == qps["S"][q]
           y == qps["R"][d]
<1>1. PICK i \in DOMAIN x.sq :
          /\ Reachable("S", q) /\ y.rq # <<>>
          /\ qps' = [qps EXCEPT !["S"][q].sq[i].sent = TRUE,
                                !["R"][d].rq = Tail(@),
                                !["R"][d].cq = Append(@, Completion(Head(y.rq), TRUE))]
  BY Zenon DEF Deliver
<1>2. d \in QpIds
  <2>1. d \in LiveQps(slots["R"])
    BY <1>1, Zenon DEF Reachable, Peer
  <2> HIDE DEF d
  <2>2. PICK p \in Planes : d \in QpsOf(slots["R"][p])
    BY <2>1 DEF LiveQps
  <2>3. slots["R"][p] \in Slots(QpIds)
    BY StateTypes, SidesAndPlanes
  <2> QED BY <2>2, <2>3 DEF QpsOf, Slots, Endpoints
<1>3. x \in QpRecords /\ y \in QpRecords
  BY <1>2, StateTypes, SidesAndPlanes
<1> DEFINE sent == [x EXCEPT !.sq[i].sent = TRUE]
           got == [y EXCEPT !.rq = Tail(y.rq), !.cq = Append(y.cq, Completion(Head(y.rq), TRUE))]
<1>4. /\ qps'["S"] = [qps["S"] EXCEPT ![q].sq[i].sent = TRUE]
      /\ qps'["R"] = [qps["R"] EXCEPT ![d].rq = Tail(@),
                                      ![d].cq = Append(@, Completion(Head(y.rq), TRUE))]
  BY <1>1, SidesAndPlanes, Zenon DEF TypeOK
<1>5. /\ qps["S"] \in [QpIds -> QpRecords] /\ qps["R"] \in [QpIds -> QpRecords]
      /\ UNCHANGED <<slots, pc>>
  BY StateTypes, SidesAndPlanes, Zenon DEF Deliver
<1>6. /\ qps'["S"][q] = sent /\ \A j \in QpIds : j # q => qps'["S"][j] = qps["S"][j]
      /\ qps'["R"][d] = got /\ \A j \in QpIds : j # d => qps'["R"][j] = qps["R"][j]
  BY <1>2, <1>4, <1>5, Zenon
<1>7. NoProbe(y) => NoProbe(got)
  BY <1>1, <1>3, ReceivedNoProbe
<1>8. \A p \in Planes : ProbePosted(slots["R"][p], y) => ProbeArrived(slots["R"][p], got)
  BY <1>3, ProbeReceived
<1> HIDE DEF got, sent
<1>9. ProbeStages' /\ ProbeFree' /\ KeepsArrived
  <2> HIDE DEF d
  <2>1. \A p \in Planes : ProbePosted(slots["R"][p], y) => ProbeStage(slots["R"][p], got)
    BY <1>8 DEF ProbeStage
  <2> QED BY <1>1, <1>5, <1>6, <1>7, <2>1, FabricReceiver, Zenon
<1>10. OneProbe(x) => OneProbe(sent)
  BY <1>3, OneProbeSteps DEF sent
<1>11. ASSUME pc["S"].ph = "probe", Current.shadow.qp = q
       PROVE  ArrivedAt(slots'["R"], qps'["R"], pc["S"].plane, pc["S"].gen)
  <2>1. HasShadow(Current, pc["S"].gen) /\ pc["S"].plane \in Planes
    BY <1>11, StateTypes, SidesAndPlanes DEF SenderHolds, ShadowOrNews, Held, HasShadow
  <2> SUFFICES ASSUME HasShadow(Opposite, pc["S"].gen)
               PROVE  ProbeArrived(Opposite, qps'["R"][Opposite.shadow.qp])
    BY <1>5 DEF ArrivedAt, Opposite
  <2>2. Opposite.shadow.qp = d
    BY <1>11, <2>1 DEF Pairing, ProbedPair, Linked
  <2>3. ProbeStage(Opposite, y)
    BY <2>1, <2>2 DEF ProbeStages, HasShadow, Opposite
  <2>4. ProbePosted(Opposite, y)
    BY <1>1, <2>3, Zenon DEF ProbeStage, ProbeArrived, ProbeLost
  <2> QED BY <1>6, <1>8, <2>1, <2>2, <2>4 DEF Opposite
<1>12. ~Quiet(x)
  BY DEF Quiet
<1> HIDE DEF x
<1>13. SenderProbe'
  BY <1>5, <1>6, <1>9, <1>10, <1>11, <1>12, FabricSender DEF x
<1> QED BY <1>9, <1>13

LEMMA AcknowledgeKeepsProbe ==
    ASSUME TypeOK, SlotsSeparate, SenderHolds, ProbeStages, ProbeFree, SenderProbe,
           NEW q \in QpIds, Acknowledge(q)
    PROVE  ProbeStages' /\ ProbeFree' /\ KeepsArrived /\ SenderProbe'
<1> DEFINE x == qps["S"][q]
           acked == [x EXCEPT !.sq = Tail(x.sq), !.cq = Append(x.cq, Completion(Head(x.sq), TRUE))]
<1>1. /\ x.sq # <<>> /\ Head(x.sq).sent
      /\ qps' = [qps EXCEPT !["S"][q].sq = Tail(@),
                            !["S"][q].cq = Append(@, Completion(Head(x.sq), TRUE))]
      /\ UNCHANGED <<slots, pc>>
  BY DEF Acknowledge
<1>2. /\ qps'["S"][q] = acked /\ \A j \in QpIds : j # q => qps'["S"][j] = qps["S"][j]
      /\ qps'["R"] = qps["R"] /\ x \in QpRecords
  BY <1>1, StateTypes, SidesAndPlanes DEF TypeOK
<1>3. ProbeStages' /\ ProbeFree' /\ KeepsArrived
  BY <1>1, <1>2, ShadowsSame
<1>4. /\ OneProbe(x) => OneProbe(acked)
      /\ Carried(x) /\ ~Quiet(x)
  BY <1>1, <1>2, OneProbeSteps, Zenon DEF Carried, Quiet
<1> HIDE DEF acked, x
<1>5. SenderProbe'
  BY <1>1, <1>2, <1>3, <1>4, FabricSender DEF x
<1> QED BY <1>3, <1>5

LEMMA QpErrorKeepsProbe ==
    ASSUME TypeOK, SlotsSeparate, SenderHolds, ProbeStages, ProbeFree, SenderProbe,
           NEW s \in Sides, NEW q \in QpIds, QpError(s, q)
    PROVE  ProbeStages' /\ ProbeFree' /\ KeepsArrived /\ SenderProbe'
<1> DEFINE x == qps[s][q]
<1>1. /\ x.sq \o x.rq # <<>> /\ qps' = [qps EXCEPT ![s][q] = Flushed(x)]
      /\ UNCHANGED <<slots, pc>> /\ x \in QpRecords
  BY StateTypes DEF QpError
<1>2. /\ qps'[s][q] = Flushed(x)
      /\ \A j \in QpIds : j # q => qps'[s][j] = qps[s][j]
      /\ \A t \in Sides : t # s => qps'[t] = qps[t]
      /\ "S" \in Sides /\ "R" \in Sides
  BY <1>1, SidesAndPlanes DEF TypeOK
<1>3. x.sq # <<>> \/ x.rq # <<>>
  BY <1>1
<1> HIDE DEF x
<1>4. CASE s = "R"
  <2>1. \A p \in Planes : slots["R"][p].shadow.gen \in Nat
    BY <1>2, StateTypes DEF Slots, Endpoints
  <2>2. \A p \in Planes : ProbePosted(slots["R"][p], x) => ProbeLost(slots["R"][p], Flushed(x))
    BY <1>1, <2>1, ProbeFlushed
  <2>3. NoProbe(x) => NoProbe(Flushed(x))
    BY <1>1, FlushNoProbe
  <2>4. ProbeStages' /\ ProbeFree' /\ KeepsArrived
    BY <1>1, <1>2, <1>3, <1>4, <2>2, <2>3, FabricReceiver DEF ProbeStage, x
  <2>5. qps'["S"] = qps["S"] /\ Current' = Current
    BY <1>1, <1>2, <1>4 DEF Current
  <2>6. pc["S"].plane \in Planes
    BY <1>2, StateTypes
  <2>7. SenderProbe'
    BY <1>1, <2>4, <2>5, <2>6 DEF SenderProbe, KeepsArrived
  <2> QED BY <2>4, <2>7
<1>5. CASE s = "S"
  <2>1. ProbeStages' /\ ProbeFree' /\ KeepsArrived
    BY <1>1, <1>2, <1>5, ShadowsSame
  <2>2. OneProbe(x) => OneProbe(Flushed(x)) /\ ~Carried(Flushed(x))
    BY <1>1, OneProbeSteps
  <2>3. ~Quiet(x)
    BY <1>3 DEF Quiet
  <2>4. SenderProbe'
    BY <1>1, <1>2, <1>5, <2>1, <2>2, <2>3, FabricSender DEF x
  <2> QED BY <2>1, <2>4
<1> QED BY <1>4, <1>5 DEF Sides

LEMMA FabricProbe ==
    ASSUME TypeOK, TypeOK', SlotsSeparate, SenderHolds, Pairing, ProbeStages, ProbeFree,
           SenderProbe, Fabric
    PROVE  ProbeStages' /\ ProbeFree' /\ KeepsArrived /\ SenderProbe'
  BY DeliverKeepsProbe, AcknowledgeKeepsProbe, QpErrorKeepsProbe, Zenon DEF Fabric

-----------------------------------------------------------------------------
\* The handshake, seen from the probe.  Connecting a quiet shadow posts the
\* sender's half of it.
LEMMA ConnectPostsProbe ==
    ASSUME TypeOK, NEW x \in QpIds, NEW y \in QpIds, NEW g \in Nat, Quiet(qps["S"][x])
    PROVE  LET z == ConnectedQp("S", x, y, g)[x]
           IN  OneProbe(z) /\ ~Carried(z)
<1> DEFINE old == qps["S"][x]
           new == [old EXCEPT !.dest = y]
           w == ProbeRequest(g)
           z == ConnectedQp("S", x, y, g)[x]
<1>1. /\ qps["S"] \in [QpIds -> QpRecords] /\ old \in QpRecords
      /\ w \in WorkRequests /\ ~w.sent /\ ~Completion(w, FALSE).ok
  BY StateTypes, SidesAndPlanes, DpfrCommAssumption
     DEF ProbeRequest, WorkRequests, Completion
<1>2. z = PostTo(new, "S", w)
  BY <1>1 DEF ConnectedQp
<1>3. new.sq = <<>> /\ new.rq = <<>> /\ new.cq = <<>> /\ new \in QpRecords
  <2>1. old.sq = <<>> /\ old.rq = <<>> /\ old.cq = <<>>
    BY DEF Quiet
  <2>2. y \in 0 .. MaxQp
    BY DpfrCommAssumption DEF QpIds
  <2> HIDE DEF old, new
  <2>3. [old EXCEPT !.dest = y] \in QpRecords
    BY <1>1, <2>2 DEF QpRecords
  <2>4. /\ [old EXCEPT !.dest = y].sq = old.sq /\ [old EXCEPT !.dest = y].rq = old.rq
        /\ [old EXCEPT !.dest = y].cq = old.cq
    BY <1>1 DEF QpRecords
  <2> QED BY <2>1, <2>3, <2>4 DEF new
<1> DEFINE c == Completion(w, FALSE)
<1>4. z \in {[new EXCEPT !.cq = Append(@, c)], [new EXCEPT !.sq = Append(@, w)]}
  BY <1>2 DEF PostTo
<1>5. ~w.sent /\ ~c.ok
  BY <1>1
<1>6. \A v : /\ Append(<<>>, v) = <<v>> /\ Len(<<v>>) = 1 /\ Head(<<v>>) = v /\ <<v>> # <<>>
             /\ Len(<<>>) = 0
  OBVIOUS
<1> HIDE DEF z, new, c, w, old
<1>7. CASE z = [new EXCEPT !.cq = Append(@, c)]
  <2>1. z.sq = <<>> /\ z.rq = <<>> /\ z.cq = <<c>>
    BY <1>3, <1>6, <1>7 DEF QpRecords
  <2>2. OneProbe(z) /\ ~Carried(z)
    BY <1>5, <1>6, <2>1 DEF OneProbe, Carried
  <2> QED BY <2>2 DEF z
<1>8. CASE z = [new EXCEPT !.sq = Append(@, w)]
  <2>1. z.sq = <<w>> /\ z.rq = <<>> /\ z.cq = <<>>
    BY <1>3, <1>6, <1>8 DEF QpRecords
  <2>2. OneProbe(z) /\ ~Carried(z)
    BY <1>5, <1>6, <2>1 DEF OneProbe, Carried
  <2> QED BY <2>2 DEF z
<1> QED BY <1>4, <1>7, <1>8

LEMMA SenderKeepsProbe ==
    ASSUME TypeOK, TypeOK', OneToken, TablesKnown, SlotsSeparate, SlotsSeparate',
           ShadowInRecovery, SenderHolds, ProbeSound, SenderHandshake
    PROVE  ProbeSound'
<1> DEFINE p == pc["S"].plane
           g == pc["S"].gen
<1>1. /\ "S" \in Sides /\ "R" \in Sides /\ p \in Planes /\ g \in Nat
      /\ Current = slots["S"][p] /\ Current' = slots'["S"][pc'["S"].plane]
      /\ pc'["R"] = pc["R"] /\ pc["R"].plane \in Planes
      /\ Current \in Slots(QpIds)
  BY StateTypes, SidesAndPlanes, SenderLeaves DEF Current
<1>2. ASSUME NEW o \in Planes, NEW sl, NEW q, Move("S", o, sl, q)
      PROVE  /\ slots'["R"] = slots["R"] /\ qps'["R"] = qps["R"]
             /\ slots'["S"][o] = sl
             /\ \A i \in QpIds : i \in LiveQps(slots'["S"]) => qps'["S"][i] = q[i]
  BY <1>1, <1>2, MoveSlot
<1>3. ASSUME NEW ph, NEW o, NEW n, GotoOn("S", ph, o, n)
      PROVE  pc'["S"] = [ph |-> ph, plane |-> o, gen |-> n]
  BY <1>1, <1>3 DEF GotoOn, TypeOK
\* The receiver's half is left alone.
<1>4. ASSUME slots'["R"] = slots["R"], qps'["R"] = qps["R"]
      PROVE  /\ ProbeStages' /\ ProbeFree' /\ KeepsArrived
             /\ \A a \in Planes : \A n :
                   ArrivedAt(slots'["R"], qps'["R"], a, n) <=> ArrivedAt(slots["R"], qps["R"], a, n)
  BY <1>4, ShadowsSame DEF ProbeSound
\* Nothing is left to see when no Ready is sent.
<1>5. ASSUME slots'["R"] = slots["R"], qps'["R"] = qps["R"], ~ProbeOk, SenderProbe'
      PROVE  ProbeSound'
  <2>1. ASSUME NEW i \in 1 .. Len(net'["R"]), net'["R"][i].type = "RecoveryReady"
        PROVE  ArrivedAt(slots'["R"], qps'["R"], net'["R"][i].plane, net'["R"][i].gen)
    <3>1. HandshakeTimeout
      BY <1>1, <1>5, <2>1, SenderLeaves DEF HandshakeTypes
    <3>2. net' = net
      BY <3>1 DEF HandshakeTimeout
    <3> QED BY <1>5, <2>1, <3>2 DEF ProbeSound, ReadyProbe
  <2>2. ReadyProbe'
    BY <1>1, <1>5, <2>1 DEF ProbeSound, ReadyProbe
  <2> QED BY <1>4, <1>5, <2>2 DEF ProbeSound
<1>6. ASSUME pc'["S"].ph \notin {"resp", "probe"}
      PROVE  SenderProbe'
  BY <1>6 DEF SenderProbe
<1>7. ASSUME NEW o \in Planes, RecoverStart(o)
      PROVE  ProbeSound'
  <2> DEFINE n == table["S"][o].gen
  <2>1. pc["S"].ph \notin {"resp", "probe", "ack", "failed"} /\ HasFreshQp("S")
    BY <1>7 DEF RecoverStart, MayRecover, BeforeReplay, In
  <2>2. slots["S"][o].shadow.qp = NoQp
    BY <2>1 DEF ShadowInRecovery
  <2>3. PICK sl : /\ Move("S", o, sl, qps["S"])
                  /\ Begins(slots["S"][o], sl, FreshQp("S"), n)
    BY <1>7, <2>2, SenderMoves
  <2>4. pc'["S"] = [ph |-> "resp", plane |-> o, gen |-> n]
    BY <1>3, <1>7 DEF RecoverStart
  <2>5. FreshQp("S") \in QpIds /\ FreshQp("S") \notin LiveQps(slots["S"])
    BY <1>1, <2>1, FreshQpType DEF NamedQps
  <2>6. Quiet(qps["S"][FreshQp("S")])
    BY <1>1, <2>5, NullHasNoProbe DEF SlotsSeparate
  <2>7. Current' = sl /\ sl.shadow.qp = FreshQp("S")
    BY <1>1, <1>2, <2>3, <2>4 DEF Begins
  <2>8. SenderProbe'
    <3>1. Current'.shadow.qp \in LiveQps(slots'["S"]) \/ Current'.shadow.qp = NoQp
      BY <1>1, <2>4, EndpointsLivePrimed
    <3>2. Current'.shadow.qp # NoQp => Quiet(qps'["S"][Current'.shadow.qp])
      BY <1>2, <2>3, <2>5, <2>6, <2>7, <3>1
    <3> QED BY <2>4, <3>2 DEF SenderProbe
  <2>9. ~ProbeOk
    BY <2>1 DEF ProbeOk, In
  <2> QED BY <1>2, <1>5, <2>3, <2>8, <2>9
<1>8. CASE RecoverRefused \/ ProbeFailed
  <2>1. PICK sl : Move("S", p, sl, qps["S"])
    BY <1>8, SenderMoves DEF SenderGivesUp
  <2>2. GotoOn("S", "recovered", p, 0)
    BY <1>8 DEF RecoverRefused, ProbeFailed, RecoverGiveUp
  <2>3. pc'["S"].ph = "recovered"
    BY <1>1, <2>2 DEF GotoOn, TypeOK
  <2>4. ~ProbeOk
    <3>1. ASSUME ProbeOk
          PROVE  FALSE
      <4>1. GotoOn("S", "ack", p, g)
        BY <3>1 DEF ProbeOk
      <4> QED BY <1>1, <2>3, <4>1 DEF GotoOn, TypeOK
    <3> QED BY <3>1
  <2> QED BY <1>1, <1>2, <1>5, <1>6, <2>1, <2>3, <2>4
<1>9. CASE RecoverConnect
  <2> DEFINE m == Head(net["S"])
             x == Current.shadow.qp
  <2>1. PICK sl : /\ Move("S", p, sl, ConnectedQp("S", x, m.qp, g))
                  /\ Connects(Current, sl, g)
    BY <1>9, SenderMoves
  <2>2. pc["S"].ph = "resp" /\ x \in QpIds /\ m.qp \in QpIds /\ m.plane = p /\ m.gen = g
    BY <1>9, AnswerFirst, SenderMoves
  <2>3. pc'["S"] = [ph |-> "probe", plane |-> p, gen |-> g]
    BY <1>3, <1>9, <2>2 DEF RecoverConnect
  <2>4. x # NoQp /\ Quiet(qps["S"][x])
    BY <1>9, <2>2 DEF RecoverConnect, ProbeSound, SenderProbe
  <2>5. /\ OneProbe(ConnectedQp("S", x, m.qp, g)[x])
        /\ ~Carried(ConnectedQp("S", x, m.qp, g)[x])
    BY <1>1, <2>2, <2>4, ConnectPostsProbe, Zenon
  <2>6. Current' = sl /\ sl.shadow.qp = x
    BY <1>1, <1>2, <2>1, <2>3 DEF Connects
  <2>7. x \in LiveQps(slots'["S"])
    <3>1. slots'["S"][p] = sl
      BY <1>2, <2>1, <1>1
    <3>2. slots'["S"][p].shadow.qp # NoQp
      BY <2>4, <2>6, <3>1
    <3>3. slots'["S"][p].shadow.qp \in LiveQps(slots'["S"])
      BY <1>1, <3>2, EndpointsLivePrimed
    <3> QED BY <2>6, <3>1, <3>3
  <2>8. qps'["S"][x] = ConnectedQp("S", x, m.qp, g)[x]
    <3> HIDE DEF x, m
    <3>1. \A i \in QpIds : i \in LiveQps(slots'["S"]) => qps'["S"][i] = ConnectedQp("S", x, m.qp, g)[i]
      BY <1>1, <1>2, <2>1
    <3> QED BY <2>2, <2>7, <3>1
  <2>9. SenderProbe'
    BY <2>3, <2>5, <2>6, <2>8 DEF SenderProbe
  <2>10. ~ProbeOk
    BY <2>2 DEF ProbeOk, In
  <2> QED BY <1>1, <1>2, <1>5, <2>1, <2>9, <2>10
<1>10. CASE ProbeOk
  <2>1. /\ Move("S", p, RecordProbe(Current, "send", g, TRUE), Popped("S", Current.shadow))
        /\ pc["S"].ph = "probe" /\ HasCompletion("S", Current.shadow, TRUE, TRUE)
    BY <1>10, SenderMoves DEF ProbeOk, In, ShadowCompletion, Current
  <2>2. slots'["R"] = slots["R"] /\ qps'["R"] = qps["R"]
    BY <1>1, <1>2, <2>1
  <2>3. ArrivedAt(slots["R"], qps["R"], p, g)
    BY <2>1 DEF ProbeSound, SenderProbe, HasCompletion, Carried
  <2>4. pc'["S"] = [ph |-> "ack", plane |-> p, gen |-> g]
    BY <1>3, <1>10 DEF ProbeOk
  <2>5. SenderProbe'
    BY <1>6, <2>4
  <2>6. ASSUME NEW i \in 1 .. Len(net'["R"]), net'["R"][i].type = "RecoveryReady"
        PROVE  ArrivedAt(slots'["R"], qps'["R"], net'["R"][i].plane, net'["R"][i].gen)
    <3>1. ~HandshakeTimeout
      BY <2>1 DEF HandshakeTimeout, In
    <3>2. net'["R"][i] = RecoveryReady(p, g)
      BY <1>1, <2>6, <3>1, SenderLeaves DEF HandshakeTypes
    <3> QED BY <2>2, <2>3, <3>2 DEF RecoveryReady
  <2>7. ReadyProbe'
    BY <1>1, <2>2, <2>6 DEF ProbeSound, ReadyProbe
  <2> QED BY <1>4, <2>2, <2>5, <2>7 DEF ProbeSound
<1>11. CASE RecvAck
  <2>1. pc["S"].ph = "ack"
    BY <1>11, AnswerFirst
  <2>2. /\ \E sl : Move("S", p, sl, qps["S"])
        /\ pc'["S"].ph \notin {"resp", "probe"}
    BY <1>11, SenderMoves DEF SenderGivesUp
  <2>3. ~ProbeOk
    BY <2>1 DEF ProbeOk, In
  <2> QED BY <1>1, <1>2, <1>5, <1>6, <2>2, <2>3
<1>12. CASE MarkHealthyS
  <2>1. MarkRecovered("S") /\ UNCHANGED qps /\ GotoOn("S", "recovered", p, 0) /\ In("S", {"mark"})
    BY <1>12 DEF MarkHealthyS
  <2>2. pc'["S"].ph = "recovered"
    BY <1>1, <2>1 DEF GotoOn, TypeOK
  <2>3. ~ProbeOk
    BY <2>1 DEF ProbeOk, In
  <2>4. slots'["R"] = slots["R"]
    BY <1>1, <2>1, MarkMoves
  <2> QED BY <1>5, <1>6, <2>1, <2>2, <2>3, <2>4
<1>13. CASE HandshakeTimeout
  <2>1. /\ UNCHANGED <<slots, qps>> /\ pc'["S"].ph = "failed" /\ ~ProbeOk
    BY <1>1, <1>13 DEF HandshakeTimeout, Goto, At, TypeOK, ProbeOk, In
  <2> QED BY <1>5, <1>6, <2>1
<1> QED BY <1>7, <1>8, <1>9, <1>10, <1>11, <1>12, <1>13 DEF SenderHandshake

LEMMA QuietHasNoProbe ==
    ASSUME NEW qp, Quiet(qp)
    PROVE  NoProbe(qp)
  BY DEF Quiet, NoProbe, NoProbes

\* Giving up, beginning and committing a replacement on the receiver's side.
LEMMA GivenUpProbe ==
    ASSUME TypeOK, TypeOK', SlotsSeparate, SlotsSeparate', ProbeStages, ProbeFree,
           NEW p \in Planes, NEW sl, Move("R", p, sl, qps["R"]), GivesUp(slots["R"][p], sl)
    PROVE  ProbeStages' /\ ProbeFree'
<1> DEFINE q == qps["R"]
           old == slots["R"][p]
<1>1. ASSUME NEW i \in QpsOf(sl)
      PROVE  NoProbe(q[i])
  <2>1. old \in Slots(QpIds) /\ sl \in Slots(QpIds) /\ Loses(old, sl) /\ sl.shadow.qp = NoQp
    BY StateTypes, SidesAndPlanes DEF Move, GivesUp
  <2>2. i \in SlotQps(old) /\ i # NoQp
    BY <2>1 DEF QpsOf, SlotQps, Loses, Keeps
  <2> QED BY <2>2, NotShadow
<1>2. sl.shadow.qp = NoQp /\ Move("R", p, sl, q)
  BY DEF GivesUp
<1>3. \A o \in Planes : o # p => \A i \in QpsOf(slots["R"][o]) : q[i] = qps["R"][i]
  OBVIOUS
<1> HIDE DEF q
<1> QED BY <1>1, <1>2, <1>3, ReceiverMoved

LEMMA BegunProbe ==
    ASSUME TypeOK, TypeOK', SlotsSeparate, SlotsSeparate', ProbeStages, ProbeFree,
           NEW p \in Planes, NEW sl, NEW x \in QpIds, NEW y \in QpIds, NEW g \in Nat,
           x \notin LiveQps(slots["R"]),
           Move("R", p, sl, ConnectedQp("R", x, y, g)), Begins(slots["R"][p], sl, x, g)
    PROVE  ProbeStages' /\ ProbeFree'
<1> DEFINE q == ConnectedQp("R", x, y, g)
           old == slots["R"][p]
           w == ProbeRequest(g)
           new == [NullQp EXCEPT !.dest = y]
<1>1. /\ "R" \in Sides /\ qps["R"] \in [QpIds -> QpRecords] /\ qps["R"][x] = NullQp
      /\ old \in Slots(QpIds)
  BY StateTypes, SidesAndPlanes DEF SlotsSeparate
<1>2. q[x] = PostTo(new, "R", w) /\ \A i \in QpIds : i # x => q[i] = qps["R"][i]
  BY <1>1 DEF ConnectedQp
<1>3. q[x].sq = <<>> /\ q[x].rq = <<w>> /\ q[x].cq = <<>>
  <2>1. new.sq = <<>> /\ new.rq = <<>> /\ new.cq = <<>> /\ ~new.err
    BY DEF NullQp
  <2>2. [new EXCEPT !.rq = Append(@, w)].rq = Append(new.rq, w)
        /\ [new EXCEPT !.rq = Append(@, w)].sq = new.sq
        /\ [new EXCEPT !.rq = Append(@, w)].cq = new.cq
    BY DEF NullQp
  <2> HIDE DEF new, w
  <2>3. PostTo(new, "R", w) = [new EXCEPT !.rq = Append(@, w)]
    BY <2>1 DEF PostTo
  <2>4. Append(<<>>, w) = <<w>>
    OBVIOUS
  <2> HIDE DEF q
  <2> QED BY <1>2, <2>1, <2>2, <2>3, <2>4
<1> HIDE DEF q, new
<1>4. /\ sl.shadow.qp = x /\ sl.shadow.gen = g /\ sl.active = old.active /\ sl.retired = old.retired
      /\ sl.probe = FreshProbe(g)
  BY DEF Begins
<1>5. ProbeStage(sl, q[sl.shadow.qp])
  BY <1>3, <1>4 DEF ProbeStage, ProbePosted, FreshProbe
<1>6. \A o \in Planes : x \notin QpsOf(slots["R"][o]) /\ QpsOf(slots["R"][o]) \subseteq QpIds
  <2>1. \A o \in Planes : slots["R"][o] \in Slots(QpIds)
    BY <1>1, StateTypes
  <2> QED BY <2>1 DEF LiveQps, QpsOf, Slots, Endpoints
<1>7. \A o \in Planes : o # p => \A i \in QpsOf(slots["R"][o]) : q[i] = qps["R"][i]
  BY <1>2, <1>6
<1>8. ASSUME NEW i \in QpsOf(sl), i # sl.shadow.qp
      PROVE  NoProbe(q[i])
  <2>1. i \in SlotQps(old) /\ i # NoQp
    BY <1>4, <1>8 DEF QpsOf, SlotQps
  <2>2. i \in QpIds /\ NoProbe(qps["R"][i])
    BY <2>1, NotShadow
  <2> QED BY <1>2, <1>4, <1>8, <2>2
<1>9. Move("R", p, sl, q)
  BY DEF q
<1> QED BY <1>5, <1>7, <1>8, <1>9, ReceiverMoved

LEMMA CommittedProbe ==
    ASSUME TypeOK, TypeOK', SlotsSeparate, SlotsSeparate', ProbeStages, ProbeFree,
           NEW p \in Planes, NEW sl, NEW q, slots["R"][p].shadow.qp # NoQp,
           Move("R", p, sl, q), Commits(slots["R"][p], sl),
           \A i \in QpIds : i # slots["R"][p].shadow.qp => q[i] = qps["R"][i],
           NoProbe(q[slots["R"][p].shadow.qp])
    PROVE  ProbeStages' /\ ProbeFree'
<1> DEFINE old == slots["R"][p]
           x == old.shadow.qp
<1>1. "R" \in Sides /\ old \in Slots(QpIds) /\ sl \in Slots(QpIds)
  BY StateTypes, SidesAndPlanes DEF Move
<1>2. x \in QpsOf(old) /\ x \in QpIds
  BY <1>1, EndpointsLive DEF QpsOf
<1>3. \A o \in Planes : o # p => x \notin QpsOf(slots["R"][o])
  BY <1>1, <1>2 DEF SlotsSeparate
<1>4. \A o \in Planes : QpsOf(slots["R"][o]) \subseteq QpIds
  BY <1>1, StateTypes DEF QpsOf, Slots, Endpoints
<1>5. \A o \in Planes : o # p => \A i \in QpsOf(slots["R"][o]) : q[i] = qps["R"][i]
  BY <1>3, <1>4
<1>6. sl.shadow.qp = NoQp
  BY DEF Commits, NoEndpoint
<1>7. ASSUME NEW i \in QpsOf(sl)
      PROVE  NoProbe(q[i])
  <2>1. i # NoQp /\ (i = x \/ i \in SlotQps(old))
    BY <1>1, <1>6, <1>7 DEF QpsOf, SlotQps, Commits
  <2>2. CASE i = x
    BY <2>2
  <2>3. CASE i # x
    BY <2>1, <2>3, NotShadow
  <2> QED BY <2>2, <2>3
<1> HIDE DEF x, old
<1> QED BY <1>5, <1>6, <1>7, ReceiverMoved

LEMMA ReceiverKeepsProbe ==
    ASSUME TypeOK, TypeOK', OneToken, TablesKnown, ReplacementsSound,
           SlotsSeparate, SlotsSeparate', Pairing, ProbeSound, ReceiverHandshake
    PROVE  ProbeSound'
<1> DEFINE p == pc["R"].plane
           g == pc["R"].gen
<1>1. /\ "S" \in Sides /\ "R" \in Sides /\ p \in Planes
      /\ pc'["S"] = pc["S"] /\ slots'["S"] = slots["S"] /\ Current' = Current
      /\ Probed = slots["R"][p]
  BY StateTypes, SidesAndPlanes, ReceiverLeaves DEF Current, Probed
<1>2. \A i \in 1 .. Len(net'["R"]) : net'["R"][i].type \notin HandshakeTypes
  BY <1>1, ReceiverLeaves
<1>3. ASSUME NEW o \in Planes, NEW sl, NEW q, Move("R", o, sl, q)
      PROVE  qps'["S"] = qps["S"]
  BY <1>1, <1>3, MoveSlot
\* The sender does not wait for its probe meanwhile, ...
<1>4. ASSUME pc["S"].ph # "probe", qps'["S"] = qps["S"]
      PROVE  SenderProbe'
  BY <1>1, <1>4 DEF ProbeSound, SenderProbe
\* ... and a receiver that does not either has nothing to show for it.
<1>5. ASSUME pc'["R"].ph # "rprobe"
      PROVE  ReadyProbe'
  BY <1>2, <1>5 DEF ReadyProbe, HandshakeTypes
<1>6. ASSUME NEW ready \in BOOLEAN, RecvRecoveryReq(ready)
      PROVE  ProbeSound'
  <2> DEFINE m == Head(net["R"])
             old == slots["R"][m.plane]
             x == FreshQp("R")
  <2>1. /\ net["R"] # <<>> /\ m.type = "RecoveryReq"
        /\ m.plane \in Planes /\ m.gen \in Nat /\ m.qp \in QpIds
        /\ x \in QpIds /\ x \notin NamedQps("R")
        /\ \/ UNCHANGED <<slots, qps>>
           \/ \E sl : Move("R", m.plane, sl, qps["R"]) /\ GivesUp(old, sl)
           \/ \E sl : /\ Move("R", m.plane, sl, ConnectedQp("R", x, m.qp, m.gen))
                      /\ Begins(old, sl, x, m.gen)
    BY <1>6, RequestMoves
  <2> HIDE DEF x
  <2>2. pc["S"].ph # "probe"
    <3>1. TokenFirst("R")
      BY <2>1 DEF TokenFirst, HandshakeTypes
    <3> QED BY <1>1, <3>1, TokenFacts DEF NoTokens, TokenFirst, Matches
  <2>3. pc'["R"].ph # "rprobe"
    <3>1. AfterHandle("R") /\ MayHandle("R")
      BY <1>6 DEF RecvRecoveryReq
    <3> QED BY <3>1, ReceiverPosition
  <2>4. x \notin LiveQps(slots["R"])
    BY <2>1 DEF NamedQps
  <2> HIDE DEF m
  <2>5. ProbeStages' /\ ProbeFree' /\ qps'["S"] = qps["S"]
    <3>1. CASE UNCHANGED <<slots, qps>>
      BY <3>1, ShadowsSame DEF ProbeSound
    <3>2. ASSUME NEW sl, Move("R", m.plane, sl, qps["R"]), GivesUp(old, sl)
          PROVE  ProbeStages' /\ ProbeFree' /\ qps'["S"] = qps["S"]
      BY <1>3, <2>1, <3>2, GivenUpProbe DEF ProbeSound
    <3>3. ASSUME NEW sl, Move("R", m.plane, sl, ConnectedQp("R", x, m.qp, m.gen)),
                 Begins(old, sl, x, m.gen)
          PROVE  ProbeStages' /\ ProbeFree' /\ qps'["S"] = qps["S"]
      BY <1>3, <2>1, <2>4, <3>3, BegunProbe DEF ProbeSound
    <3> QED BY <2>1, <3>1, <3>2, <3>3
  <2> QED BY <1>4, <1>5, <2>2, <2>3, <2>5 DEF ProbeSound
<1>7. CASE RecvRecoveryReady
  <2> DEFINE m == Head(net["R"])
             old == slots["R"][m.plane]
  <2>1. /\ net["R"] # <<>> /\ m.type = "RecoveryReady" /\ m.plane \in Planes
        /\ \/ UNCHANGED <<slots, qps>>
           \/ \E sl : Move("R", m.plane, sl, qps["R"]) /\ GivesUp(old, sl)
        /\ \/ pc'["R"].ph \notin {"rprobe", "rmark"}
           \/ /\ UNCHANGED <<slots, qps>>
              /\ pc'["R"] = [ph |-> "rprobe", plane |-> m.plane, gen |-> m.gen]
    BY <1>7, ReadyMoves
  <2>2. pc["S"].ph # "probe"
    <3>1. TokenFirst("R")
      BY <2>1 DEF TokenFirst, HandshakeTypes
    <3> QED BY <1>1, <3>1, TokenFacts DEF NoTokens, TokenFirst, Matches
  <2>3. 1 \in 1 .. Len(net["R"]) /\ net["R"][1] = m
    BY <1>1, <2>1 DEF TypeOK
  <2>4. ArrivedAt(slots["R"], qps["R"], m.plane, m.gen)
    BY <2>1, <2>3 DEF ProbeSound, ReadyProbe
  <2> HIDE DEF m
  <2>5. ProbeStages' /\ ProbeFree' /\ qps'["S"] = qps["S"]
    <3>1. CASE UNCHANGED <<slots, qps>>
      BY <3>1, ShadowsSame DEF ProbeSound
    <3>2. ASSUME NEW sl, Move("R", m.plane, sl, qps["R"]), GivesUp(old, sl)
          PROVE  ProbeStages' /\ ProbeFree' /\ qps'["S"] = qps["S"]
      BY <1>3, <2>1, <3>2, GivenUpProbe DEF ProbeSound
    <3> QED BY <2>1, <3>1, <3>2
  <2>6. ReadyProbe'
    <3>1. CASE pc'["R"].ph = "rprobe"
      <4>1. /\ UNCHANGED <<slots, qps>>
            /\ pc'["R"] = [ph |-> "rprobe", plane |-> m.plane, gen |-> m.gen]
        BY <2>1, <3>1
      <4>2. ArrivedAt(slots'["R"], qps'["R"], pc'["R"].plane, pc'["R"].gen)
        BY <2>4, <4>1
      <4> QED BY <1>2, <4>2 DEF ReadyProbe, HandshakeTypes
    <3> QED BY <1>5, <3>1
  <2> QED BY <1>4, <2>2, <2>5, <2>6 DEF ProbeSound
<1>8. ASSUME pc["R"].ph \in {"rprobe", "rmark"}
      PROVE  pc["S"].ph # "probe"
  BY <1>8 DEF OneToken
<1>9. CASE CommitR
  <2>1. pc["R"].ph = "rprobe" /\ pc'["R"].ph # "rprobe"
    <3>1. In("R", {"rprobe"}) /\ GotoOn("R", "rmark", p, g)
      BY <1>9 DEF CommitR
    <3> QED BY <1>1, <3>1 DEF In, GotoOn, TypeOK
  <2>2. PICK sl, q : /\ Move("R", p, sl, q) /\ Commits(Probed, sl)
                     /\ \/ Probed.probe.recvDone /\ q = qps["R"]
                        \/ ~Probed.probe.recvDone /\ q = Popped("R", Probed.shadow)
    BY <1>9, ReceiverMoves
  <2> DEFINE x == Probed.shadow.qp
  <2>3. x # NoQp /\ ProbeArrived(Probed, qps["R"][x])
    BY <1>1, <2>1, Zenon DEF ProbeSound, ReadyProbe, ArrivedAt, Pairing, AwaitedShadow, HasShadow
  <2>4. x \in QpIds /\ qps["R"] \in [QpIds -> QpRecords]
    BY <1>1, <2>3, EndpointsLive, StateTypes
  <2>5. Quiet(q[x]) /\ \A i \in QpIds : i # x => q[i] = qps["R"][i]
    <3>1. CASE Probed.probe.recvDone /\ q = qps["R"]
      BY <2>3, <3>1 DEF ProbeArrived, Quiet
    <3>2. CASE ~Probed.probe.recvDone /\ q = Popped("R", Probed.shadow)
      <4> DEFINE y == qps["R"][x]
                 c == ProbeDone(Probed.shadow.gen, TRUE)
      <4>1. y.sq = <<>> /\ y.rq = <<>> /\ y.cq = <<c>>
        BY <2>3, <3>2 DEF ProbeArrived
      <4>2. q[x] = [y EXCEPT !.cq = Tail(@)] /\ \A i \in QpIds : i # x => q[i] = qps["R"][i]
        BY <2>4, <3>2 DEF Popped
      <4>3. y \in QpRecords
        BY <2>4
      <4> HIDE DEF y, c, x
      <4>4. Tail(<<c>>) = <<>>
        OBVIOUS
      <4>5. q[x].sq = <<>> /\ q[x].rq = <<>> /\ q[x].cq = <<>>
        BY <4>1, <4>2, <4>3, <4>4 DEF QpRecords
      <4> QED BY <4>2, <4>5 DEF Quiet
    <3> QED BY <2>2, <3>1, <3>2
  <2>6. NoProbe(q[x])
    BY <2>5, QuietHasNoProbe
  <2>7. ProbeStages' /\ ProbeFree' /\ qps'["S"] = qps["S"]
    BY <1>1, <1>3, <2>2, <2>3, <2>5, <2>6, CommittedProbe, Zenon DEF ProbeSound
  <2> QED BY <1>4, <1>5, <1>8, <2>1, <2>7 DEF ProbeSound
<1>10. CASE RProbeFailed
  <2>1. pc["R"].ph = "rprobe" /\ Goto("R", "control")
    BY <1>10 DEF RProbeFailed, In
  <2>2. pc'["R"].ph # "rprobe"
    BY <2>1, ReceiverPosition DEF At
  <2>3. PICK sl : Move("R", p, sl, qps["R"]) /\ GivesUp(Probed, sl)
    BY <1>10, ReceiverMoves
  <2>4. ProbeStages' /\ ProbeFree' /\ qps'["S"] = qps["S"]
    BY <1>1, <1>3, <2>3, GivenUpProbe DEF ProbeSound
  <2> QED BY <1>4, <1>5, <1>8, <2>1, <2>2, <2>4 DEF ProbeSound
<1>11. CASE MarkHealthyR
  <2>1. pc["R"].ph = "rmark" /\ Goto("R", "control") /\ MarkRecovered("R") /\ UNCHANGED qps
    BY <1>11 DEF MarkHealthyR, In
  <2>2. pc'["R"].ph # "rprobe"
    BY <2>1, ReceiverPosition DEF At
  <2>3. ProbeStages' /\ ProbeFree'
    BY <1>1, <2>1, MarkMoves, ShadowsSame DEF ProbeSound
  <2> QED BY <1>4, <1>5, <1>8, <2>1, <2>2, <2>3 DEF ProbeSound
<1> QED BY <1>6, <1>7, <1>9, <1>10, <1>11 DEF ReceiverHandshake

\* The other steps.
LEMMA OrdinaryProbe ==
    ASSUME TypeOK, TypeOK', SlotsSeparate, SlotsSeparate', SenderHolds, SenderHolds', Pairing,
           ProbeSound, OrdinaryStep,
           \/ Fabric \/ Monitors \/ Control \/ Calls
           \/ StartQuery \/ RecvQueryResp \/ QueryTimeout \/ ReplayLater \/ RecvQuery
    PROVE  ProbeSound'
<1>1. OrdinarySlots /\ ProbeStages /\ ProbeFree /\ SenderProbe /\ ReadyProbe
  BY DEF OrdinaryStep, ProbeSound
<1>2. ASSUME ProbeStages', ProbeFree', KeepsArrived, SenderProbe'
      PROVE  ProbeSound'
  BY <1>1, <1>2, OrdinaryReady DEF ProbeSound
<1>3. ASSUME ProbeStages', ProbeFree', KeepsArrived, SenderSpared
      PROVE  ProbeSound'
  BY <1>1, <1>2, <1>3, OrdinarySender
<1>4. ASSUME ReceiverSpared, SenderSpared
      PROVE  ProbeSound'
  BY <1>1, <1>3, <1>4, SparedProbes
<1>5. CASE Fabric
  BY <1>1, <1>2, <1>5, FabricProbe
<1>6. CASE Monitors
  BY <1>1, <1>4, <1>6, MonitorsSpared
<1>7. CASE Control
  BY <1>1, <1>4, <1>7, ControlSpared
<1>8. CASE StartQuery \/ RecvQueryResp \/ QueryTimeout \/ ReplayLater \/ RecvQuery
  BY <1>1, <1>4, <1>8, QueriesSpared
<1>9. CASE Calls
  <2>1. PICK s \in Sides : PollCq(s) \/ Return(s) \/ Post(s) \/ Backpressure(s) \/ Test(s)
    BY <1>9 DEF Calls
  <2>2. ASSUME NEW p \in Planes, NEW e \in PolledEndpoints(slots[s][p]), NEW ok \in BOOLEAN,
               PollProbe(s, p, e, ok)
        PROVE  ProbeSound'
    BY <1>1, <1>3, <2>2, PollProbeKeeps
  <2>3. CASE \/ Return(s) \/ Post(s) \/ Backpressure(s) \/ Test(s)
             \/ \E p \in Planes : \E e \in PolledEndpoints(slots[s][p]) :
                   \/ \E ok \in BOOLEAN : PollStale(s, p, e, ok)
                   \/ PollSuccess(s, p, e) \/ PollStaleError(s, p, e) \/ PollError(s, p, e)
    BY <1>1, <1>4, <2>3, CallsSpared
  <2> QED BY <2>1, <2>2, <2>3, Zenon DEF PollCq
<1> QED BY <1>5, <1>6, <1>7, <1>8, <1>9

LEMMA InitProbe ==
    ASSUME Init
    PROVE  ProbeSound
<1>1. /\ \A s \in Sides : pc[s].ph = "idle" /\ net[s] = <<>>
      /\ "S" \in Sides /\ "R" \in Sides
  BY SidesAndPlanes DEF Init, At
<1>2. \A p \in Planes : slots["R"][p].shadow.qp = NoQp
  <2>1. \A p \in Planes : slots["R"][p].shadow = NoEndpoint
    BY <1>1 DEF Init
  <2> QED BY <2>1 DEF NoEndpoint
<1>3. \A i \in QpIds : NoProbe(qps["R"][i])
  <2>1. \A i \in QpIds : qps["R"][i] = IF i <= NPlanes THEN [NullQp EXCEPT !.dest = i] ELSE NullQp
    BY <1>1 DEF Init
  <2>2. \A i : NoProbe([NullQp EXCEPT !.dest = i])
    BY DEF NoProbe, NoProbes, NullQp
  <2> QED BY <2>1, <2>2, NullHasNoProbe
<1>4. ProbeStages /\ ProbeFree
  BY <1>2, <1>3 DEF ProbeStages, ProbeFree
<1>5. SenderProbe /\ ReadyProbe
  BY <1>1 DEF SenderProbe, ReadyProbe
<1> QED BY <1>4, <1>5 DEF ProbeSound

LEMMA NextProbe ==
    ASSUME TypeOK, TypeOK', TablesKnown, ReplacementsSound, RecoverySound, RecoverySound',
           ProbeSound, [Next]_vars
    PROVE  ProbeSound'
<1>1. /\ OneToken /\ SlotsSeparate /\ ShadowInRecovery /\ SenderHolds /\ Pairing
      /\ SlotsSeparate' /\ SenderHolds'
  BY DEF RecoverySound
<1>2. CASE SenderHandshake
  BY <1>1, <1>2, SenderKeepsProbe
<1>3. CASE ReceiverHandshake
  BY <1>1, <1>3, ReceiverKeepsProbe
<1>4. CASE \/ Fabric \/ Monitors \/ Control \/ Calls
           \/ StartQuery \/ RecvQueryResp \/ QueryTimeout \/ ReplayLater \/ RecvQuery
  <2>1. OrdinaryStep
    BY <1>1, <1>4, FabricOrdinary, MonitorsOrdinary, ControlOrdinary, QueriesOrdinary, CallsOrdinary
  <2> QED BY <1>1, <1>4, <2>1, OrdinaryProbe
<1>5. CASE UNCHANGED vars
  <2>1. Current' = Current /\ UNCHANGED <<slots, qps, pc, net>>
    BY <1>5 DEF vars, Current
  <2> QED BY <2>1 DEF ProbeSound, ProbeStages, ProbeFree, SenderProbe, ReadyProbe
<1> QED BY <1>2, <1>3, <1>4, <1>5 DEF Next, Sender, Receiver, SenderHandshake, ReceiverHandshake

LEMMA ProbeStaysSound == Spec => []ProbeSound
<1>1. TypeOK /\ TypeOK' /\ TablesKnown /\ ReplacementsSound /\ RecoverySound /\ RecoverySound'
        /\ ProbeSound /\ [Next]_vars
        => ProbeSound'
  BY NextProbe
<1>2. Init => ProbeSound
  BY InitProbe
<1> QED BY <1>1, <1>2, ConnectionTypes, CarriedIsReached, ReplacementStaysSound, RecoveryStaysSound,
           PTL DEF Spec

\* The receiver never waits in handleRecoveryReady for a probe that is still to
\* come or has failed, since the sender says Ready only when its own half is done.
THEOREM ProbesHaveArrived == Spec => []ProbeAlreadyArrived
<1>1. TypeOK /\ RecoverySound /\ ProbeSound => ProbeAlreadyArrived
  <2> SUFFICES ASSUME TypeOK, RecoverySound, ProbeSound, pc["R"].ph = "rprobe"
               PROVE  ~Probed.probe.failed /\ (Probed.probe.recvDone \/ ShadowCompletion("R", TRUE))
    BY DEF ProbeAlreadyArrived, In
  <2> DEFINE y == qps["R"][Probed.shadow.qp]
             c == ProbeDone(Probed.shadow.gen, TRUE)
  <2>1. ProbeArrived(Probed, y)
    BY Zenon DEF RecoverySound, Pairing, AwaitedShadow, ProbeSound, ReadyProbe, ArrivedAt,
                 HasShadow, Probed
  <2>2. CASE Probed.probe.recvDone
    BY <2>1, <2>2 DEF ProbeArrived
  <2>3. CASE ~Probed.probe.recvDone
    <3>1. y.cq = <<c>> /\ ~Probed.probe.failed
      BY <2>1, <2>3 DEF ProbeArrived
    <3>2. y.cq # <<>> /\ Head(y.cq) = c /\ c.probe = TRUE /\ c.ok = TRUE
      BY <3>1 DEF ProbeDone
    <3>3. ShadowCompletion("R", TRUE)
      BY <3>2, Zenon DEF ShadowCompletion, HasCompletion, Probed
    <3> QED BY <3>1, <3>3
  <2> QED BY <2>2, <2>3
<1> QED BY <1>1, ConnectionTypes, RecoveryStaysSound, ProbeStaysSound, PTL

-----------------------------------------------------------------------------
\* The sender's waits for the receiver, and the messages that end them.
SenderWaits == {"query", "resp", "ack"}

AnswerTypes == {"QueryResp", "RecoveryResp", "RecoveryAck"}

\* The receiver is at work on the handshake of plane p at g.
AtWork(at, p, g) == at.ph \in {"rprobe", "rmark"} /\ at.plane = p /\ at.gen = g

SenderStays == pc'["S"] = pc["S"] /\ req'["S"].seq = req["S"].seq

LEMMA QueueMembers ==
    ASSUME NEW q \in Seq(Messages), NEW n \in Messages
    PROVE  /\ n \in ToSet(Append(q, n))
           /\ \A m \in ToSet(q) : m \in ToSet(Append(q, n))
           /\ q # <<>> => \A m \in ToSet(q) : m = Head(q) \/ m \in ToSet(Tail(q))
<1>1. /\ Append(q, n) \in Seq(Messages) /\ Len(Append(q, n)) = Len(q) + 1
      /\ Append(q, n)[Len(q) + 1] = n
      /\ \A i \in 1 .. Len(q) : Append(q, n)[i] = q[i]
  OBVIOUS
<1>2. \A s \in Seq(Messages) : \A m : m \in ToSet(s) <=> \E i \in 1 .. Len(s) : m = s[i]
  BY DEF ToSet
<1>3. ASSUME NEW m \in ToSet(q)
      PROVE  m \in ToSet(Append(q, n))
  <2>1. PICK i \in 1 .. Len(q) : m = q[i]
    BY <1>2
  <2>2. i \in 1 .. Len(Append(q, n)) /\ m = Append(q, n)[i]
    BY <1>1, <2>1
  <2> QED BY <1>1, <1>2, <2>2
<1>4. n \in ToSet(Append(q, n))
  <2>1. Len(q) + 1 \in 1 .. Len(Append(q, n))
    BY <1>1
  <2> QED BY <1>1, <1>2, <2>1
<1>5. ASSUME q # <<>>, NEW m \in ToSet(q), m # Head(q)
      PROVE  m \in ToSet(Tail(q))
  <2>1. PICK i \in 1 .. Len(q) : m = q[i]
    BY <1>2
  <2>2. Tail(q) \in Seq(Messages) /\ i - 1 \in 1 .. Len(Tail(q)) /\ Tail(q)[i - 1] = m
    BY <1>5, <2>1
  <2> QED BY <1>2, <2>2
<1> QED BY <1>3, <1>4, <1>5

\* What is on its way stays so, but for the head of a socket that is taken; and
\* what is sent is on its way.
LEMMA SocketMembers ==
    ASSUME TypeOK, NEW s \in Sides, NEW n \in Messages
    PROVE  /\ Send(s, n) =>
                 /\ n \in ToSet(net'[Peer(s)])
                 /\ \A t \in Sides : \A m \in ToSet(net[t]) : m \in ToSet(net'[t])
           /\ net[s] # <<>> /\ Receive(s) =>
                 \A t \in Sides : \A m \in ToSet(net[t]) :
                    m \in ToSet(net'[t]) \/ (t = s /\ m = Head(net[s]))
           /\ net[s] # <<>> /\ ReceiveAndSend(s, n) =>
                 /\ n \in ToSet(net'[Peer(s)])
                 /\ \A t \in Sides : \A m \in ToSet(net[t]) :
                       m \in ToSet(net'[t]) \/ (t = s /\ m = Head(net[s]))
<1>1. /\ Peer(s) \in Sides /\ Peer(s) # s /\ Sides = {s, Peer(s)}
      /\ net \in [Sides -> Seq(Messages)]
  BY SidesAndPlanes DEF TypeOK, Sides, Peer
<1>2. net[s] \in Seq(Messages) /\ net[Peer(s)] \in Seq(Messages)
  BY <1>1
<1>3. CASE Send(s, n)
  <2>1. net'[Peer(s)] = Append(net[Peer(s)], n) /\ net'[s] = net[s]
    BY <1>1, <1>3 DEF Send
  <2>2. \A t \in Sides : t = s \/ t = Peer(s)
    BY <1>1
  <2>3. ~(Receive(s) \/ ReceiveAndSend(s, n)) \/ net[s] = <<>>
    <3>1. Receive(s) \/ ReceiveAndSend(s, n) => net'[s] = Tail(net[s])
      BY <1>1 DEF Receive, ReceiveAndSend
    <3>2. net[s] # <<>> => Len(Tail(net[s])) # Len(net[s])
      BY <1>2
    <3> QED BY <2>1, <3>1, <3>2
  <2> QED BY <1>2, <2>1, <2>2, <2>3, QueueMembers
<1>4. CASE net[s] # <<>> /\ Receive(s)
  <2>1. net'[s] = Tail(net[s]) /\ net'[Peer(s)] = net[Peer(s)]
    BY <1>1, <1>4 DEF Receive
  <2>2. \A t \in Sides : t = s \/ t = Peer(s)
    BY <1>1
  <2>3. ~Send(s, n) /\ ~ReceiveAndSend(s, n)
    <3>1. Send(s, n) \/ ReceiveAndSend(s, n) => net'[Peer(s)] = Append(net[Peer(s)], n)
      BY <1>1 DEF Send, ReceiveAndSend
    <3>2. Len(Append(net[Peer(s)], n)) # Len(net[Peer(s)])
      BY <1>2
    <3> QED BY <2>1, <3>1, <3>2
  <2> QED BY <1>2, <1>4, <2>1, <2>2, <2>3, QueueMembers
<1>5. CASE net[s] # <<>> /\ ReceiveAndSend(s, n)
  <2>1. net'[s] = Tail(net[s]) /\ net'[Peer(s)] = Append(net[Peer(s)], n)
    BY <1>1, <1>5 DEF ReceiveAndSend
  <2>2. \A t \in Sides : t = s \/ t = Peer(s)
    BY <1>1
  <2>3. ~Send(s, n)
    <3>1. Send(s, n) => net'[s] = net[s]
      BY <1>1 DEF Send
    <3>2. Len(Tail(net[s])) # Len(net[s])
      BY <1>2, <1>5
    <3> QED BY <2>1, <3>1, <3>2
  <2> QED BY <1>2, <1>5, <2>1, <2>2, <2>3, QueueMembers
<1> QED BY <1>3, <1>4, <1>5

\* A disturbed request keeps its number.
LEMMA DisturbKeepsSeq ==
    ASSUME NEW s, NEW r \in Requests, NEW p
    PROVE  Disturb(s, r, p).seq = r.seq
  BY DEF Disturb, Requests

\* A sender that does not wait needs no answer.
LEMMA NotWaiting ==
    ASSUME pc'["S"].ph \notin SenderWaits
    PROVE  WaitIsAnswered'
  BY DEF WaitIsAnswered, In, SenderWaits

\* Nothing that ends the sender's wait is lost.
NothingLost ==
    /\ \A t \in Sides : \A m \in ToSet(net[t]) :
          \/ m \in ToSet(net'[t])
          \/ m.type = "PlaneEvent"
          \/ m.type \in AnswerTypes /\ ~(t = "S" /\ Awaited("S", m))
    /\ \A p, g : AtWork(pc["R"], p, g) => AtWork(pc'["R"], p, g)

LEMMA NothingLostAnswered ==
    ASSUME WaitIsAnswered, NothingLost, SenderStays
    PROVE  WaitIsAnswered'
<1>1. \A m \in ToSet(net["R"]) : m.type \in {"Query", "RecoveryReq", "RecoveryReady"}
          => m \in ToSet(net'["R"])
  BY DEF NothingLost, AnswerTypes, Sides
<1>2. \A m \in ToSet(net["S"]) : m.type \in AnswerTypes /\ Awaited("S", m) => m \in ToSet(net'["S"])
  BY DEF NothingLost, AnswerTypes, Sides
<1>3. CASE pc["S"].ph = "query"
  BY <1>1, <1>2, <1>3 DEF SenderStays, Awaited, AnswerTypes, In, WaitIsAnswered, Coming
<1>4. CASE pc["S"].ph = "resp"
  BY <1>1, <1>2, <1>4 DEF SenderStays, Awaited, AnswerTypes, In, WaitIsAnswered, Coming
<1>5. CASE pc["S"].ph = "ack"
  BY <1>1, <1>2, <1>5 DEF SenderStays, Awaited, AnswerTypes, In, WaitIsAnswered, Coming,
                                     NothingLost, AtWork
<1>6. CASE pc["S"].ph \notin SenderWaits
  BY <1>6, NotWaiting DEF SenderStays
<1> QED BY <1>3, <1>4, <1>5, <1>6 DEF SenderWaits

\* The receiver answers the question it takes: what it sends is about the same.
AnswersTo(q, a) ==
    \/ q.type = "Query" /\ a.type = "QueryResp" /\ a.seq = q.seq
    \/ q.type = "RecoveryReq" /\ a.type = "RecoveryResp" /\ a.plane = q.plane /\ a.gen = q.gen
    \/ q.type = "RecoveryReady" /\ a.type = "RecoveryAck" /\ a.plane = q.plane /\ a.gen = q.gen

LEMMA AnswerSent ==
    ASSUME TypeOK, WaitIsAnswered, SenderStays, MayHandle("R"), net["R"] # <<>>,
           NEW a \in Messages, ReceiveAndSend("R", a), AnswersTo(Head(net["R"]), a)
    PROVE  WaitIsAnswered'
<1> DEFINE q == Head(net["R"])
<1>1. /\ a \in ToSet(net'["S"])
      /\ \A m \in ToSet(net["R"]) : m \in ToSet(net'["R"]) \/ m = q
      /\ \A m \in ToSet(net["S"]) : m \in ToSet(net'["S"])
  BY SocketMembers DEF Sides, Peer
<1>2. \A p, g : ~AtWork(pc["R"], p, g)
  BY DEF MayHandle, In, AtWork
<1> HIDE DEF q
<1>3. CASE pc["S"].ph = "query"
  BY <1>1, <1>3 DEF SenderStays, AnswersTo, In, WaitIsAnswered, Coming, q
<1>4. CASE pc["S"].ph = "resp"
  BY <1>1, <1>4 DEF SenderStays, AnswersTo, In, WaitIsAnswered, Coming, q
<1>5. CASE pc["S"].ph = "ack"
  BY <1>1, <1>2, <1>5 DEF SenderStays, AnswersTo, In, WaitIsAnswered, Coming, AtWork, q
<1>6. CASE pc["S"].ph \notin SenderWaits
  BY <1>6, NotWaiting DEF SenderStays
<1> QED BY <1>3, <1>4, <1>5, <1>6 DEF SenderWaits

\* The receiver's steps of the handshake and its answers to queries.
LEMMA ReceiverAnswers ==
    ASSUME TypeOK, WaitIsAnswered, Receiver
    PROVE  WaitIsAnswered'
<1>1. /\ "R" \in Sides /\ "S" \in Sides /\ Peer("R") = "S"
      /\ net["R"] \in Seq(Messages) /\ pc \in [Sides -> Positions] /\ req \in [Sides -> Requests]
  BY SidesAndPlanes DEF Peer, TypeOK
<1> DEFINE q == Head(net["R"])
<1>2. net["R"] # <<>> => q \in Messages
  BY <1>1
<1>3. AfterHandle("R") => pc'["S"] = pc["S"]
  BY <1>1 DEF AfterHandle, Goto
<1>4. CASE RecvQuery
  <2>1. /\ net["R"] # <<>> /\ q.type = "Query" /\ MayHandle("R") /\ pc'["S"] = pc["S"]
    BY <1>3, <1>4 DEF RecvQuery, Arrived
  <2>2. PICK answer \in {"done", "posted", "retry"} : ReceiveAndSend("R", QueryResp(q.seq, answer))
    BY <1>4 DEF RecvQuery
  <2>3. req'["S"] = req["S"]
    BY <1>1, <1>4 DEF RecvQuery, PostRequest
  <2>4. QueryResp(q.seq, answer) \in Messages
    BY <1>2, <2>1, MessageFields, QueryTypes
  <2>5. AnswersTo(q, QueryResp(q.seq, answer))
    BY <2>1 DEF AnswersTo, QueryResp
  <2> QED BY <2>1, <2>2, <2>3, <2>4, <2>5, AnswerSent DEF SenderStays
<1>5. ASSUME NEW ready \in BOOLEAN, RecvRecoveryReq(ready)
      PROVE  WaitIsAnswered'
  <2>1. /\ net["R"] # <<>> /\ q.type = "RecoveryReq" /\ MayHandle("R") /\ pc'["S"] = pc["S"]
        /\ req' = req
    BY <1>3, <1>5 DEF RecvRecoveryReq, Arrived
  <2>2. q.plane \in Planes /\ q.gen \in Nat
    BY <1>2, <2>1, MessageFields
  <2>3. \/ ReceiveAndSend("R", RecoveryResp(q.plane, q.gen, FALSE, NoQp))
        \/ /\ ReceiveAndSend("R", RecoveryResp(q.plane, q.gen, TRUE, FreshQp("R")))
           /\ HasFreshQp("R")
    BY <1>5 DEF RecvRecoveryReq
  <2>4. HasFreshQp("R") => FreshQp("R") \in QpIds
    BY DEF HasFreshQp, FreshQp
  <2>5. PICK ok, i : /\ RecoveryResp(q.plane, q.gen, ok, i) \in Messages
                     /\ ReceiveAndSend("R", RecoveryResp(q.plane, q.gen, ok, i))
    BY <2>2, <2>3, <2>4, MessageTypes
  <2>6. AnswersTo(q, RecoveryResp(q.plane, q.gen, ok, i))
    BY <2>1 DEF AnswersTo, RecoveryResp
  <2> QED BY <2>1, <2>5, <2>6, AnswerSent DEF SenderStays
<1>6. CASE RecvRecoveryReady
  <2>1. /\ net["R"] # <<>> /\ q.type = "RecoveryReady" /\ MayHandle("R") /\ req' = req
    BY <1>6 DEF RecvRecoveryReady, Arrived
  <2>2. q.plane \in Planes /\ q.gen \in Nat
    BY <1>2, <2>1, MessageFields
  <2>3. CASE ReceiveAndSend("R", RecoveryAck(q.plane, q.gen, FALSE)) /\ AfterHandle("R")
    <3>1. RecoveryAck(q.plane, q.gen, FALSE) \in Messages
      BY <2>2, MessageTypes
    <3>2. AnswersTo(q, RecoveryAck(q.plane, q.gen, FALSE))
      BY <2>1 DEF AnswersTo, RecoveryAck
    <3> QED BY <1>3, <2>1, <2>3, <3>1, <3>2, AnswerSent DEF SenderStays
  <2>4. CASE Receive("R") /\ GotoOn("R", "rprobe", q.plane, q.gen)
    <3>1. pc'["S"] = pc["S"] /\ AtWork(pc'["R"], q.plane, q.gen)
      BY <1>1, <2>4 DEF GotoOn, AtWork
    <3>2. /\ \A m \in ToSet(net["R"]) : m \in ToSet(net'["R"]) \/ m = q
          /\ \A m \in ToSet(net["S"]) : m \in ToSet(net'["S"])
      BY <1>1, <1>2, <2>1, <2>4, SocketMembers DEF Sides
    <3>3. \A p, g : ~AtWork(pc["R"], p, g)
      BY <2>1 DEF MayHandle, In, AtWork
    <3> HIDE DEF q
    <3>4. CASE pc["S"].ph = "query"
      BY <2>1, <3>1, <3>2, <3>4 DEF In, WaitIsAnswered, Coming
    <3>5. CASE pc["S"].ph = "resp"
      BY <2>1, <3>1, <3>2, <3>5 DEF In, WaitIsAnswered, Coming
    <3>6. CASE pc["S"].ph = "ack"
      BY <2>1, <3>1, <3>2, <3>3, <3>6 DEF In, WaitIsAnswered, Coming, AtWork
    <3>7. CASE pc["S"].ph \notin SenderWaits
      BY <3>1, <3>7, NotWaiting
    <3> QED BY <3>4, <3>5, <3>6, <3>7 DEF SenderWaits
  <2> QED BY <1>6, <2>3, <2>4 DEF RecvRecoveryReady
<1>7. CASE CommitR
  <2>1. SenderStays /\ net' = net
    BY <1>1, <1>7 DEF CommitR, GotoOn, SenderStays
  <2>2. \A p, g : AtWork(pc["R"], p, g) => AtWork(pc'["R"], p, g)
    BY <1>1, <1>7 DEF CommitR, GotoOn, AtWork
  <2> QED BY <2>1, <2>2, NothingLostAnswered DEF NothingLost
<1>8. CASE RProbeFailed \/ MarkHealthyR
  <2> DEFINE p == pc["R"].plane
             g == pc["R"].gen
  <2>1. p \in Planes /\ g \in Nat
    BY <1>1 DEF Positions
  <2>2. PICK ok \in BOOLEAN : Send("R", RecoveryAck(p, g, ok))
    <3>1. HealthyIfGenerationOK(table["R"][p], g) \in BOOLEAN
      BY DEF HealthyIfGenerationOK
    <3> QED BY <1>8, <3>1 DEF RProbeFailed, MarkHealthyR
  <2> DEFINE a == RecoveryAck(p, g, ok)
  <2>3. a \in Messages /\ a.type = "RecoveryAck" /\ a.plane = p /\ a.gen = g
    BY <2>1, MessageTypes DEF RecoveryAck
  <2>4. a \in ToSet(net'["S"]) /\ \A t \in Sides : \A m \in ToSet(net[t]) : m \in ToSet(net'[t])
    BY <1>1, <2>2, <2>3, SocketMembers
  <2>5. SenderStays
    BY <1>1, <1>8 DEF RProbeFailed, MarkHealthyR, Goto, SenderStays
  <2> HIDE DEF a
  <2>6. CASE pc["S"].ph = "ack"
    BY <1>1, <2>3, <2>4, <2>5, <2>6 DEF SenderStays, In, WaitIsAnswered, Coming, AtWork
  <2>7. CASE pc["S"].ph \in {"query", "resp"}
    BY <1>1, <2>4, <2>5, <2>7 DEF SenderStays, In, WaitIsAnswered, Coming
  <2>8. CASE pc["S"].ph \notin SenderWaits
    BY <2>5, <2>8, NotWaiting DEF SenderStays
  <2> QED BY <2>6, <2>7, <2>8 DEF SenderWaits
<1> QED BY <1>4, <1>5, <1>6, <1>7, <1>8 DEF Receiver

\* The sender asks before it waits, and waits no more when it takes an answer.
LEMMA SenderAsks ==
    ASSUME TypeOK, Sender
    PROVE  WaitIsAnswered'
<1>1. /\ "S" \in Sides /\ Peer("S") = "R" /\ pc \in [Sides -> Positions]
      /\ req["S"] \in Requests
  BY SidesAndPlanes DEF Peer, TypeOK
<1>2. CASE StartQuery
  <2> DEFINE n == Query(req["S"].seq)
  <2>1. n \in Messages /\ n.type = "Query" /\ n.seq = req["S"].seq
    BY <1>1, QueryTypes DEF Requests, Query
  <2>2. Send("S", n) /\ req' = req /\ pc'["S"].ph = "query"
    BY <1>1, <1>2 DEF StartQuery, Goto, At
  <2>3. n \in ToSet(net'["R"])
    BY <1>1, <2>1, <2>2, SocketMembers
  <2> HIDE DEF n
  <2> QED BY <2>1, <2>2, <2>3 DEF WaitIsAnswered, In, Coming
<1>3. ASSUME NEW p \in Planes, RecoverStart(p)
      PROVE  WaitIsAnswered'
  <2> DEFINE g == table["S"][p].gen
             i == EnsureShadow(slots["S"][p], g, FreshQp("S")).shadow.qp
             n == RecoveryReq(p, g, i)
  <2>1. /\ Send("S", n) /\ pc'["S"].ph = "resp" /\ pc'["S"].plane = p /\ pc'["S"].gen = g
    BY <1>1, <1>3 DEF RecoverStart, GotoOn
  <2>2. n \in Messages
    <3>1. g \in Nat /\ slots["S"][p] \in Slots(QpIds)
      BY <1>1, StateTypes DEF PlaneEntry
    <3>2. FreshQp("S") \in QpIds
      BY <1>3 DEF RecoverStart, HasFreshQp, FreshQp
    <3> DEFINE sl == EnsureShadow(slots["S"][p], g, FreshQp("S"))
    <3>3. sl \in Slots(QpIds) /\ sl.shadow.qp # NoQp
      <4>1. sl \in Slots(QpIds)
        BY <3>1, <3>2, EnsureShadowType
      <4>2. sl.shadow.qp # NoQp
        BY <3>1, <3>2, SidesAndPlanes DEF EnsureShadow, ResetProbe, NewEndpoint, Slots
      <4> QED BY <4>1, <4>2
    <3> HIDE DEF sl
    <3>4. sl.shadow.qp \in QpIds
      BY <3>3 DEF Slots, Endpoints
    <3> QED BY <3>1, <3>4, MessageTypes DEF sl
  <2>3. n.type = "RecoveryReq" /\ n.plane = p /\ n.gen = g
    BY DEF RecoveryReq
  <2>4. n \in ToSet(net'["R"])
    BY <1>1, <2>1, <2>2, SocketMembers
  <2> HIDE DEF n, g
  <2> QED BY <2>1, <2>3, <2>4 DEF WaitIsAnswered, In, Coming
<1>4. CASE ProbeOk
  <2> DEFINE p == pc["S"].plane
             g == pc["S"].gen
             n == RecoveryReady(p, g)
  <2>1. /\ Send("S", n) /\ pc'["S"].ph = "ack" /\ pc'["S"].plane = p /\ pc'["S"].gen = g
    BY <1>1, <1>4 DEF ProbeOk, GotoOn
  <2>2. n \in Messages
    BY <1>1, MessageTypes DEF Positions
  <2>3. n.type = "RecoveryReady" /\ n.plane = p /\ n.gen = g
    BY DEF RecoveryReady
  <2>4. n \in ToSet(net'["R"])
    BY <1>1, <2>1, <2>2, SocketMembers
  <2> HIDE DEF n, g, p
  <2> QED BY <2>1, <2>3, <2>4 DEF WaitIsAnswered, In, Coming
<1>5. ASSUME \/ RecvQueryResp \/ QueryTimeout \/ ReplayLater \/ RecoverRefused \/ RecoverConnect
             \/ ProbeFailed \/ RecvAck \/ MarkHealthyS \/ HandshakeTimeout
      PROVE  WaitIsAnswered'
  <2>1. PICK ph \in {"replayed", "recovered", "probe", "mark", "failed"} :
            Goto("S", ph) \/ \E p, g : GotoOn("S", ph, p, g)
    BY <1>5 DEF RecvQueryResp, QueryTimeout, ReplayLater, RecoverRefused, RecoverConnect,
                ProbeFailed, RecvAck, MarkHealthyS, HandshakeTimeout, RecoverGiveUp
  <2>2. pc'["S"].ph = ph
    BY <1>1, <2>1 DEF Goto, GotoOn, At
  <2> QED BY <2>2, NotWaiting DEF SenderWaits
<1> QED BY <1>2, <1>3, <1>4, <1>5 DEF Sender

\* The plane events a side takes and the answers it ignores end no wait.
LEMMA ControlLosesNothing ==
    ASSUME TypeOK, WaitIsAnswered, Control
    PROVE  WaitIsAnswered'
<1>1. PICK s \in Sides : RecvPlaneEvent(s) \/ IgnoreAnswer(s)
  BY DEF Control
<1> DEFINE q == Head(net[s])
<1>2. /\ net[s] # <<>> /\ Receive(s) /\ MayHandle(s) /\ AfterHandle(s)
      /\ \/ q.type = "PlaneEvent"
         \/ q.type \in AnswerTypes /\ ~Awaited(s, q)
  BY <1>1 DEF RecvPlaneEvent, IgnoreAnswer, Arrived, AnswerTypes
<1>3. \A t \in Sides : \A m \in ToSet(net[t]) : m \in ToSet(net'[t]) \/ (t = s /\ m = q)
  BY <1>2, QueryTypes, SocketMembers
<1>4. \A p, g : AtWork(pc["R"], p, g) => AtWork(pc'["R"], p, g)
  BY <1>2 DEF MayHandle, AfterHandle, Goto, In, AtWork, Sides, TypeOK
<1> HIDE DEF q
<1>5. NothingLost
  BY <1>2, <1>3, <1>4 DEF NothingLost
<1>6. pc'["S"] = pc["S"] \/ pc'["S"].ph = "control"
  BY <1>2 DEF AfterHandle, Goto, At, Sides, TypeOK
<1>7. req'["S"].seq = req["S"].seq
  BY <1>1, DisturbKeepsSeq DEF RecvPlaneEvent, IgnoreAnswer, Sides, TypeOK
<1>8. CASE pc'["S"] = pc["S"]
  BY <1>5, <1>7, <1>8, NothingLostAnswered DEF SenderStays
<1>9. CASE pc'["S"].ph = "control"
  BY <1>9, NotWaiting DEF SenderWaits
<1> QED BY <1>6, <1>8, <1>9

\* Nor do the monitors, which wait for the mutex to touch a request.
LEMMA MonitorsLoseNothing ==
    ASSUME TypeOK, WaitIsAnswered, Monitors
    PROVE  WaitIsAnswered'
<1>1. PICK s \in Sides, t \in Threads :
          \/ \E p \in Planes, up \in BOOLEAN : MonitorMark(s, t, p, up)
          \/ MonitorNotify(s, t) \/ MonitorSend(s, t)
  BY DEF Monitors
<1>2. SenderStays /\ pc' = pc
  BY <1>1, DisturbKeepsSeq DEF MonitorMark, MonitorNotify, MonitorSend, SenderStays, Sides, TypeOK
<1>3. \A u \in Sides : \A m \in ToSet(net[u]) : m \in ToSet(net'[u])
  <2>1. CASE net' = net
    BY <2>1
  <2>2. CASE MonitorSend(s, t)
    <3> DEFINE d == mon[s][t]
               n == PlaneEvent(d.plane, d.gen, d.up)
    <3>1. d \in Deliveries
      BY DEF TypeOK
    <3> HIDE DEF d
    <3>2. n \in Messages
      BY <3>1, MessageTypes DEF Deliveries
    <3>3. Send(s, n)
      BY <2>2 DEF MonitorSend, d
    <3> QED BY <3>2, <3>3, SocketMembers
  <2> QED BY <1>1, <2>1, <2>2 DEF MonitorMark, MonitorNotify
<1>4. NothingLost
  BY <1>2, <1>3 DEF NothingLost
<1> QED BY <1>2, <1>4, NothingLostAnswered

\* Nor do the calls of NCCL, which find the sender idle, and the fabric.
LEMMA CallsLoseNothing ==
    ASSUME TypeOK, WaitIsAnswered, Calls
    PROVE  WaitIsAnswered'
<1>1. PICK s \in Sides : PollCq(s) \/ Return(s) \/ Post(s) \/ Backpressure(s) \/ Test(s)
  BY DEF Calls
<1>2. /\ pc \in [Sides -> Positions] /\ req \in [Sides -> Requests]
      /\ "S" \in Sides /\ "R" \in Sides
  BY SidesAndPlanes DEF TypeOK
<1>3. /\ pc[s].ph \in {"idle", "control", "cqs", "replayed", "recovered"}
      /\ pc'[s].ph \notin SenderWaits /\ \A o \in Sides : o # s => pc'[o] = pc[o]
      /\ \A u \in Sides : \A m \in ToSet(net[u]) : m \in ToSet(net'[u])
      /\ \A o \in Sides : o # s => req'[o] = req[o]
  <2>1. CASE Return(s) \/ Post(s) \/ Backpressure(s) \/ Test(s)
    <3>1. net' = net /\ \A o \in Sides : o # s => req'[o] = req[o]
      BY <1>2, <2>1 DEF Return, Post, PostRequest, Backpressure, Test
    <3>2. /\ pc[s].ph \in {"idle", "control", "cqs", "replayed", "recovered"}
          /\ pc' = pc \/ Goto(s, "idle")
      BY <2>1 DEF Return, Post, Backpressure, Test, MayPost, In
    <3>3. pc'[s].ph \notin SenderWaits /\ \A o \in Sides : o # s => pc'[o] = pc[o]
      BY <1>2, <3>2 DEF Goto, At, SenderWaits
    <3>4. \A u \in Sides : \A m \in ToSet(net[u]) : m \in ToSet(net'[u])
      BY <3>1
    <3> QED BY <3>1, <3>2, <3>3, <3>4
  <2>2. CASE PollCq(s)
    <3>1. PICK p \in Planes : \E e \in PolledEndpoints(slots[s][p]) :
            \/ \E ok \in BOOLEAN : PollProbe(s, p, e, ok) \/ PollStale(s, p, e, ok)
            \/ PollSuccess(s, p, e) \/ PollStaleError(s, p, e) \/ PollError(s, p, e)
      BY <2>2 DEF PollCq
    <3>2. PICK e \in PolledEndpoints(slots[s][p]) :
            \/ \E ok \in BOOLEAN : PollProbe(s, p, e, ok) \/ PollStale(s, p, e, ok)
            \/ PollSuccess(s, p, e) \/ PollStaleError(s, p, e) \/ PollError(s, p, e)
      BY <3>1
    <3>3. PollAt(s, p, e) /\ \A o \in Sides : o # s => req'[o] = req[o]
      BY <1>2, <3>2, Zenon DEF PollProbe, PollStale, PollSuccess, PollStaleError, PollError
    <3>4. /\ pc[s].ph \in {"idle", "control", "cqs"}
          /\ pc'[s].ph \notin SenderWaits /\ \A o \in Sides : o # s => pc'[o] = pc[o]
      BY <1>2, <3>3 DEF PollAt, BeforeReplay, In, GotoOn, SenderWaits
    <3>5. \A u \in Sides : \A m \in ToSet(net[u]) : m \in ToSet(net'[u])
      <4>1. CASE net' = net
        BY <4>1
      <4>2. CASE PollError(s, p, e)
        <5> DEFINE n == PlaneEvent(p, MarkBroken(table[s][p]).gen, FALSE)
        <5>1. Send(s, n)
          BY <4>2 DEF PollError
        <5>2. n \in Messages
          <6>1. MarkBroken(table[s][p]).gen \in Nat
            BY StateTypes DEF MarkBroken, MarkAs, PlaneEntry
          <6> QED BY <6>1, MessageTypes
        <5> QED BY <5>1, <5>2, SocketMembers
      <4> QED BY <3>2, <4>1, <4>2 DEF PollProbe, PollStale, PollSuccess, PollStaleError
    <3> QED BY <3>3, <3>4, <3>5
  <2> QED BY <1>1, <2>1, <2>2
<1>4. CASE s = "S"
  <2>1. pc'["S"].ph \notin SenderWaits
    BY <1>3, <1>4
  <2> QED BY <2>1, NotWaiting
<1>5. CASE s = "R"
  <2>1. SenderStays
    BY <1>2, <1>3, <1>5 DEF SenderStays
  <2>2. \A p, g : ~AtWork(pc["R"], p, g)
    BY <1>3, <1>5 DEF AtWork
  <2>3. NothingLost
    BY <1>3, <2>2 DEF NothingLost
  <2> QED BY <2>1, <2>3, NothingLostAnswered
<1> QED BY <1>4, <1>5 DEF Sides

(* The sender never waits in vain: for any number of planes and monitor    *)
(* threads and whatever is reported, fails or times out, its question is   *)
(* before the receiver, being worked on or answered as long as it waits.   *)
THEOREM WaitsAreAnswered == Spec => []WaitIsAnswered
<1>1. Init => WaitIsAnswered
  <2>1. Init => pc["S"].ph = "idle"
    BY DEF Init, At, Sides
  <2> QED BY <2>1 DEF WaitIsAnswered, In
<1>2. TypeOK /\ WaitIsAnswered /\ [Next]_vars => WaitIsAnswered'
  <2> SUFFICES ASSUME TypeOK, WaitIsAnswered, [Next]_vars
               PROVE  WaitIsAnswered'
    OBVIOUS
  <2>1. CASE Fabric \/ UNCHANGED vars
    <3>1. UNCHANGED <<net, pc, req>>
      BY <2>1 DEF Fabric, Deliver, Acknowledge, QpError, vars
    <3>2. SenderStays /\ NothingLost
      BY <3>1 DEF SenderStays, NothingLost
    <3> QED BY <3>2, NothingLostAnswered
  <2> QED BY <2>1, MonitorsLoseNothing, ControlLosesNothing, SenderAsks, ReceiverAnswers,
             CallsLoseNothing DEF Next
<1> QED BY <1>1, <1>2, ConnectionTypes, PTL DEF Spec
=============================================================================
