--------------------------- MODULE MonitorProofs ----------------------------
(***************************************************************************)
(* Theorems about the monitors.  ProbeMonitor implements PlaneAgreement:   *)
(* for any probing and silent targets and any number of lost answers and   *)
(* orders, what the probes, operators and delayed events do to the tables  *)
(* of the two processes is what the agreement allows.  Lifecycle: for any  *)
(* number of communicators, connections, monitor threads and reports, the  *)
(* devices are open while a thread or a communicator uses them.            *)
(***************************************************************************)
EXTENDS ProbeMonitor, TLAPS

\* An event on its way is one its sender has reached.
Sound(e, m) ==
    /\ m.gen \in Nat \ {0} /\ m.health \in {"Broken", "Recovering"}
    /\ Agreement!Reached(e, m.gen, m.health)

ChansInv ==
    /\ entry \in [Sides -> PlaneEntry]
    /\ \A s \in Sides : entry[s].gen # 0
    /\ chan \in [Sides -> Seq(PlaneEntry)]
    /\ \A s \in Sides : \A i \in 1 .. Len(chan[s]) : Sound(entry[Peer(s)], chan[s][i])

\* The value the table of the agreement has.
Mapped == [s \in Sides |-> [p \in {0} |-> entry[s]]]

-----------------------------------------------------------------------------
\* A local transition: a new generation, if it changes anything.
LEMMA MarkAsSound ==
    ASSUME NEW e \in PlaneEntry, e.gen # 0, NEW h \in {"Broken", "Recovering"}
    PROVE  /\ MarkAs(e, h) \in PlaneEntry /\ MarkAs(e, h).gen # 0
           /\ Sound(MarkAs(e, h), MarkAs(e, h))
           /\ \A m : Sound(e, m) => Sound(MarkAs(e, h), m)
BY DEF MarkAs, PlaneEntry, PlaneHealth, Sound, Agreement!Reached

\* An end that learns of an event keeps what it has told the other.
LEMMA LearnSound ==
    ASSUME NEW e \in PlaneEntry, e.gen # 0, NEW m \in PlaneEntry, NEW f, Sound(f, m)
    PROVE  LET l == ApplyRemoteEvent(e, m.gen, m.health)
           IN  l \in PlaneEntry /\ l.gen # 0 /\ \A n : Sound(e, n) => Sound(l, n)
BY DEF ApplyRemoteEvent, RemoteEventApplies, PlaneEntry, PlaneHealth, Sound, Agreement!Reached

LEMMA ReadmitSound ==
    ASSUME NEW e \in PlaneEntry, e.gen # 0, e.health = "Recovering"
    PROVE  LET l == MarkHealthyIfGeneration(e, e.gen)
           IN  l \in PlaneEntry /\ l.gen # 0 /\ \A n : Sound(e, n) => Sound(l, n)
BY DEF MarkHealthyIfGeneration, HealthyIfGenerationOK, PlaneEntry, PlaneHealth, Sound,
       Agreement!Reached

\* One end changes its entry and no event is sent.
LEMMA EntryChange ==
    ASSUME ChansInv, NEW s \in Sides, NEW f \in PlaneEntry, f.gen # 0,
           \A n : Sound(entry[s], n) => Sound(f, n),
           entry' = [entry EXCEPT ![s] = f], chan' \in [Sides -> Seq(PlaneEntry)],
           \A d \in Sides : \A i \in 1 .. Len(chan'[d]) :
              \/ \E j \in 1 .. Len(chan[d]) : chan'[d][i] = chan[d][j]
              \/ d = Peer(s) /\ Sound(f, chan'[d][i])
    PROVE  ChansInv'
<1>1. \A d \in Sides : entry'[d] = IF d = s THEN f ELSE entry[d]
  BY DEF ChansInv
<1>2. ASSUME NEW d \in Sides, NEW i \in 1 .. Len(chan'[d])
      PROVE  Sound(entry'[Peer(d)], chan'[d][i])
  <2>1. Peer(d) \in Sides
    BY DEF Peer, Sides
  <2>2. CASE \E j \in 1 .. Len(chan[d]) : chan'[d][i] = chan[d][j]
    BY <1>1, <2>1, <2>2 DEF ChansInv
  <2>3. CASE d = Peer(s) /\ Sound(f, chan'[d][i])
    BY <1>1, <2>3 DEF Peer, Sides
  <2> QED BY <2>2, <2>3
<1> QED BY <1>1, <1>2 DEF ChansInv

LEMMA ApplySound ==
    ASSUME ChansInv, NEW s \in Sides, NEW h \in {"Broken", "Recovering"},
           Apply(s, MarkAs(entry[s], h))
    PROVE  ChansInv'
<1> DEFINE f == MarkAs(entry[s], h)
           d == Peer(s)
<1>1. f \in PlaneEntry /\ f.gen # 0 /\ Sound(f, f) /\ \A n : Sound(entry[s], n) => Sound(f, n)
  BY MarkAsSound DEF ChansInv
<1>2. d \in Sides /\ entry' = [entry EXCEPT ![s] = f]
      /\ (chan' = chan \/ chan' = [chan EXCEPT ![d] = Append(@, f)])
  BY DEF Apply, Peer, Sides
<1> HIDE DEF f, d
<1>3. CASE chan' = chan
  BY <1>1, <1>2, <1>3, EntryChange DEF ChansInv
<1>4. CASE chan' = [chan EXCEPT ![d] = Append(@, f)]
  <2>1. chan' \in [Sides -> Seq(PlaneEntry)]
    BY <1>1, <1>2, <1>4 DEF ChansInv
  <2>2. ASSUME NEW e \in Sides, NEW i \in 1 .. Len(chan'[e])
        PROVE  \/ \E j \in 1 .. Len(chan[e]) : chan'[e][i] = chan[e][j]
               \/ e = d /\ Sound(f, chan'[e][i])
    <3>1. chan[d] \in Seq(PlaneEntry) /\ chan[e] \in Seq(PlaneEntry)
      BY <1>2 DEF ChansInv
    <3>2. CASE e # d
      BY <1>4, <3>2 DEF ChansInv
    <3>3. CASE e = d
      <4>1. chan'[e] = Append(chan[d], f)
        BY <1>2, <1>4, <3>3 DEF ChansInv
      <4>2. Len(chan'[e]) = Len(chan[d]) + 1
            /\ chan'[e][i] = IF i = Len(chan[d]) + 1 THEN f ELSE chan[d][i]
        BY <1>1, <3>1, <4>1
      <4> QED BY <1>1, <3>1, <3>3, <4>2
    <3> QED BY <3>2, <3>3
  <2> QED BY <1>1, <1>2, <2>1, <2>2, EntryChange DEF d
<1> QED BY <1>2, <1>3, <1>4

-----------------------------------------------------------------------------
LEMMA MappedChange ==
    ASSUME ChansInv, NEW s \in Sides, NEW f, entry' = [entry EXCEPT ![s] = f]
    PROVE  Mapped' = [Mapped EXCEPT ![s][0] = f]
BY DEF Mapped, ChansInv

\* A report is a local transition of the agreement.
LEMMA ApplyImplements ==
    ASSUME ChansInv, NEW s \in Sides, NEW h \in {"Broken", "Recovering"},
           Apply(s, MarkAs(entry[s], h))
    PROVE  Agreement!Next
<1>1. Mapped' = [Mapped EXCEPT ![s][0] = MarkAs(entry[s], h)]
  BY MappedChange DEF Apply
<1>2. Mapped[s][0] = entry[s] /\ entry[s].gen \in Nat
  BY DEF Mapped, ChansInv, PlaneEntry
<1>3. Agreement!LocalBroken(s, 0) \/ Agreement!LocalRecovering(s, 0)
  BY <1>1, <1>2 DEF Agreement!LocalBroken, Agreement!LocalRecovering, Mapped, MarkAs,
     Agreement!MarkBroken, Agreement!MarkRecovering, Agreement!MarkAs
<1> QED BY <1>3 DEF Agreement!Next, Agreement!Sides, Sides

-----------------------------------------------------------------------------
\* An event comes from an end that has reached what it says.
LEMMA LearnImplements ==
    ASSUME ChansInv, NEW s \in Sides, Learn(s)
    PROVE  Agreement!Next /\ ChansInv'
<1> DEFINE m == Head(chan[s])
           f == ApplyRemoteEvent(entry[s], m.gen, m.health)
<1>1. /\ chan[s] \in Seq(PlaneEntry) /\ chan[s] # <<>> /\ m \in PlaneEntry
      /\ Sound(entry[Peer(s)], m)
  BY DEF Learn, ChansInv
<1>2. Peer(s) \in Sides /\ entry[Peer(s)] \in PlaneEntry /\ entry[s] \in PlaneEntry
  BY DEF Peer, Sides, ChansInv
<1>3. f \in PlaneEntry /\ f.gen # 0 /\ \A n : Sound(entry[s], n) => Sound(f, n)
  BY <1>1, <1>2, LearnSound DEF ChansInv
<1>4. entry' = [entry EXCEPT ![s] = f] /\ chan' = [chan EXCEPT ![s] = Tail(@)]
  BY DEF Learn
<1> HIDE DEF f, m
<1>5. ChansInv'
  <2>1. chan' \in [Sides -> Seq(PlaneEntry)]
    BY <1>1, <1>4 DEF ChansInv
  <2>2. ASSUME NEW e \in Sides, NEW i \in 1 .. Len(chan'[e])
        PROVE  \E j \in 1 .. Len(chan[e]) : chan'[e][i] = chan[e][j]
    <3>1. CASE e # s
      BY <1>4, <3>1 DEF ChansInv
    <3>2. CASE e = s
      <4>1. chan'[e] = Tail(chan[s])
        BY <1>4, <3>2 DEF ChansInv
      <4>2. i + 1 \in 1 .. Len(chan[s]) /\ chan'[e][i] = chan[s][i + 1]
        BY <1>1, <4>1
      <4> QED BY <3>2, <4>2
    <3> QED BY <3>1, <3>2
  <2>3. f \in PlaneEntry /\ f.gen # 0 /\ entry' = [entry EXCEPT ![s] = f]
    BY <1>3, <1>4
  <2>4. \A n : Sound(entry[s], n) => Sound(f, n)
    BY <1>3
  <2>5. \A d \in Sides : \A i \in 1 .. Len(chan'[d]) :
           \/ \E j \in 1 .. Len(chan[d]) : chan'[d][i] = chan[d][j]
           \/ d = Peer(s) /\ Sound(f, chan'[d][i])
    BY <2>2
  <2> QED BY <2>1, <2>3, <2>4, <2>5, EntryChange
<1>6. Mapped' = [Mapped EXCEPT ![s][0] = f] /\ Mapped[s][0] = entry[s]
      /\ Mapped[Peer(s)][0] = entry[Peer(s)]
  BY <1>2, <1>4, MappedChange DEF Mapped
<1>7. m.gen \in 1 .. entry[Peer(s)].gen /\ m.health \in {"Broken", "Recovering"}
  BY <1>1, <1>2 DEF Sound, Agreement!Reached, PlaneEntry
<1>8. Agreement!Learn(s, 0, m.gen, m.health)
  BY <1>1, <1>6 DEF Agreement!Learn, Agreement!Peer, Peer, Sound, Mapped, f, ApplyRemoteEvent,
     RemoteEventApplies, Agreement!ApplyRemoteEvent, Agreement!RemoteEventApplies
<1>9. m.gen \in 1 .. Mapped[Agreement!Peer(s)][0].gen
  BY <1>6, <1>7 DEF Agreement!Peer, Peer
<1>10. \E g \in 1 .. Mapped[Agreement!Peer(s)][0].gen, h \in {"Broken", "Recovering"} :
          Agreement!Learn(s, 0, g, h)
  <2> DEFINE g == m.gen
             h == m.health
  <2>1. /\ g \in 1 .. Mapped[Agreement!Peer(s)][0].gen /\ h \in {"Broken", "Recovering"}
        /\ Agreement!Learn(s, 0, g, h)
    BY <1>7, <1>8, <1>9
  <2> HIDE DEF g, h
  <2> QED BY <2>1, Zenon DEF Agreement!Learn
<1>11. s \in Agreement!Sides /\ 0 \in {0}
  BY DEF Agreement!Sides, Sides
<1> QED BY <1>5, <1>10, <1>11, Zenon DEF Agreement!Next, Mapped

LEMMA ReadmitImplements ==
    ASSUME ChansInv, NEW s \in Sides, Readmit(s)
    PROVE  Agreement!Next /\ ChansInv'
<1> DEFINE f == MarkHealthyIfGeneration(entry[s], entry[s].gen)
<1>1. f \in PlaneEntry /\ f.gen # 0 /\ \A n : Sound(entry[s], n) => Sound(f, n)
  BY ReadmitSound DEF Readmit, MayReadmit, ChansInv
<1>2. entry' = [entry EXCEPT ![s] = f] /\ chan' = chan
  BY DEF Readmit
<1> HIDE DEF f
<1>3. ChansInv'
  BY <1>1, <1>2, EntryChange DEF ChansInv
<1>4. Mapped' = [Mapped EXCEPT ![s][0] = f] /\ Mapped[s][0] = entry[s]
      /\ Mapped[Peer(s)][0] = entry[Peer(s)] /\ Peer(s) \in Sides
  BY <1>2, MappedChange DEF Mapped, Peer, Sides
<1>5. /\ entry[s].health = "Recovering" /\ entry[Peer(s)].gen = entry[s].gen
      /\ entry[Peer(s)].health # "Broken"
      /\ s = "S" => entry[Peer(s)].health = "Healthy"
  BY DEF Readmit, MayReadmit
<1>6. Agreement!Readmit(s, 0)
  BY <1>4, <1>5 DEF Agreement!Readmit, Agreement!Reached, Agreement!Peer, Peer, Mapped, f,
     MarkHealthyIfGeneration, HealthyIfGenerationOK, Agreement!MarkHealthyIfGeneration,
     Agreement!HealthyIfGenerationOK
<1> QED BY <1>3, <1>6 DEF Agreement!Next, Agreement!Sides, Sides

-----------------------------------------------------------------------------
LEMMA ChansInit == Init => ChansInv /\ Agreement!Init
<1> SUFFICES ASSUME Init PROVE ChansInv /\ Agreement!Init
  OBVIOUS
<1>1. ChansInv
  BY DEF Init, ChansInv, InitialEntry, PlaneEntry, PlaneHealth
<1>2. Agreement!Init
  BY DEF Init, InitialEntry, Agreement!Init, Agreement!InitialEntry, Agreement!Sides, Sides
<1> QED BY <1>1, <1>2

LEMMA StepImplements ==
    ASSUME ChansInv, [Next]_vars
    PROVE  ChansInv' /\ (Agreement!Next \/ Mapped' = Mapped)
<1>1. ASSUME NEW s \in Sides, Answered(s) PROVE ChansInv' /\ Mapped' = Mapped
  BY <1>1 DEF Answered, ChansInv, Mapped
<1>2. ASSUME NEW s \in Sides, Unanswered(s)
      PROVE  ChansInv' /\ (Agreement!Next \/ Mapped' = Mapped)
  <2>1. CASE OutageSeen(s)
    <3>1. Apply(s, MarkAs(entry[s], "Broken"))
      BY <1>2, <2>1 DEF Unanswered, MarkBroken
    <3> QED BY <3>1, ApplySound, ApplyImplements
  <2>2. CASE ~OutageSeen(s)
    BY <1>2, <2>2 DEF Unanswered, ChansInv, Mapped
  <2> QED BY <2>1, <2>2
<1>3. ASSUME NEW s \in Sides, ReportRecovered(s) PROVE ChansInv' /\ Agreement!Next
  <2>1. Apply(s, MarkAs(entry[s], "Recovering"))
    BY <1>3 DEF ReportRecovered, MarkRecovering
  <2> QED BY <2>1, ApplySound, ApplyImplements
<1>4. ASSUME NEW s \in Sides, Order(s) PROVE ChansInv' /\ Agreement!Next
  <2>1. PICK h \in {"Broken", "Recovering"} : Apply(s, MarkAs(entry[s], h))
    BY <1>4 DEF Order
  <2> QED BY <2>1, ApplySound, ApplyImplements
<1>5. CASE UNCHANGED vars
  BY <1>5 DEF vars, ChansInv, Mapped
<1> QED BY <1>1, <1>2, <1>3, <1>4, <1>5, LearnImplements, ReadmitImplements DEF Next

(* Whatever the probes of both processes see, and whatever operators order *)
(* meanwhile, the two tables change only as the agreement allows.          *)
THEOREM ProbesImplementAgreement == Spec => ProbeAgreement
<1>1. Init => ChansInv /\ Agreement!Init
  BY ChansInit
<1>2. ChansInv /\ [Next]_vars => ChansInv'
  BY StepImplements
<1>3. ChansInv /\ [Next]_vars => [Agreement!Next]_Mapped
  BY StepImplements
<1> QED BY <1>1, <1>2, <1>3, PTL DEF Spec, ProbeAgreement, Agreement!Spec, Mapped

-----------------------------------------------------------------------------
(* Types: what a process counts stays in bounds, and it never counts       *)
(* answers and silence at once.                                            *)
CountsInv ==
    /\ hits \in [Sides -> 0 .. 2] /\ misses \in [Sides -> 0 .. 3]
    /\ \A s \in Sides : hits[s] = 0 \/ misses[s] = 0
    /\ seenBroken \in [Sides -> BOOLEAN]
    /\ lost \in 0 .. MaxLost /\ orders \in 0 .. MaxOrders

LEMMA CountsStep ==
    ASSUME MaxLost \in Nat, MaxOrders \in Nat, CountsInv, [Next]_vars
    PROVE  CountsInv'
<1> USE DEF CountsInv
<1>1. ASSUME NEW s \in Sides, Answered(s) PROVE CountsInv'
  <2>1. RecoverySeen(s) \in BOOLEAN
    BY DEF RecoverySeen
  <2>2. AtMost(hits[s] + 1, 2) \in 0 .. 2
    BY DEF AtMost
  <2> QED BY <1>1, <2>1, <2>2 DEF Answered
<1>2. ASSUME NEW s \in Sides, Unanswered(s) PROVE CountsInv'
  <2>1. AtMost(misses[s] + 1, 3) \in 0 .. 3
    BY DEF AtMost
  <2>2. lost' \in 0 .. MaxLost
    BY <1>2 DEF Unanswered
  <2> QED BY <1>2, <2>1, <2>2 DEF Unanswered
<1>3. ASSUME NEW s \in Sides, ReportRecovered(s) PROVE CountsInv'
  BY <1>3 DEF ReportRecovered
<1>4. ASSUME NEW s \in Sides, Order(s) PROVE CountsInv'
  BY <1>4 DEF Order
<1>5. ASSUME NEW s \in Sides, Learn(s) \/ Readmit(s) PROVE CountsInv'
  BY <1>5 DEF Learn, Readmit
<1>6. CASE UNCHANGED vars
  BY <1>6 DEF vars
<1> QED BY <1>1, <1>2, <1>3, <1>4, <1>5, <1>6 DEF Next

(* Every variable keeps its type: in particular no event that a plane is   *)
(* healthy is ever on its way.                                             *)
THEOREM ProbeTypes ==
    ASSUME MaxLost \in Nat, MaxOrders \in Nat
    PROVE  Spec => []TypeOK
<1>1. Init => ChansInv /\ CountsInv
  BY ChansInit DEF Init, CountsInv
<1>2. ChansInv /\ CountsInv /\ [Next]_vars => ChansInv' /\ CountsInv'
  BY StepImplements, CountsStep
<1>3. ChansInv /\ CountsInv => TypeOK
  <2> SUFFICES ASSUME ChansInv, CountsInv PROVE TypeOK
    OBVIOUS
  <2>1. ASSUME NEW s \in Sides, NEW i \in DOMAIN chan[s]
        PROVE  chan[s][i] \in PlaneEntry /\ chan[s][i].health # "Healthy"
    <3>1. chan[s] \in Seq(PlaneEntry) /\ i \in 1 .. Len(chan[s])
      BY DEF ChansInv
    <3> QED BY <3>1 DEF ChansInv, Sound
  <2> QED BY <2>1 DEF ChansInv, CountsInv, TypeOK
<1> QED BY <1>1, <1>2, <1>3, PTL DEF Spec

-----------------------------------------------------------------------------
(* Lifecycle: the threads of the monitors, and the context they serve.     *)
CONSTANTS Comms, Conns, Threads, Overlap, MaxReports, Nobody

VARIABLES comm, call, initialized, devices, stop, pc, pending, conn, reports, crashed

Life == INSTANCE Lifecycle

-----------------------------------------------------------------------------
(* Devices and threads.  Between the join and the close of a finalize no   *)
(* thread is left, and only an init, which that finalize excludes, starts  *)
(* one.                                                                    *)
ThreadsInv ==
    /\ pc \in [Threads -> Life!Running \cup {"none", "exited"}]
    /\ initialized \in BOOLEAN
    /\ initialized => devices
    /\ ~initialized => Life!Joined
    /\ call.op = "close" => Life!Joined

LEMMA ThreadsInit == Life!Init => ThreadsInv
<1> SUFFICES ASSUME Life!Init PROVE ThreadsInv
  OBVIOUS
<1>1. pc = [t \in Threads |-> "none"] /\ initialized = FALSE
  BY DEF Life!Init
<1>2. pc \in [Threads -> Life!Running \cup {"none", "exited"}] /\ Life!Joined
  BY <1>1 DEF Life!Joined
<1> QED BY <1>1, <1>2 DEF ThreadsInv

\* A step of a monitor thread keeps a joined thread joined.
LEMMA ThreadKeeps ==
    ASSUME ThreadsInv, NEW t \in Threads, Life!ThreadStep(t) \/ Life!EndRead(t) \/ Life!Report(t)
    PROVE  ThreadsInv'
<1>1. /\ UNCHANGED <<initialized, devices, call>>
      /\ pc' \in [Threads -> Life!Running \cup {"none", "exited"}]
      /\ \A u \in Threads : pc[u] \in {"none", "exited"} => pc'[u] = pc[u]
  <2>1. CASE Life!Exit(t)
    BY <2>1 DEF Life!Exit, ThreadsInv, Life!context, Life!Running
  <2>2. CASE Life!StartRead(t)
    BY <2>2 DEF Life!StartRead, ThreadsInv, Life!context, Life!Running
  <2>3. CASE Life!EndReport(t)
    BY <2>3 DEF Life!EndReport, ThreadsInv, Life!context, Life!Running
  <2>4. CASE \E k \in Conns : Life!Notify(t, k)
    BY <2>4 DEF Life!Notify, ThreadsInv, Life!context, Life!Running
  <2>5. CASE Life!EndRead(t)
    BY <2>5 DEF Life!EndRead, ThreadsInv, Life!context, Life!Running
  <2>6. CASE Life!Report(t)
    BY <2>6 DEF Life!Report, ThreadsInv, Life!context, Life!Running
  <2> QED BY <2>1, <2>2, <2>3, <2>4, <2>5, <2>6 DEF Life!ThreadStep
<1> QED BY <1>1 DEF ThreadsInv, Life!Joined

LEMMA NcclKeeps == ThreadsInv /\ Life!NcclStep => ThreadsInv'
<1> SUFFICES ASSUME ThreadsInv, Life!NcclStep PROVE ThreadsInv'
  OBVIOUS
<1>1. CASE Life!Join
  BY <1>1 DEF Life!Join, ThreadsInv, Life!Joined, Life!context, Life!monitor
<1>2. CASE Life!CloseDevices
  BY <1>2 DEF Life!CloseDevices, ThreadsInv, Life!Joined, Life!monitor, Life!Quiet
<1>3. ASSUME NEW c \in Comms, Life!InitContext(c) PROVE ThreadsInv'
  BY <1>3 DEF Life!InitContext, ThreadsInv, Life!Joined, Life!context, Life!monitor, Life!Quiet,
              Life!Running
<1>4. ASSUME NEW c \in Comms, Life!StartFinalize(c) PROVE ThreadsInv'
  BY <1>4 DEF Life!StartFinalize, ThreadsInv, Life!Joined, Life!context
<1>5. ASSUME NEW c \in Comms, NEW k \in Conns, Life!OpenConn(c, k) PROVE ThreadsInv'
  BY <1>5 DEF Life!OpenConn, ThreadsInv, Life!Joined, Life!context, Life!monitor
<1>6. ASSUME NEW k \in Conns, Life!CloseConn(k) PROVE ThreadsInv'
  BY <1>6 DEF Life!CloseConn, ThreadsInv, Life!Joined, Life!context, Life!monitor
<1> QED BY <1>1, <1>2, <1>3, <1>4, <1>5, <1>6 DEF Life!NcclStep

LEMMA ThreadsStutter == ThreadsInv /\ UNCHANGED Life!vars => ThreadsInv'
BY DEF ThreadsInv, Life!Joined, Life!vars, Life!context, Life!monitor

LEMMA ThreadsImplies == ThreadsInv => Life!MonitorsJoined
BY DEF ThreadsInv, Life!MonitorsJoined, Life!Joined, Life!Running

(* The devices are open while a monitor thread runs, however inits,        *)
(* finalizes and reports interleave: Monitor::stop waits for all threads.  *)
THEOREM MonitorsAlwaysJoined == Life!Spec => []Life!MonitorsJoined
<1>1. Life!Init => ThreadsInv
  BY ThreadsInit
<1>2. ThreadsInv /\ [Life!Next]_Life!vars => ThreadsInv'
  BY ThreadKeeps, NcclKeeps, ThreadsStutter DEF Life!Next
<1>3. ThreadsInv => Life!MonitorsJoined
  BY ThreadsImplies
<1> QED BY <1>1, <1>2, <1>3, PTL DEF Life!Spec

-----------------------------------------------------------------------------
(* Types.  A thread has connections to call only while it notifies, so the *)
(* one that an init starts has none.                                       *)
TypesInv ==
    /\ Life!TypeOK /\ ThreadsInv
    /\ pending \in [Threads -> SUBSET Conns]

LEMMA NcclTypes ==
    ASSUME TypesInv, Life!NcclStep
    PROVE  Life!TypeOK' /\ pending' = pending
<1> USE DEF TypesInv, Life!TypeOK, Life!Running
<1>1. CASE Life!Join
  BY <1>1 DEF Life!Join, Life!context, Life!monitor
<1>2. CASE Life!CloseDevices
  BY <1>2 DEF Life!CloseDevices, Life!monitor, Life!Quiet
<1>3. ASSUME NEW c \in Comms, Life!InitContext(c) PROVE Life!TypeOK' /\ pending' = pending
  <2>1. CASE initialized
    BY <1>3, <2>1 DEF Life!InitContext, Life!context, Life!monitor
  <2>2. CASE ~initialized
    <3>1. \A t \in Threads : pending[t] = {}
      BY <2>2 DEF ThreadsInv, Life!Joined
    <3>2. pc' = [t \in Threads |-> "poll"] /\ pending' = pending
      BY <1>3, <2>2 DEF Life!InitContext
    <3>3. comm' \in [Comms -> {"new", "using", "gone"}]
      BY <1>3 DEF Life!InitContext
    <3>4. initialized' \in BOOLEAN /\ devices' \in BOOLEAN /\ stop' \in BOOLEAN
      BY <1>3, <2>2 DEF Life!InitContext
    <3>5. UNCHANGED <<call, conn, reports, crashed>>
      BY <1>3 DEF Life!InitContext
    <3> QED BY <3>1, <3>2, <3>3, <3>4, <3>5
  <2> QED BY <2>1, <2>2
<1>4. ASSUME NEW c \in Comms, Life!StartFinalize(c) PROVE Life!TypeOK' /\ pending' = pending
  BY <1>4 DEF Life!StartFinalize, Life!context
<1>5. ASSUME NEW c \in Comms, NEW k \in Conns, Life!OpenConn(c, k)
      PROVE  Life!TypeOK' /\ pending' = pending
  BY <1>5 DEF Life!OpenConn, Life!context, Life!monitor
<1>6. ASSUME NEW k \in Conns, Life!CloseConn(k) PROVE Life!TypeOK' /\ pending' = pending
  BY <1>6 DEF Life!CloseConn, Life!context, Life!monitor
<1> QED BY <1>1, <1>2, <1>3, <1>4, <1>5, <1>6 DEF Life!NcclStep

LEMMA ThreadTypes ==
    ASSUME MaxReports \in Nat, TypesInv,
           NEW t \in Threads, Life!ThreadStep(t) \/ Life!EndRead(t) \/ Life!Report(t)
    PROVE  Life!TypeOK' /\ pending' \in [Threads -> SUBSET Conns]
<1> USE DEF TypesInv, Life!TypeOK, Life!Running
<1>1. CASE Life!Exit(t)
  BY <1>1 DEF Life!Exit, Life!context
<1>2. CASE Life!StartRead(t)
  BY <1>2 DEF Life!StartRead, Life!context
<1>3. CASE Life!EndReport(t)
  BY <1>3 DEF Life!EndReport, Life!context
<1>4. ASSUME NEW k \in Conns, Life!Notify(t, k)
      PROVE  Life!TypeOK' /\ pending' \in [Threads -> SUBSET Conns]
  <2>1. pending' = [pending EXCEPT ![t] = @ \ {k}] /\ pc' = pc /\ crashed' \in BOOLEAN
    BY <1>4 DEF Life!Notify
  <2>2. pending' \in [Threads -> SUBSET Conns]
    BY <2>1
  <2>3. \A u \in Threads : pending'[u] \subseteq Conns /\ (pending'[u] # {} => pc'[u] = "notify")
    BY <2>1
  <2> QED BY <1>4, <2>1, <2>2, <2>3 DEF Life!Notify, Life!context
<1>5. CASE Life!EndRead(t)
  BY <1>5 DEF Life!EndRead, Life!context
<1>6. CASE Life!Report(t)
  <2>1. /\ pending' = [pending EXCEPT ![t] = Life!Open] /\ pc' = [pc EXCEPT ![t] = "notify"]
        /\ Life!Open \subseteq Conns /\ reports' \in 0 .. MaxReports
    BY <1>6 DEF Life!Report, Life!Open
  <2>2. pending' \in [Threads -> SUBSET Conns]
    BY <2>1
  <2>3. \A u \in Threads : pending'[u] \subseteq Conns /\ (pending'[u] # {} => pc'[u] = "notify")
    BY <2>1
  <2>4. pc' \in [Threads -> Life!Running \cup {"none", "exited"}]
    BY <2>1
  <2> QED BY <1>6, <2>1, <2>2, <2>3, <2>4 DEF Life!Report, Life!context
<1> QED BY <1>1, <1>2, <1>3, <1>4, <1>5, <1>6 DEF Life!ThreadStep

(* Every variable keeps its type, also under finalizes, inits and reports  *)
(* that overlap.                                                           *)
THEOREM LifecycleTypes ==
    ASSUME MaxReports \in Nat
    PROVE  Life!Spec => []Life!TypeOK
<1>1. Life!Init => TypesInv
  <2> SUFFICES ASSUME Life!Init PROVE TypesInv
    OBVIOUS
  <2>1. /\ \A t \in Threads : pending[t] = {} /\ pc[t] = "none"
        /\ pending \in [Threads -> SUBSET Conns]
        /\ pc \in [Threads -> Life!Running \cup {"none", "exited"}]
    BY DEF Life!Init
  <2>2. call \in [who : Comms \cup {Nobody}, op : {"none", "join", "close"}]
    BY DEF Life!Init, Life!Quiet
  <2>3. comm \in [Comms -> {"new", "using", "gone"}]
        /\ conn \in [Conns -> [state : {"new", "open", "closed"}, owner : Comms \cup {Nobody}]]
    BY DEF Life!Init
  <2>4. Life!TypeOK
    <3>1. initialized \in BOOLEAN /\ devices \in BOOLEAN /\ stop \in BOOLEAN /\ crashed \in BOOLEAN
      BY DEF Life!Init
    <3>2. reports \in 0 .. MaxReports
      BY DEF Life!Init
    <3>3. \A t \in Threads : pending[t] \subseteq Conns /\ (pending[t] # {} => pc[t] = "notify")
      BY <2>1
    <3> QED BY <2>1, <2>2, <2>3, <3>1, <3>2, <3>3 DEF Life!TypeOK
  <2> QED BY <2>1, <2>4, ThreadsInit DEF TypesInv
<1>2. ASSUME TypesInv, [Life!Next]_Life!vars PROVE TypesInv'
  <2>1. ThreadsInv'
    BY <1>2, ThreadKeeps, NcclKeeps, ThreadsStutter DEF Life!Next, TypesInv
  <2>2. CASE Life!NcclStep
    BY <1>2, <2>1, <2>2, NcclTypes DEF TypesInv
  <2>3. ASSUME NEW t \in Threads, Life!ThreadStep(t) \/ Life!EndRead(t) \/ Life!Report(t)
        PROVE  TypesInv'
    BY <1>2, <2>1, <2>3, ThreadTypes DEF TypesInv
  <2>4. CASE UNCHANGED Life!vars
    <3>1. Life!TypeOK'
      BY <1>2, <2>4, Zenon DEF TypesInv, Life!TypeOK, Life!vars, Life!context, Life!monitor
    <3> QED BY <1>2, <2>1, <2>4, <3>1 DEF TypesInv, Life!vars, Life!monitor
  <2> QED BY <1>2, <2>2, <2>3, <2>4 DEF Life!Next
<1>3. TypesInv => Life!TypeOK
  BY DEF TypesInv
<1> QED BY <1>1, <1>2, <1>3, PTL DEF Life!Spec
=============================================================================
