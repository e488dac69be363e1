-------------------------- MODULE SharedTableProofs --------------------------
(***************************************************************************)
(* Theorems about SharedTable, for any number of connections, made by      *)
(* either process, and any number of reports and failures.                 *)
(*                                                                         *)
(* What each message in flight, each thread in a handshake and each report *)
(* a monitor is passing on says about the table of its process stays true  *)
(* (KnownInv): a table that has moved on since is later than what was said *)
(* of it.  Handshakes of several connections may therefore interleave at a *)
(* table in any way.                                                       *)
(*                                                                         *)
(* The generations of the queue pairs need the other half (OrderInv): no   *)
(* slot is later than its table, a sender waits with a shadow of the       *)
(* generation it asked for, and what a receiver acknowledges it has.       *)
(***************************************************************************)
EXTENDS SharedTable, SequenceTheorems, TLAPS

QpSlots == Slots({Qp})

\* A thread that is not in its loop is in the handshake of a connection.
Positions ==
    {x \in [at : {"loop", "resp", "ack", "commit", "mark"}, conn : Conns \cup {NoConn}, gen : Nat] :
        x.at # "loop" => x.conn \in Conns}

\* The type invariant, with the messages in flight as sequences.
Typed ==
    /\ entry \in [Procs -> PlaneEntry]
    /\ slot \in [Conns -> [Procs -> QpSlots]]
    /\ chan \in [Conns -> [Procs -> Seq(Msgs)]]
    /\ pc \in [Procs -> Positions]
    /\ mon \in [Procs -> [todo : SUBSET Conns, telling : Conns \cup {NoConn},
                          gen : Nat, up : BOOLEAN]]
    /\ spent \in [reports : 0 .. MaxReports, failures : 0 .. MaxFailures]

Elements(seq) == {seq[i] : i \in 1 .. Len(seq)}

\* The messages of connection k on their way to p.
Carried(k, p) == Elements(chan[k][p])

\* Process p made connection k, or accepted it.
Sends(p, k) == p = SenderOf[k]

Receives(p, k) == p = Receiver(k)

\* Nothing but m, for p on connection k, is new among the messages.
OnlyNew(k, p, m) ==
    \A j \in Conns, q \in Procs :
        Carried(j, q)' \subseteq Carried(j, q) \cup (IF j = k /\ q = p THEN {m} ELSE {})

NothingNew == \A j \in Conns, q \in Procs : Carried(j, q)' \subseteq Carried(j, q)

-----------------------------------------------------------------------------
\* The two ends of a connection are the two processes.
LEMMA Ends ==
    /\ \A p \in Procs : Other(p) \in Procs /\ Other(p) # p /\ Other(Other(p)) = p
    /\ \A k \in Conns :
          /\ SenderOf[k] \in Procs /\ Receiver(k) \in Procs
          /\ Receiver(k) = Other(SenderOf[k]) /\ SenderOf[k] = Other(Receiver(k))
BY SharedAssumption DEF Procs, Other, Receiver

\* What an entry becomes is an entry, later than or as good as the old one.
LEMMA EntrySteps ==
    ASSUME NEW e \in PlaneEntry, NEW g \in Nat, NEW h \in {"Broken", "Recovering"}
    PROVE  /\ MarkAs(e, h) \in PlaneEntry /\ Agreement!EntryStep(e, MarkAs(e, h))
           /\ ApplyRemoteEvent(e, g, h) \in PlaneEntry
           /\ Agreement!EntryStep(e, ApplyRemoteEvent(e, g, h))
           /\ MarkHealthyIfGeneration(e, g) \in PlaneEntry
           /\ Agreement!EntryStep(e, MarkHealthyIfGeneration(e, g))
<1>1. MarkAs(e, h) \in PlaneEntry /\ Agreement!EntryStep(e, MarkAs(e, h))
  BY DEF MarkAs, PlaneEntry, PlaneHealth, Agreement!EntryStep
<1>2. /\ ApplyRemoteEvent(e, g, h) \in PlaneEntry
      /\ Agreement!EntryStep(e, ApplyRemoteEvent(e, g, h))
  BY DEF ApplyRemoteEvent, RemoteEventApplies, PlaneEntry, PlaneHealth, Agreement!EntryStep
<1>3. /\ MarkHealthyIfGeneration(e, g) \in PlaneEntry
      /\ Agreement!EntryStep(e, MarkHealthyIfGeneration(e, g))
  BY DEF MarkHealthyIfGeneration, HealthyIfGenerationOK, PlaneEntry, PlaneHealth,
         Agreement!EntryStep
<1> QED BY <1>1, <1>2, <1>3

\* Between two steps of a handshake a slot keeps the generations of its
\* active queue pair and of its shadow, also of a shadow that was given up.
SameGens(s, t) == t.active.gen = s.active.gen /\ t.shadow.gen = s.shadow.gen

LEMMA AbortRecoverySlot ==
    ASSUME NEW s \in QpSlots
    PROVE  AbortRecovery(s) \in QpSlots /\ SameGens(s, AbortRecovery(s))
<1> DEFINE e == DestroyEndpoint(s.shadow)
           p == FreshProbe(0)
           st == IF s.state \notin {"Rebuilding", "ReadyPending"} THEN s.state
                 ELSE IF s.active.qp # NoQp THEN "Quarantined" ELSE "Dead"
<1>1. e \in Endpoints({Qp}) /\ e.gen = s.shadow.gen
  BY DEF QpSlots, Slots, Endpoints, DestroyEndpoint
<1>2. p \in Probes
  BY DEF Probes, FreshProbe
<1>3. st \in {s.state, "Quarantined", "Dead"}
  OBVIOUS
<1>4. AbortRecovery(s) = [s EXCEPT !.probe = p, !.shadow = e, !.state = st]
  <2> HIDE DEF p
  <2> QED BY DEF AbortRecovery, ClearProbe, ResetProbe, QpSlots, Slots, p
<1> HIDE DEF e, p, st
<1> QED BY <1>1, <1>2, <1>3, <1>4 DEF QpSlots, Slots, SlotStates, SameGens

LEMMA SlotKeeps ==
    ASSUME NEW s \in QpSlots, NEW g \in Nat
    PROVE  /\ Quarantine(s) \in QpSlots /\ SameGens(s, Quarantine(s))
           /\ OnBroken(s, g) \in QpSlots /\ SameGens(s, OnBroken(s, g))
           /\ OnRecovering(s, g) \in QpSlots /\ SameGens(s, OnRecovering(s, g))
           /\ OnFailure(s) \in QpSlots /\ SameGens(s, OnFailure(s))
           /\ ConnectShadow(s, g) \in QpSlots /\ SameGens(s, ConnectShadow(s, g))
<1>1. \A t \in QpSlots : Quarantine(t) \in QpSlots /\ SameGens(t, Quarantine(t))
  BY DEF Quarantine, QpSlots, Slots, SlotStates, SameGens
<1>2. AbortRecovery(s) \in QpSlots /\ SameGens(s, AbortRecovery(s))
  BY AbortRecoverySlot
<1>3. OnBroken(s, g) \in QpSlots /\ SameGens(s, OnBroken(s, g))
  BY <1>1, <1>2 DEF OnBroken, SameGens
<1>4. OnRecovering(s, g) \in QpSlots /\ SameGens(s, OnRecovering(s, g))
  <2> DEFINE t == IF s.shadow.qp # NoQp /\ s.shadow.gen # g THEN AbortRecovery(s) ELSE s
  <2>1. t \in QpSlots /\ SameGens(s, t)
    BY <1>2 DEF SameGens
  <2>2. OnRecovering(s, g) = IF t.active.gen # g \/ t.state # "Active"
                             THEN [t EXCEPT !.state = "Rebuilding"] ELSE t
    BY DEF OnRecovering
  <2> HIDE DEF t
  <2> QED BY <2>1, <2>2 DEF QpSlots, Slots, SlotStates, SameGens
<1>5. OnFailure(s) \in QpSlots /\ SameGens(s, OnFailure(s))
  BY <1>1, <1>2 DEF OnFailure, SameGens
<1>6. ConnectShadow(s, g) \in QpSlots /\ SameGens(s, ConnectShadow(s, g))
  BY DEF ConnectShadow, ResetProbe, FreshProbe, QpSlots, Slots, SlotStates, Endpoints, Probes, SameGens
<1> QED BY <1>1, <1>3, <1>4, <1>5, <1>6

LEMMA RecordProbeSlot ==
    ASSUME NEW s \in QpSlots, NEW kind \in {"send", "recv"}, NEW g
    PROVE  /\ RecordProbe(s, kind, g, TRUE) \in QpSlots
           /\ SameGens(s, RecordProbe(s, kind, g, TRUE))
BY DEF RecordProbe, QpSlots, Slots, Probes, SameGens

\* A new or kept shadow is of the generation asked for.
LEMMA EnsureShadowSlot ==
    ASSUME NEW s \in QpSlots, NEW g \in Nat
    PROVE  /\ EnsureShadow(s, g, Qp) \in QpSlots
           /\ EnsureShadow(s, g, Qp).active.gen = s.active.gen
           /\ EnsureShadow(s, g, Qp).shadow.gen = g
<1>1. NewEndpoint(Qp, g) \in Endpoints({Qp}) /\ NewEndpoint(Qp, g).gen = g
      /\ FreshProbe(g) \in Probes
  BY DEF NewEndpoint, Endpoints, FreshProbe, Probes
<1>2. EnsureShadow(s, g, Qp) =
        IF s.shadow.qp # NoQp /\ s.shadow.gen = g THEN s
        ELSE [s EXCEPT !.probe = FreshProbe(g), !.shadow = NewEndpoint(Qp, g),
                       !.state = "Rebuilding"]
  BY DEF EnsureShadow, ResetProbe
<1> QED BY <1>1, <1>2 DEF QpSlots, Slots, SlotStates

\* A commit makes the shadow the active queue pair.
LEMMA CommitSlot ==
    ASSUME NEW s \in QpSlots
    PROVE  /\ Freed(CommitShadow(s)) \in QpSlots
           /\ Freed(CommitShadow(s)).active.gen = s.shadow.gen
<1> DEFINE r == RetireActive(s)
           c == FreshProbe(0)
<1>1. r \in QpSlots /\ r.shadow = s.shadow
  BY DEF RetireActive, QpSlots, Slots, NoEndpoint, NoQp, Endpoints
<1>2. c \in Probes /\ NoEndpoint \in Endpoints({Qp})
  BY DEF FreshProbe, Probes, NoEndpoint, NoQp, Endpoints
<1>3. CommitShadow(s) = [r EXCEPT !.probe = c, !.active = s.shadow, !.shadow = NoEndpoint,
                                  !.state = "Active"]
  BY DEF CommitShadow, ClearProbe, ResetProbe
<1> HIDE DEF r, c
<1>4. /\ CommitShadow(s) \in QpSlots
      /\ CommitShadow(s).active = s.shadow
  BY <1>1, <1>2, <1>3 DEF QpSlots, Slots, SlotStates
<1> QED BY <1>4 DEF QpSlots, Slots, Freed

-----------------------------------------------------------------------------
\* Messages.
LEMMA ElementsAppend ==
    ASSUME NEW seq \in Seq(Msgs), NEW m \in Msgs
    PROVE  Append(seq, m) \in Seq(Msgs) /\ Elements(Append(seq, m)) \subseteq Elements(seq) \cup {m}
<1>1. /\ Append(seq, m) \in Seq(Msgs) /\ Len(Append(seq, m)) = Len(seq) + 1 /\ Len(seq) \in Nat
      /\ \A i \in 1 .. Len(seq) : Append(seq, m)[i] = seq[i]
      /\ Append(seq, m)[Len(seq) + 1] = m
  BY AppendProperties, LenProperties
<1> QED BY <1>1 DEF Elements

LEMMA ElementsTail ==
    ASSUME NEW seq \in Seq(Msgs), seq # <<>>
    PROVE  /\ Tail(seq) \in Seq(Msgs) /\ Elements(Tail(seq)) \subseteq Elements(seq)
           /\ Head(seq) \in Msgs /\ Head(seq) \in Elements(seq)
<1>1. /\ Tail(seq) \in Seq(Msgs) /\ Len(Tail(seq)) = Len(seq) - 1 /\ Len(seq) \in Nat \ {0}
      /\ \A i \in 1 .. Len(Tail(seq)) : Tail(seq)[i] = seq[i + 1]
      /\ Head(seq) \in Msgs /\ Head(seq) = seq[1]
  BY HeadTailProperties, EmptySeq, LenProperties
<1>2. \A i \in 1 .. Len(Tail(seq)) : i + 1 \in 1 .. Len(seq)
  BY <1>1
<1> QED BY <1>1, <1>2 DEF Elements

\* What Send, Receive and Reply do to the messages in flight.
LEMMA SendCarries ==
    ASSUME Typed, NEW k \in Conns, NEW p \in Procs, NEW m \in Msgs, Send(k, p, m)
    PROVE  chan' \in [Conns -> [Procs -> Seq(Msgs)]] /\ OnlyNew(k, Other(p), m)
<1>1. Other(p) \in Procs
  BY Ends
<1>2. \A j \in Conns, q \in Procs : chan[j][q] \in Seq(Msgs)
  BY DEF Typed
<1>3. chan' = [chan EXCEPT ![k][Other(p)] = Append(chan[k][Other(p)], m)]
  BY <1>1 DEF Send, Typed
<1>4. \A j \in Conns, q \in Procs :
        chan'[j][q] = IF j = k /\ q = Other(p) THEN Append(chan[j][q], m) ELSE chan[j][q]
  BY <1>1, <1>3 DEF Typed
<1>5. chan' \in [Conns -> [Procs -> Seq(Msgs)]]
  BY <1>1, <1>2, <1>3, ElementsAppend DEF Typed
<1>6. OnlyNew(k, Other(p), m)
  BY <1>2, <1>4, ElementsAppend DEF OnlyNew, Carried
<1> QED BY <1>5, <1>6

LEMMA ReceiveCarries ==
    ASSUME Typed, NEW k \in Conns, NEW p \in Procs, chan[k][p] # <<>>, Receive(k, p)
    PROVE  chan' \in [Conns -> [Procs -> Seq(Msgs)]] /\ NothingNew
<1>1. \A j \in Conns, q \in Procs : chan[j][q] \in Seq(Msgs)
  BY DEF Typed
<1>2. chan' = [chan EXCEPT ![k][p] = Tail(chan[k][p])]
  BY DEF Receive, Typed
<1>3. \A j \in Conns, q \in Procs :
        chan'[j][q] = IF j = k /\ q = p THEN Tail(chan[j][q]) ELSE chan[j][q]
  BY <1>2 DEF Typed
<1>4. chan' \in [Conns -> [Procs -> Seq(Msgs)]]
  BY <1>1, <1>2, ElementsTail DEF Typed
<1>5. NothingNew
  BY <1>1, <1>3, ElementsTail DEF NothingNew, Carried
<1> QED BY <1>4, <1>5

LEMMA ReplyCarries ==
    ASSUME Typed, NEW k \in Conns, NEW p \in Procs, NEW m \in Msgs, chan[k][p] # <<>>,
           Reply(k, p, m)
    PROVE  chan' \in [Conns -> [Procs -> Seq(Msgs)]] /\ OnlyNew(k, Other(p), m)
<1>1. Other(p) \in Procs /\ Other(p) # p
  BY Ends
<1>2. \A j \in Conns, q \in Procs : chan[j][q] \in Seq(Msgs)
  BY DEF Typed
<1> DEFINE o == Other(p)
           a == Append(chan[k][o], m)
           b == Tail(chan[k][p])
           c == [chan EXCEPT ![k][p] = Tail(@)]
<1>3. a \in Seq(Msgs) /\ b \in Seq(Msgs)
  BY <1>1, <1>2, ElementsAppend, ElementsTail
<1>4. c \in [Conns -> [Procs -> Seq(Msgs)]] /\ c[k][o] = chan[k][o]
  BY <1>1, <1>3 DEF Typed
<1>5. chan' = [c EXCEPT ![k][o] = a]
  BY DEF Reply
<1>6. \A j \in Conns, q \in Procs : c[j][q] = IF j = k /\ q = p THEN b ELSE chan[j][q]
  BY DEF Typed
<1>7. /\ Elements(b) \subseteq Elements(chan[k][p])
      /\ Elements(a) \subseteq Elements(chan[k][o]) \cup {m}
  BY <1>1, <1>2, ElementsAppend, ElementsTail
<1> HIDE DEF a, b, c, o
<1>8. chan' \in [Conns -> [Procs -> Seq(Msgs)]]
  BY <1>1, <1>3, <1>4, <1>5 DEF o
<1>9. \A j \in Conns, q \in Procs :
        chan'[j][q] = IF j = k /\ q = o THEN a ELSE c[j][q]
  BY <1>1, <1>4, <1>5 DEF o
<1>10. OnlyNew(k, o, m)
  BY <1>6, <1>7, <1>9 DEF OnlyNew, Carried
<1> QED BY <1>8, <1>10 DEF o

\* A message that has arrived is one in flight.
LEMMA ArrivedMessage ==
    ASSUME Typed, NEW k \in Conns, NEW p \in Procs, NEW kind, Arrived(k, p, kind)
    PROVE  /\ chan[k][p] # <<>> /\ Head(chan[k][p]) \in Msgs
           /\ Head(chan[k][p]).kind = kind /\ Head(chan[k][p]).gen \in Nat
           /\ Head(chan[k][p]).ok \in BOOLEAN
           /\ Head(chan[k][p]) \in Carried(k, p)
<1>1. chan[k][p] \in Seq(Msgs) /\ chan[k][p] # <<>> /\ Head(chan[k][p]).kind = kind
  BY DEF Typed, Arrived
<1>2. Head(chan[k][p]) \in Msgs /\ Head(chan[k][p]) \in Carried(k, p)
  BY <1>1, ElementsTail DEF Carried
<1> QED BY <1>1, <1>2 DEF Msgs

LEMMA MessageType ==
    ASSUME NEW kind \in {"event", "req", "resp", "ready", "ack"}, NEW g \in Nat,
           NEW ok \in BOOLEAN
    PROVE  /\ Msg(kind, g, ok) \in Msgs
           /\ Msg(kind, g, ok).kind = kind /\ Msg(kind, g, ok).gen = g
           /\ Msg(kind, g, ok).ok = ok
BY DEF Msg, Msgs

-----------------------------------------------------------------------------
\* Types.  Every step moves the tables forward as well.
Later == \A q \in Procs : Agreement!EntryStep(entry[q], entry'[q])

LEMMA EntryChange ==
    ASSUME Typed, NEW p \in Procs, NEW f \in PlaneEntry, Agreement!EntryStep(entry[p], f),
           entry' = [entry EXCEPT ![p] = f]
    PROVE  /\ entry' \in [Procs -> PlaneEntry] /\ Later
           /\ \A q \in Procs : entry'[q] = IF q = p THEN f ELSE entry[q]
<1>1. entry' \in [Procs -> PlaneEntry] /\ \A q \in Procs : entry'[q] = IF q = p THEN f ELSE entry[q]
  BY DEF Typed
<1>2. Later
  BY <1>1 DEF Later, Agreement!EntryStep
<1> QED BY <1>1, <1>2

LEMMA EntrySame == Typed /\ UNCHANGED entry => Later
BY DEF Later, Agreement!EntryStep

LEMMA SlotChange ==
    ASSUME Typed, NEW k, NEW p \in Procs, NEW s \in QpSlots, SetSlot(k, p, s)
    PROVE  /\ slot' \in [Conns -> [Procs -> QpSlots]]
           /\ \A j \in Conns, q \in Procs :
                 slot'[j][q] = IF j = k /\ q = p THEN s ELSE slot[j][q]
<1>1. slot \in [Conns -> [Procs -> QpSlots]] /\ slot' = [slot EXCEPT ![k][p] = s]
  BY DEF Typed, SetSlot
<1> QED BY <1>1

LEMMA GotoChange ==
    ASSUME Typed, NEW p \in Procs, NEW at \in {"loop", "resp", "ack", "commit", "mark"},
           NEW k \in Conns, NEW g \in Nat, Goto(p, at, k, g)
    PROVE  /\ pc' \in [Procs -> Positions]
           /\ pc'[p].at = at /\ pc'[p].conn = k /\ pc'[p].gen = g
           /\ \A q \in Procs : q # p => pc'[q] = pc[q]
BY DEF Typed, Goto, Positions

LEMMA LoopChange ==
    ASSUME Typed, NEW p \in Procs, pc' = [pc EXCEPT ![p] = Looping]
    PROVE  /\ pc' \in [Procs -> Positions]
           /\ pc'[p] = Looping /\ Looping.at = "loop"
           /\ \A q \in Procs : q # p => pc'[q] = pc[q]
BY DEF Typed, Looping, Positions

\* What the proofs use of the present state.
LEMMA Now ==
    ASSUME Typed, NEW p \in Procs
    PROVE  /\ entry[p] \in PlaneEntry /\ entry[p].gen \in Nat
           /\ pc[p].gen \in Nat /\ mon[p].gen \in Nat /\ mon[p].up \in BOOLEAN
           /\ \A k \in Conns : slot[k][p] \in QpSlots
<1>1. entry[p] \in PlaneEntry /\ entry[p].gen \in Nat
  BY DEF Typed, PlaneEntry
<1>2. pc[p].gen \in Nat
  BY DEF Typed, Positions
<1>3. mon[p] \in [todo : SUBSET Conns, telling : Conns \cup {NoConn}, gen : Nat, up : BOOLEAN]
  BY Zenon DEF Typed
<1>4. \A k \in Conns : slot[k][p] \in QpSlots
  BY DEF Typed
<1> QED BY <1>1, <1>2, <1>3, <1>4

\* A monitor that goes on with its report, or has told another peer.
LEMMA MonChange ==
    ASSUME Typed, NEW p \in Procs, NEW todo \in SUBSET Conns,
           NEW telling \in Conns \cup {NoConn},
           mon' = [mon EXCEPT ![p].todo = todo, ![p].telling = telling]
    PROVE  /\ mon' \in [Procs -> [todo : SUBSET Conns, telling : Conns \cup {NoConn},
                                  gen : Nat, up : BOOLEAN]]
           /\ \A q \in Procs : mon'[q].gen = mon[q].gen /\ mon'[q].up = mon[q].up
<1> DEFINE M == [todo : SUBSET Conns, telling : Conns \cup {NoConn}, gen : Nat, up : BOOLEAN]
           r == [mon[p] EXCEPT !.todo = todo, !.telling = telling]
<1>1. mon \in [Procs -> M] /\ mon[p] \in M
  BY DEF Typed
<1>2. r \in M /\ r.gen = mon[p].gen /\ r.up = mon[p].up
  BY <1>1
<1>3. mon' = [mon EXCEPT ![p] = r]
  BY <1>1
<1> HIDE DEF M, r
<1>4. mon' \in [Procs -> M] /\ \A q \in Procs : mon'[q] = IF q = p THEN r ELSE mon[q]
  BY <1>1, <1>2, <1>3
<1> QED BY <1>2, <1>4 DEF M

\* The bounds.
LEMMA SpentChange ==
    ASSUME Typed
    PROVE  /\ spent.reports < MaxReports /\ spent' = [spent EXCEPT !.reports = @ + 1]
                 => spent' \in [reports : 0 .. MaxReports, failures : 0 .. MaxFailures]
           /\ spent.failures < MaxFailures /\ spent' = [spent EXCEPT !.failures = @ + 1]
                 => spent' \in [reports : 0 .. MaxReports, failures : 0 .. MaxFailures]
<1>1. MaxReports \in Nat /\ MaxFailures \in Nat
  BY SharedAssumption
<1>2. spent \in [reports : 0 .. MaxReports, failures : 0 .. MaxFailures]
  BY DEF Typed
<1>3. spent.reports \in 0 .. MaxReports /\ spent.failures \in 0 .. MaxFailures
  BY <1>2
<1>4. /\ spent.reports < MaxReports => spent.reports + 1 \in 0 .. MaxReports
      /\ spent.failures < MaxFailures => spent.failures + 1 \in 0 .. MaxFailures
  BY <1>1, <1>3
<1> QED BY <1>2, <1>4

-----------------------------------------------------------------------------
\* The monitors, completion errors and events.
LEMMA ReportTyped ==
    ASSUME Typed, NEW p \in Procs, NEW up \in BOOLEAN, Report(p, up)
    PROVE  /\ Typed' /\ Later
           /\ \A q \in Procs :
                 mon'[q] = IF q = p THEN [todo |-> Conns, telling |-> NoConn,
                                          gen |-> entry'[p].gen, up |-> up]
                           ELSE mon[q]
<1>1. Mark(entry[p], up) \in PlaneEntry /\ Agreement!EntryStep(entry[p], Mark(entry[p], up))
  BY Now, EntrySteps DEF Mark, MarkBroken, MarkRecovering
<1>2. entry' \in [Procs -> PlaneEntry] /\ Later
  BY <1>1, EntryChange DEF Report
<1>3. entry'[p].gen \in Nat
  BY <1>2 DEF PlaneEntry
<1>4. spent' \in [reports : 0 .. MaxReports, failures : 0 .. MaxFailures]
  BY SpentChange DEF Report
<1>5. mon' = [mon EXCEPT ![p] = [todo |-> Conns, telling |-> NoConn, gen |-> entry'[p].gen,
                                 up |-> up]]
  BY DEF Report
<1>6. mon' \in [Procs -> [todo : SUBSET Conns, telling : Conns \cup {NoConn},
                          gen : Nat, up : BOOLEAN]]
  BY <1>3, <1>5 DEF Typed
<1>7. UNCHANGED <<slot, chan, pc>>
  BY DEF Report
<1> QED BY <1>2, <1>4, <1>5, <1>6, <1>7 DEF Typed

LEMMA OnReportTyped ==
    ASSUME Typed, NEW p \in Procs, NEW k \in Conns, OnReport(p, k)
    PROVE  /\ Typed' /\ Later
           /\ \A q \in Procs : mon'[q].gen = mon[q].gen /\ mon'[q].up = mon[q].up
           /\ \A j \in Conns, q \in Procs :
                 slot'[j][q] = slot[j][q]
                 \/ (j = k /\ q = p /\ SameGens(slot[j][q], slot'[j][q]))
<1> DEFINE s == IF mon[p].up THEN OnRecovering(slot[k][p], mon[p].gen)
                ELSE OnBroken(slot[k][p], mon[p].gen)
<1>1. s \in QpSlots /\ SameGens(slot[k][p], s)
  BY Now, SlotKeeps
<1>2. SetSlot(k, p, s)
  BY DEF OnReport
<1> HIDE DEF s
<1>3. /\ slot' \in [Conns -> [Procs -> QpSlots]]
      /\ \A j \in Conns, q \in Procs :
            slot'[j][q] = IF j = k /\ q = p THEN s ELSE slot[j][q]
  BY <1>1, <1>2, SlotChange
<1>4. /\ mon' \in [Procs -> [todo : SUBSET Conns, telling : Conns \cup {NoConn},
                             gen : Nat, up : BOOLEAN]]
      /\ \A q \in Procs : mon'[q].gen = mon[q].gen /\ mon'[q].up = mon[q].up
  <2>1. mon[p].todo \ {k} \in SUBSET Conns
    BY DEF Typed
  <2>2. mon' = [mon EXCEPT ![p].todo = mon[p].todo \ {k}, ![p].telling = k]
    BY DEF OnReport
  <2> QED BY <2>1, <2>2, MonChange
<1>5. UNCHANGED <<entry, chan, pc, spent>>
  BY DEF OnReport
<1>6. Typed'
  BY <1>3, <1>4, <1>5 DEF Typed
<1> QED BY <1>1, <1>3, <1>4, <1>5, <1>6, EntrySame

LEMMA TellPeerTyped ==
    ASSUME Typed, NEW p \in Procs, NEW k \in Conns, TellPeer(p, k)
    PROVE  /\ Typed' /\ Later
           /\ \A q \in Procs : mon'[q].gen = mon[q].gen /\ mon'[q].up = mon[q].up
           /\ OnlyNew(k, Other(p), Msg("event", mon[p].gen, mon[p].up))
<1>1. Msg("event", mon[p].gen, mon[p].up) \in Msgs
  BY Now, MessageType
<1>2. /\ chan' \in [Conns -> [Procs -> Seq(Msgs)]]
      /\ OnlyNew(k, Other(p), Msg("event", mon[p].gen, mon[p].up))
  BY <1>1, SendCarries DEF TellPeer
<1>3. /\ mon' \in [Procs -> [todo : SUBSET Conns, telling : Conns \cup {NoConn},
                             gen : Nat, up : BOOLEAN]]
      /\ \A q \in Procs : mon'[q].gen = mon[q].gen /\ mon'[q].up = mon[q].up
  <2>1. mon[p].todo \in SUBSET Conns
    BY DEF Typed
  <2>2. mon' = [mon EXCEPT ![p].todo = mon[p].todo, ![p].telling = NoConn]
    BY DEF TellPeer, Typed
  <2> QED BY <2>1, <2>2, MonChange
<1>4. UNCHANGED <<entry, slot, pc, spent>>
  BY DEF TellPeer
<1>5. Typed'
  BY <1>2, <1>3, <1>4 DEF Typed
<1> QED BY <1>2, <1>3, <1>4, <1>5, EntrySame

LEMMA CqErrorTyped ==
    ASSUME Typed, NEW p \in Procs, NEW k \in Conns, CqError(p, k)
    PROVE  /\ Typed' /\ Later
           /\ \A q \in Procs : entry'[q] = IF q = p THEN MarkBroken(entry[p]) ELSE entry[q]
           /\ \A j \in Conns, q \in Procs :
                 slot'[j][q] = slot[j][q]
                 \/ (j = k /\ q = p /\ SameGens(slot[j][q], slot'[j][q]))
           /\ OnlyNew(k, Other(p), Msg("event", MarkBroken(entry[p]).gen, FALSE))
<1> DEFINE e == MarkBroken(entry[p])
           s == OnFailure(slot[k][p])
           m == Msg("event", e.gen, FALSE)
<1>1. e \in PlaneEntry /\ Agreement!EntryStep(entry[p], e)
  BY Now, EntrySteps DEF MarkBroken
<1>2. s \in QpSlots /\ SameGens(slot[k][p], s)
  BY Now, SlotKeeps
<1>3. m \in Msgs
  BY <1>1, MessageType DEF PlaneEntry
<1>4. SetSlot(k, p, s)
  BY DEF CqError
<1>5. /\ entry' = [entry EXCEPT ![p] = e] /\ Send(k, p, m)
      /\ spent.failures < MaxFailures /\ spent' = [spent EXCEPT !.failures = @ + 1]
      /\ UNCHANGED <<pc, mon>>
  BY DEF CqError
<1> HIDE DEF e, s, m
<1>6. /\ slot' \in [Conns -> [Procs -> QpSlots]]
      /\ \A j \in Conns, q \in Procs :
            slot'[j][q] = IF j = k /\ q = p THEN s ELSE slot[j][q]
  BY <1>2, <1>4, SlotChange
<1>7. chan' \in [Conns -> [Procs -> Seq(Msgs)]] /\ OnlyNew(k, Other(p), m)
  BY <1>3, <1>5, SendCarries
<1>8. /\ entry' \in [Procs -> PlaneEntry] /\ Later
      /\ \A q \in Procs : entry'[q] = IF q = p THEN e ELSE entry[q]
  BY <1>1, <1>5, EntryChange
<1>9. spent' \in [reports : 0 .. MaxReports, failures : 0 .. MaxFailures]
  BY <1>5, SpentChange
<1>10. Typed'
  BY <1>5, <1>6, <1>7, <1>8, <1>9 DEF Typed
<1> QED BY <1>2, <1>6, <1>7, <1>8, <1>10 DEF e, m

LEMMA RecvEventTyped ==
    ASSUME Typed, NEW p \in Procs, NEW k \in Conns, RecvEvent(p, k),
           NEW m, m = Head(chan[k][p]),
           NEW h, h = IF m.ok THEN "Recovering" ELSE "Broken"
    PROVE  /\ Typed' /\ Later /\ NothingNew
           /\ entry' = [entry EXCEPT ![p] = ApplyRemoteEvent(entry[p], m.gen, h)]
           /\ \A j \in Conns, q \in Procs :
                 slot'[j][q] = slot[j][q]
                 \/ (j = k /\ q = p /\ SameGens(slot[j][q], slot'[j][q]))
<1> DEFINE e == ApplyRemoteEvent(entry[p], m.gen, h)
           s == IF m.ok THEN OnRecovering(slot[k][p], e.gen) ELSE OnFailure(slot[k][p])
<1>1. Arrived(k, p, "event")
  BY DEF RecvEvent
<1>2. chan[k][p] # <<>> /\ m.gen \in Nat /\ m.ok \in BOOLEAN
  BY <1>1, ArrivedMessage
<1>3. e \in PlaneEntry /\ Agreement!EntryStep(entry[p], e)
  BY <1>2, Now, EntrySteps
<1>4. s \in QpSlots /\ SameGens(slot[k][p], s)
  BY <1>3, Now, SlotKeeps DEF PlaneEntry
<1>5. /\ entry' = [entry EXCEPT ![p] = e] /\ Receive(k, p)
      /\ SetSlot(k, p, s) \/ slot' = slot
      /\ UNCHANGED <<pc, mon, spent>>
  BY DEF RecvEvent
<1> HIDE DEF e, s
<1>6. /\ slot' \in [Conns -> [Procs -> QpSlots]]
      /\ \A j \in Conns, q \in Procs :
            slot'[j][q] = slot[j][q] \/ (j = k /\ q = p /\ slot'[j][q] = s)
  <2>1. CASE SetSlot(k, p, s)
    <3>1. /\ slot' \in [Conns -> [Procs -> QpSlots]]
          /\ \A j \in Conns, q \in Procs :
                slot'[j][q] = IF j = k /\ q = p THEN s ELSE slot[j][q]
      BY <1>4, <2>1, SlotChange
    <3> QED BY <3>1
  <2>2. CASE slot' = slot
    BY <2>2 DEF Typed
  <2> QED BY <1>5, <2>1, <2>2
<1>7. chan' \in [Conns -> [Procs -> Seq(Msgs)]] /\ NothingNew
  BY <1>2, <1>5, ReceiveCarries
<1>8. entry' \in [Procs -> PlaneEntry] /\ Later
  BY <1>3, <1>5, EntryChange
<1>9. Typed'
  BY <1>5, <1>6, <1>7, <1>8 DEF Typed
<1> QED BY <1>4, <1>5, <1>6, <1>7, <1>8, <1>9 DEF e

-----------------------------------------------------------------------------
\* The handshake.
LEMMA RecoverStartTyped ==
    ASSUME Typed, NEW k \in Conns, RecoverStart(k), NEW p \in Procs, Sends(p, k)
    PROVE  /\ Typed' /\ Later /\ UNCHANGED <<entry, mon>>
           /\ OnlyNew(k, Other(p), Msg("req", entry[p].gen, TRUE))
           /\ pc'[p].at = "resp" /\ pc'[p].conn = k /\ pc'[p].gen = entry[p].gen
           /\ \A q \in Procs : q # p => pc'[q] = pc[q]
           /\ slot'[k][p].active.gen = slot[k][p].active.gen
           /\ slot'[k][p].shadow.gen = entry[p].gen
           /\ \A j \in Conns, q \in Procs : ~(j = k /\ q = p) => slot'[j][q] = slot[j][q]
<1> DEFINE g == entry[p].gen
           s == EnsureShadow(slot[k][p], g, Qp)
           m == Msg("req", g, TRUE)
<1>1. p \in Procs /\ g \in Nat /\ slot[k][p] \in QpSlots
  BY Ends, Now
<1>2. s \in QpSlots /\ s.active.gen = slot[k][p].active.gen /\ s.shadow.gen = g
  BY <1>1, EnsureShadowSlot
<1>3. m \in Msgs
  BY <1>1, MessageType
<1>4. SetSlot(k, p, s)
  BY DEF RecoverStart, Sends
<1>5. Send(k, p, m) /\ Goto(p, "resp", k, g)
  BY DEF RecoverStart, Sends
<1>6. UNCHANGED <<entry, mon, spent>>
  BY DEF RecoverStart, Sends
<1> HIDE DEF s, m, g
<1>7. /\ slot' \in [Conns -> [Procs -> QpSlots]]
      /\ \A j \in Conns, q \in Procs :
            slot'[j][q] = IF j = k /\ q = p THEN s ELSE slot[j][q]
  BY <1>1, <1>2, <1>4, SlotChange
<1>8. chan' \in [Conns -> [Procs -> Seq(Msgs)]] /\ OnlyNew(k, Other(p), m)
  BY <1>1, <1>3, <1>5, SendCarries
<1>9. /\ pc' \in [Procs -> Positions]
      /\ pc'[p].at = "resp" /\ pc'[p].conn = k /\ pc'[p].gen = g
      /\ \A q \in Procs : q # p => pc'[q] = pc[q]
  BY <1>1, <1>5, GotoChange
<1>10. Typed'
  BY <1>6, <1>7, <1>8, <1>9 DEF Typed
<1> QED BY <1>1, <1>2, <1>6, <1>7, <1>8, <1>9, <1>10, EntrySame DEF g, m

\* Whatever the receiver does for a request, its active queue pair stays.
LEMMA RecvReqSlot ==
    ASSUME NEW s \in QpSlots, NEW g \in Nat, NEW portReady,
           NEW idle, idle = IF s.shadow.qp # NoQp THEN AbortRecovery(s) ELSE s,
           NEW t, t = IF portReady THEN ConnectShadow(EnsureShadow(idle, g, Qp), g) ELSE idle
    PROVE  t \in QpSlots /\ t.active.gen = s.active.gen
<1>1. idle \in QpSlots /\ idle.active.gen = s.active.gen
  BY AbortRecoverySlot DEF SameGens
<1>2. /\ EnsureShadow(idle, g, Qp) \in QpSlots
      /\ EnsureShadow(idle, g, Qp).active.gen = s.active.gen
  BY <1>1, EnsureShadowSlot
<1>3. /\ ConnectShadow(EnsureShadow(idle, g, Qp), g) \in QpSlots
      /\ ConnectShadow(EnsureShadow(idle, g, Qp), g).active.gen = s.active.gen
  BY <1>2, SlotKeeps DEF SameGens
<1> QED BY <1>1, <1>3

LEMMA RecvReqTyped ==
    ASSUME Typed, NEW k \in Conns, NEW portReady \in BOOLEAN, RecvReq(k, portReady),
           NEW p \in Procs, Receives(p, k), NEW m, m = Head(chan[k][p])
    PROVE  /\ Typed' /\ Later /\ UNCHANGED <<pc, mon>>
           /\ entry' = [entry EXCEPT ![p] = ApplyRemoteEvent(entry[p], m.gen, "Recovering")]
           /\ \E ok \in BOOLEAN : OnlyNew(k, Other(p), Msg("resp", m.gen, ok))
           /\ \A j \in Conns, q \in Procs :
                 slot'[j][q] = slot[j][q]
                 \/ (j = k /\ q = p /\ slot'[j][q].active.gen = slot[j][q].active.gen)
<1> DEFINE g == m.gen
           e == ApplyRemoteEvent(entry[p], g, "Recovering")
           idle == IF slot[k][p].shadow.qp # NoQp THEN AbortRecovery(slot[k][p]) ELSE slot[k][p]
           s == IF portReady THEN ConnectShadow(EnsureShadow(idle, g, Qp), g) ELSE idle
           ok == (e.gen = g /\ AllowsQpRecovery(e)) /\ portReady
           r == Msg("resp", g, ok)
<1>1. Arrived(k, p, "req") /\ p \in Procs
  BY Ends DEF RecvReq, Receives
<1>2. chan[k][p] # <<>> /\ g \in Nat
  BY <1>1, ArrivedMessage
<1>3. e \in PlaneEntry /\ Agreement!EntryStep(entry[p], e)
  BY <1>1, <1>2, Now, EntrySteps
<1>4. s \in QpSlots /\ s.active.gen = slot[k][p].active.gen
  BY <1>1, <1>2, Now, RecvReqSlot
<1>5. ok \in BOOLEAN
  BY DEF AllowsQpRecovery
<1>6. r \in Msgs
  BY <1>2, <1>5, MessageType
<1>7. Reply(k, p, r) /\ entry' = [entry EXCEPT ![p] = e]
  BY DEF RecvReq, Receives
<1>8. SetSlot(k, p, s) \/ slot' = slot
  BY DEF RecvReq, Receives
<1>9. \/ spent.failures < MaxFailures /\ spent' = [spent EXCEPT !.failures = @ + 1]
      \/ spent' = spent
  BY DEF RecvReq, Receives
<1>10. UNCHANGED <<pc, mon>>
  BY DEF RecvReq, Receives
<1> HIDE DEF g, e, idle, s, ok, r
<1>11. /\ slot' \in [Conns -> [Procs -> QpSlots]]
       /\ \A j \in Conns, q \in Procs :
             slot'[j][q] = slot[j][q] \/ (j = k /\ q = p /\ slot'[j][q] = s)
  <2>1. CASE SetSlot(k, p, s)
    <3>1. /\ slot' \in [Conns -> [Procs -> QpSlots]]
          /\ \A j \in Conns, q \in Procs :
                slot'[j][q] = IF j = k /\ q = p THEN s ELSE slot[j][q]
      BY <1>1, <1>4, <2>1, SlotChange
    <3> QED BY <3>1
  <2>2. CASE slot' = slot
    BY <2>2 DEF Typed
  <2> QED BY <1>8, <2>1, <2>2
<1>12. chan' \in [Conns -> [Procs -> Seq(Msgs)]] /\ OnlyNew(k, Other(p), r)
  BY <1>1, <1>2, <1>6, <1>7, ReplyCarries
<1>13. entry' \in [Procs -> PlaneEntry] /\ Later
  BY <1>1, <1>3, <1>7, EntryChange
<1>14. spent' \in [reports : 0 .. MaxReports, failures : 0 .. MaxFailures]
  BY <1>9, SpentChange DEF Typed
<1>15. Typed'
  BY <1>10, <1>11, <1>12, <1>13, <1>14 DEF Typed
<1>16. \E b \in BOOLEAN : OnlyNew(k, Other(p), Msg("resp", g, b))
  BY <1>5, <1>12 DEF r
<1>17. \A j \in Conns, q \in Procs :
          slot'[j][q] = slot[j][q]
          \/ (j = k /\ q = p /\ slot'[j][q].active.gen = slot[j][q].active.gen)
  BY <1>4, <1>11
<1> QED BY <1>7, <1>10, <1>13, <1>15, <1>16, <1>17 DEF e, g

LEMMA GiveUpTyped ==
    ASSUME Typed, NEW k \in Conns, GiveUp(k), NEW p \in Procs, Sends(p, k)
    PROVE  /\ Typed' /\ Later /\ NothingNew /\ UNCHANGED <<entry, mon>>
           /\ pc'[p].at = "loop" /\ \A q \in Procs : q # p => pc'[q] = pc[q]
           /\ \A j \in Conns, q \in Procs :
                 slot'[j][q] = slot[j][q]
                 \/ (j = k /\ q = p /\ SameGens(slot[j][q], slot'[j][q]))
<1> DEFINE s == AbortRecovery(slot[k][p])
<1>1. p \in Procs /\ chan[k][p] # <<>>
  BY DEF GiveUp, Sends, Answered, Arrived
<1>2. s \in QpSlots /\ SameGens(slot[k][p], s)
  BY <1>1, Now, AbortRecoverySlot
<1>3. SetSlot(k, p, s)
  BY DEF GiveUp, Sends
<1>4. Receive(k, p) /\ pc' = [pc EXCEPT ![p] = Looping] /\ UNCHANGED <<entry, mon, spent>>
  BY DEF GiveUp, Sends
<1> HIDE DEF s
<1>5. /\ slot' \in [Conns -> [Procs -> QpSlots]]
      /\ \A j \in Conns, q \in Procs :
            slot'[j][q] = IF j = k /\ q = p THEN s ELSE slot[j][q]
  BY <1>2, <1>3, SlotChange
<1>6. chan' \in [Conns -> [Procs -> Seq(Msgs)]] /\ NothingNew
  BY <1>1, <1>4, ReceiveCarries
<1>7. /\ pc' \in [Procs -> Positions] /\ pc'[p].at = "loop"
      /\ \A q \in Procs : q # p => pc'[q] = pc[q]
  BY <1>1, <1>4, LoopChange
<1>8. Typed'
  BY <1>4, <1>5, <1>6, <1>7 DEF Typed
<1> QED BY <1>2, <1>4, <1>5, <1>6, <1>7, <1>8, EntrySame

\* Only the slots of connection k may change, and their generations do not.
KeepsGens(k) ==
    \A j \in Conns, q \in Procs :
        slot'[j][q] = slot[j][q] \/ (j = k /\ SameGens(slot[j][q], slot'[j][q]))

LEMMA RecvRespTyped ==
    ASSUME Typed, NEW k \in Conns, RecvResp(k), NEW p \in Procs, Sends(p, k)
    PROVE  /\ Typed' /\ Later /\ UNCHANGED <<entry, mon>>
           /\ OnlyNew(k, Other(p), Msg("ready", pc[p].gen, TRUE))
           /\ pc'[p].at = "ack" /\ pc'[p].conn = k /\ pc'[p].gen = pc[p].gen
           /\ \A q \in Procs : q # p => pc'[q] = pc[q]
           /\ KeepsGens(k)
<1> DEFINE o == Receiver(k)
           g == pc[p].gen
           c == ConnectShadow(slot[k][p], g)
           s == RecordProbe(c, "send", g, TRUE)
           r == RecordProbe(slot[k][o], "recv", g, TRUE)
           m == Msg("ready", g, TRUE)
<1>1. p \in Procs /\ o \in Procs /\ o # p
  BY Ends DEF Sends
<1>2. g \in Nat /\ slot[k][p] \in QpSlots /\ slot[k][o] \in QpSlots
  BY <1>1, Now
<1>3. s \in QpSlots /\ SameGens(slot[k][p], s)
  <2>1. c \in QpSlots /\ SameGens(slot[k][p], c)
    BY <1>2, SlotKeeps
  <2> HIDE DEF c
  <2> QED BY <2>1, RecordProbeSlot DEF SameGens
<1>4. r \in QpSlots /\ SameGens(slot[k][o], r)
  BY <1>2, RecordProbeSlot
<1>5. m \in Msgs
  BY <1>2, MessageType
<1>6. pc[p].at = "resp" /\ pc[p].conn = k /\ chan[k][p] # <<>>
  BY DEF RecvResp, Sends, Answered, Arrived
<1>7. Reply(k, p, m) /\ Goto(p, "ack", k, g) /\ UNCHANGED <<entry, mon, spent>>
  BY DEF RecvResp, Sends
<1>8. slot' = [slot EXCEPT ![k][p] = s, ![k][o] = r]
  BY DEF RecvResp, Sends
<1> HIDE DEF o, g, c, s, r, m
<1>9. /\ slot' \in [Conns -> [Procs -> QpSlots]]
      /\ \A j \in Conns, q \in Procs :
            slot'[j][q] = IF j = k /\ q = o THEN r ELSE IF j = k /\ q = p THEN s ELSE slot[j][q]
  <2> DEFINE f == [slot EXCEPT ![k][p] = s]
  <2>1. /\ f \in [Conns -> [Procs -> QpSlots]]
        /\ \A j \in Conns, q \in Procs : f[j][q] = IF j = k /\ q = p THEN s ELSE slot[j][q]
    BY <1>1, <1>3 DEF Typed
  <2>2. slot' = [f EXCEPT ![k][o] = r]
    BY <1>8
  <2> HIDE DEF f
  <2> QED BY <1>1, <1>4, <2>1, <2>2
<1>10. chan' \in [Conns -> [Procs -> Seq(Msgs)]] /\ OnlyNew(k, Other(p), m)
  BY <1>1, <1>5, <1>6, <1>7, ReplyCarries
<1>11. /\ pc' \in [Procs -> Positions]
       /\ pc'[p].at = "ack" /\ pc'[p].conn = k /\ pc'[p].gen = g
       /\ \A q \in Procs : q # p => pc'[q] = pc[q]
  BY <1>1, <1>2, <1>7, GotoChange DEF g
<1>12. Typed'
  BY <1>7, <1>9, <1>10, <1>11 DEF Typed
<1>13. KeepsGens(k)
  BY <1>3, <1>4, <1>9 DEF KeepsGens
<1> QED BY <1>6, <1>7, <1>10, <1>11, <1>12, <1>13, EntrySame DEF g, m

LEMMA RefuseReadyTyped ==
    ASSUME Typed, NEW k \in Conns, RefuseReady(k), NEW p \in Procs, Receives(p, k)
    PROVE  /\ Typed' /\ Later /\ UNCHANGED <<entry, pc, mon>>
           /\ \E g \in Nat : OnlyNew(k, Other(p), Msg("ack", g, FALSE))
           /\ \A j \in Conns, q \in Procs :
                 slot'[j][q] = slot[j][q]
                 \/ (j = k /\ q = p /\ SameGens(slot[j][q], slot'[j][q]))
<1> DEFINE s == AbortRecovery(slot[k][p])
           g == Head(chan[k][p]).gen
           m == Msg("ack", g, FALSE)
<1>1. p \in Procs /\ Arrived(k, p, "ready")
  BY Ends DEF RefuseReady, Receives
<1>2. chan[k][p] # <<>> /\ g \in Nat
  BY <1>1, ArrivedMessage
<1>3. s \in QpSlots /\ SameGens(slot[k][p], s)
  BY <1>1, Now, AbortRecoverySlot
<1>4. m \in Msgs
  BY <1>2, MessageType
<1>5. Reply(k, p, m) /\ UNCHANGED <<entry, pc, mon, spent>>
  BY DEF RefuseReady, Receives
<1>6. SetSlot(k, p, s) \/ slot' = slot
  BY DEF RefuseReady, Receives
<1> HIDE DEF s, g, m
<1>7. /\ slot' \in [Conns -> [Procs -> QpSlots]]
      /\ \A j \in Conns, q \in Procs :
            slot'[j][q] = slot[j][q] \/ (j = k /\ q = p /\ slot'[j][q] = s)
  <2>1. CASE SetSlot(k, p, s)
    <3>1. /\ slot' \in [Conns -> [Procs -> QpSlots]]
          /\ \A j \in Conns, q \in Procs :
                slot'[j][q] = IF j = k /\ q = p THEN s ELSE slot[j][q]
      BY <1>3, <2>1, SlotChange
    <3> QED BY <3>1
  <2>2. CASE slot' = slot
    BY <2>2 DEF Typed
  <2> QED BY <1>6, <2>1, <2>2
<1>8. chan' \in [Conns -> [Procs -> Seq(Msgs)]] /\ OnlyNew(k, Other(p), m)
  BY <1>1, <1>2, <1>4, <1>5, ReplyCarries
<1>9. Typed'
  BY <1>5, <1>7, <1>8 DEF Typed
<1>10. \E n \in Nat : OnlyNew(k, Other(p), Msg("ack", n, FALSE))
  BY <1>2, <1>8 DEF m
<1> QED BY <1>3, <1>5, <1>7, <1>9, <1>10, EntrySame

LEMMA RecvReadyTyped ==
    ASSUME Typed, NEW k \in Conns, RecvReady(k), NEW p \in Procs, Receives(p, k),
           NEW m, m = Head(chan[k][p])
    PROVE  /\ Typed' /\ Later /\ NothingNew /\ UNCHANGED <<entry, mon>>
           /\ m \in Carried(k, p) /\ m.kind = "ready"
           /\ entry[p].gen = m.gen
           /\ pc'[p].at = "mark" /\ pc'[p].conn = k /\ pc'[p].gen = m.gen
           /\ \A q \in Procs : q # p => pc'[q] = pc[q]
           /\ slot'[k][p].active.gen = m.gen
           /\ \A j \in Conns, q \in Procs : ~(j = k /\ q = p) => slot'[j][q] = slot[j][q]
<1> DEFINE s == Freed(CommitShadow(slot[k][p]))
           g == m.gen
<1>1. p \in Procs /\ Arrived(k, p, "ready")
  BY Ends DEF RecvReady, Receives
<1>2. /\ chan[k][p] # <<>> /\ g \in Nat
      /\ m \in Carried(k, p) /\ m.kind = "ready"
  BY <1>1, ArrivedMessage
<1>3. entry[p].gen = g /\ slot[k][p].shadow.gen = g
  BY DEF RecvReady, Receives, StaleReady
<1>4. s \in QpSlots /\ s.active.gen = g
  BY <1>1, <1>3, Now, CommitSlot
<1>5. SetSlot(k, p, s)
  BY DEF RecvReady, Receives
<1>6. Receive(k, p) /\ Goto(p, "mark", k, g) /\ UNCHANGED <<entry, mon, spent>>
  BY DEF RecvReady, Receives
<1> HIDE DEF s, g
<1>7. /\ slot' \in [Conns -> [Procs -> QpSlots]]
      /\ \A j \in Conns, q \in Procs :
            slot'[j][q] = IF j = k /\ q = p THEN s ELSE slot[j][q]
  BY <1>4, <1>5, SlotChange
<1>8. chan' \in [Conns -> [Procs -> Seq(Msgs)]] /\ NothingNew
  BY <1>1, <1>2, <1>6, ReceiveCarries
<1>9. /\ pc' \in [Procs -> Positions]
      /\ pc'[p].at = "mark" /\ pc'[p].conn = k /\ pc'[p].gen = g
      /\ \A q \in Procs : q # p => pc'[q] = pc[q]
  BY <1>1, <1>2, <1>6, GotoChange
<1>10. Typed'
  BY <1>6, <1>7, <1>8, <1>9 DEF Typed
<1> QED BY <1>1, <1>2, <1>3, <1>4, <1>6, <1>7, <1>8, <1>9, <1>10, EntrySame DEF g

LEMMA RecvAckTyped ==
    ASSUME Typed, NEW k \in Conns, RecvAck(k), NEW p \in Procs, Sends(p, k),
           NEW m, m = Head(chan[k][p])
    PROVE  /\ Typed' /\ Later /\ NothingNew /\ UNCHANGED <<entry, mon>>
           /\ m \in Carried(k, p) /\ m.kind = "ack" /\ m.ok /\ m.gen = pc[p].gen
           /\ pc[p].at = "ack" /\ pc[p].conn = k
           /\ \A q \in Procs : q # p => pc'[q] = pc[q]
           /\ \A j \in Conns, q \in Procs : ~(j = k /\ q = p) => slot'[j][q] = slot[j][q]
           /\ \/ /\ pc'[p].at = "loop"
                 /\ slot'[k][p].active.gen = slot[k][p].active.gen
              \/ /\ pc'[p].at = "mark" /\ pc'[p].conn = k /\ pc'[p].gen = pc[p].gen
                 /\ entry[p].gen = pc[p].gen
                 /\ slot'[k][p].active.gen = slot[k][p].shadow.gen
<1> DEFINE a == AbortRecovery(slot[k][p])
           c == Freed(CommitShadow(slot[k][p]))
           g == pc[p].gen
<1>1. p \in Procs /\ Arrived(k, p, "ack") /\ pc[p].at = "ack" /\ pc[p].conn = k
      /\ m.gen = g /\ m.ok = TRUE
  BY Ends DEF RecvAck, Sends, Answered
<1>2. chan[k][p] # <<>> /\ m \in Carried(k, p) /\ m.kind = "ack" /\ g \in Nat
  BY <1>1, ArrivedMessage, Now
<1>3. /\ a \in QpSlots /\ a.active.gen = slot[k][p].active.gen
      /\ c \in QpSlots /\ c.active.gen = slot[k][p].shadow.gen
  BY <1>1, Now, AbortRecoverySlot, CommitSlot DEF SameGens
<1>4. Receive(k, p) /\ UNCHANGED <<entry, mon, spent>>
  BY DEF RecvAck, Sends
<1>5. \/ SetSlot(k, p, c) /\ Goto(p, "mark", k, g) /\ entry[p].gen = g
      \/ SetSlot(k, p, a) /\ pc' = [pc EXCEPT ![p] = Looping]
  BY DEF RecvAck, Sends
<1> HIDE DEF a, c, g
<1>6. chan' \in [Conns -> [Procs -> Seq(Msgs)]] /\ NothingNew
  BY <1>1, <1>2, <1>4, ReceiveCarries
<1>7. CASE SetSlot(k, p, c) /\ Goto(p, "mark", k, g) /\ entry[p].gen = g
  <2>1. /\ slot' \in [Conns -> [Procs -> QpSlots]]
        /\ \A j \in Conns, q \in Procs :
              slot'[j][q] = IF j = k /\ q = p THEN c ELSE slot[j][q]
    BY <1>3, <1>7, SlotChange
  <2>2. /\ pc' \in [Procs -> Positions]
        /\ pc'[p].at = "mark" /\ pc'[p].conn = k /\ pc'[p].gen = g
        /\ \A q \in Procs : q # p => pc'[q] = pc[q]
    BY <1>1, <1>2, <1>7, GotoChange
  <2>3. Typed'
    BY <1>4, <1>6, <2>1, <2>2 DEF Typed
  <2> QED BY <1>1, <1>2, <1>3, <1>4, <1>6, <1>7, <2>1, <2>2, <2>3, EntrySame DEF g
<1>8. CASE SetSlot(k, p, a) /\ pc' = [pc EXCEPT ![p] = Looping]
  <2>1. /\ slot' \in [Conns -> [Procs -> QpSlots]]
        /\ \A j \in Conns, q \in Procs :
              slot'[j][q] = IF j = k /\ q = p THEN a ELSE slot[j][q]
    BY <1>3, <1>8, SlotChange
  <2>2. /\ pc' \in [Procs -> Positions] /\ pc'[p].at = "loop"
        /\ \A q \in Procs : q # p => pc'[q] = pc[q]
    BY <1>1, <1>8, LoopChange
  <2>3. Typed'
    BY <1>4, <1>6, <2>1, <2>2 DEF Typed
  <2> QED BY <1>1, <1>2, <1>3, <1>4, <1>6, <2>1, <2>2, <2>3, EntrySame DEF g
<1> QED BY <1>5, <1>7, <1>8

\* Process p has committed the handshake of connection k for generation g.
Marking(p, k, g) == pc[p].at = "mark" /\ pc[p].conn = k /\ pc[p].gen = g

LEMMA MarkHealthyTyped ==
    ASSUME Typed, NEW p \in Procs, NEW k \in Conns, NEW g \in Nat, Marking(p, k, g),
           MarkHealthy(p)
    PROVE  /\ Typed' /\ Later /\ UNCHANGED mon
           /\ entry' = [entry EXCEPT ![p] = MarkHealthyIfGeneration(entry[p], g)]
           /\ \/ NothingNew
              \/ /\ Receives(p, k)
                 /\ OnlyNew(k, Other(p), Msg("ack", g, HealthyIfGenerationOK(entry[p], g)))
           /\ pc'[p].at = "loop" /\ \A q \in Procs : q # p => pc'[q] = pc[q]
           /\ \A j \in Conns, q \in Procs :
                 slot'[j][q] = slot[j][q]
                 \/ (j = k /\ q = p /\ SameGens(slot[j][q], slot'[j][q]))
<1> DEFINE ok == HealthyIfGenerationOK(entry[p], g)
           f == MarkHealthyIfGeneration(entry[p], g)
           s == IF ok THEN slot[k][p] ELSE Quarantine(slot[k][p])
           m == Msg("ack", g, ok)
<1>1. f \in PlaneEntry /\ Agreement!EntryStep(entry[p], f)
  BY Now, EntrySteps
<1>2. s \in QpSlots /\ SameGens(slot[k][p], s)
  BY Now, SlotKeeps DEF SameGens
<1>3. ok \in BOOLEAN
  BY DEF HealthyIfGenerationOK
<1>4. m \in Msgs
  BY <1>3, MessageType
<1>5. SetSlot(k, p, s)
  BY DEF MarkHealthy, Marking
<1>6. entry' = [entry EXCEPT ![p] = f] /\ pc' = [pc EXCEPT ![p] = Looping]
      /\ UNCHANGED <<mon, spent>>
  BY DEF MarkHealthy, Marking
<1>7. chan' = chan \/ (Receives(p, k) /\ Send(k, p, m))
  BY DEF MarkHealthy, Marking, Receives
<1> HIDE DEF ok, f, s, m
<1>8. /\ slot' \in [Conns -> [Procs -> QpSlots]]
      /\ \A j \in Conns, q \in Procs :
            slot'[j][q] = IF j = k /\ q = p THEN s ELSE slot[j][q]
  BY <1>2, <1>5, SlotChange
<1>9. /\ chan' \in [Conns -> [Procs -> Seq(Msgs)]]
      /\ NothingNew \/ (Receives(p, k) /\ OnlyNew(k, Other(p), m))
  <2>1. CASE chan' = chan
    BY <2>1 DEF Typed, NothingNew, Carried
  <2>2. CASE Receives(p, k) /\ Send(k, p, m)
    BY <1>4, <2>2, SendCarries
  <2> QED BY <1>7, <2>1, <2>2
<1>10. /\ pc' \in [Procs -> Positions] /\ pc'[p].at = "loop"
       /\ \A q \in Procs : q # p => pc'[q] = pc[q]
  BY <1>6, LoopChange
<1>11. entry' \in [Procs -> PlaneEntry] /\ Later
  BY <1>1, <1>6, EntryChange
<1>12. Typed'
  BY <1>6, <1>8, <1>9, <1>10, <1>11 DEF Typed
<1> QED BY <1>2, <1>6, <1>8, <1>9, <1>10, <1>11, <1>12 DEF f, m, ok

-----------------------------------------------------------------------------
(* What is said of a process stays true.  Told: process p was or is at     *)
(* generation g, with a verdict that does not contradict what was said;    *)
(* Readmitted: it has taken the plane back at g, or has moved on since.    *)
Told(p, g, up) == Agreement!Reached(entry[p], g, IF up THEN "Recovering" ELSE "Broken")

Readmitted(p, g) == entry[p].gen > g \/ (entry[p].gen = g /\ entry[p].health = "Healthy")

\* A message m for process p speaks of the other process.
MsgKnown(p, m) ==
    /\ m.kind = "event" => Told(Other(p), m.gen, m.ok)
    /\ m.kind \in {"req", "ready"} => Told(Other(p), m.gen, TRUE)
    /\ m.kind = "ack" /\ m.ok => Readmitted(Other(p), m.gen)

PcKnown(p) ==
    /\ pc[p].at = "resp" => Told(p, pc[p].gen, TRUE)
    /\ pc[p].at = "mark" =>
          /\ Told(Other(p), pc[p].gen, TRUE)
          /\ Sends(p, pc[p].conn) => Readmitted(Other(p), pc[p].gen)

MonKnown(p) == Told(p, mon[p].gen, mon[p].up)

KnownInv ==
    /\ \A k \in Conns, p \in Procs : \A m \in Carried(k, p) : MsgKnown(p, m)
    /\ \A p \in Procs : PcKnown(p) /\ MonKnown(p)

LEMMA ToldStays ==
    ASSUME Typed, Typed', Later, NEW p \in Procs, NEW g \in Nat
    PROVE  /\ \A up : Told(p, g, up) => Told(p, g, up)'
           /\ Readmitted(p, g) => Readmitted(p, g)'
<1> DEFINE e == entry[p]
           f == entry'[p]
<1>1. e \in PlaneEntry /\ f \in PlaneEntry /\ Agreement!EntryStep(e, f)
  BY DEF Typed, Later
<1> HIDE DEF e, f
<1>2. \A h : Agreement!Reached(e, g, h) => Agreement!Reached(f, g, h)
  BY <1>1 DEF Agreement!EntryStep, Agreement!Reached, PlaneEntry
<1>3. \A up : Told(p, g, up) => Told(p, g, up)'
  BY <1>2 DEF Told, e, f
<1>4. Readmitted(p, g) => Readmitted(p, g)'
  BY <1>1 DEF Agreement!EntryStep, PlaneEntry, Readmitted, e, f
<1> QED BY <1>3, <1>4

LEMMA CarriedTyped ==
    ASSUME Typed, NEW k \in Conns, NEW p \in Procs, NEW m \in Carried(k, p)
    PROVE  m \in Msgs /\ m.gen \in Nat
<1>1. chan[k][p] \in Seq(Msgs)
  BY DEF Typed
<1>2. m \in Msgs
  BY <1>1 DEF Carried, Elements
<1> QED BY <1>2 DEF Msgs

\* It is enough to look at what a step adds.
LEMMA KnownStep ==
    ASSUME Typed, Typed', Later, KnownInv,
           \A k \in Conns, p \in Procs : \A m \in Carried(k, p)' :
              m \in Carried(k, p) \/ MsgKnown(p, m)',
           \A p \in Procs : pc'[p] = pc[p] \/ PcKnown(p)',
           \A p \in Procs : \/ mon'[p].gen = mon[p].gen /\ mon'[p].up = mon[p].up
                            \/ MonKnown(p)'
    PROVE  KnownInv'
<1>1. ASSUME NEW k \in Conns, NEW p \in Procs, NEW m \in Carried(k, p)' PROVE MsgKnown(p, m)'
  <2>1. CASE m \in Carried(k, p)
    <3>1. m.gen \in Nat /\ MsgKnown(p, m)
      BY <2>1, CarriedTyped DEF KnownInv
    <3>2. Other(p) \in Procs
      BY Ends
    <3>3. /\ \A up : Told(Other(p), m.gen, up) => Told(Other(p), m.gen, up)'
          /\ Readmitted(Other(p), m.gen) => Readmitted(Other(p), m.gen)'
      BY <3>1, <3>2, ToldStays
    <3> QED BY <3>1, <3>3 DEF MsgKnown
  <2> QED BY <2>1
<1>2. ASSUME NEW p \in Procs PROVE PcKnown(p)'
  <2>1. CASE pc'[p] = pc[p]
    <3>1. Other(p) \in Procs /\ PcKnown(p)
      BY Ends DEF KnownInv
    <3>2. PICK g \in Nat : g = pc[p].gen
      BY Now
    <3>3. /\ Told(p, g, TRUE) => Told(p, g, TRUE)'
          /\ Told(Other(p), g, TRUE) => Told(Other(p), g, TRUE)'
          /\ Readmitted(Other(p), g) => Readmitted(Other(p), g)'
      BY <3>1, ToldStays
    <3>4. /\ pc[p].at = "resp" => Told(p, g, TRUE)
          /\ pc[p].at = "mark" =>
                /\ Told(Other(p), g, TRUE)
                /\ Sends(p, pc[p].conn) => Readmitted(Other(p), g)
      BY <3>1, <3>2 DEF PcKnown
    <3>5. /\ pc'[p].at = "resp" => Told(p, g, TRUE)'
          /\ pc'[p].at = "mark" =>
                /\ Told(Other(p), g, TRUE)'
                /\ Sends(p, pc'[p].conn) => Readmitted(Other(p), g)'
      BY <2>1, <3>3, <3>4
    <3>6. pc'[p].gen = g
      BY <2>1, <3>2
    <3>7. /\ Told(p, pc[p].gen, TRUE)' <=> Told(p, g, TRUE)'
          /\ Told(Other(p), pc[p].gen, TRUE)' <=> Told(Other(p), g, TRUE)'
          /\ Readmitted(Other(p), pc[p].gen)' <=> Readmitted(Other(p), g)'
      BY <3>6 DEF Told, Readmitted
    <3> QED BY <3>5, <3>7 DEF PcKnown, Sends
  <2> QED BY <2>1
<1>3. ASSUME NEW p \in Procs PROVE MonKnown(p)'
  <2>1. CASE mon'[p].gen = mon[p].gen /\ mon'[p].up = mon[p].up
    <3>1. PICK g \in Nat, up \in BOOLEAN : g = mon[p].gen /\ up = mon[p].up
      BY Now
    <3>2. Told(p, g, up)
      BY <3>1 DEF KnownInv, MonKnown
    <3>3. Told(p, g, up)'
      BY <3>2, ToldStays
    <3>4. mon'[p].gen = g /\ mon'[p].up = up
      BY <2>1, <3>1
    <3> QED BY <3>3, <3>4 DEF MonKnown, Told
  <2> QED BY <2>1
<1> QED BY <1>1, <1>2, <1>3 DEF KnownInv

LEMMA ChanSame == UNCHANGED chan => NothingNew
BY DEF NothingNew, Carried

\* A step without a new message, and one with the message m for process d.
LEMMA KnownQuiet ==
    ASSUME Typed, Typed', Later, KnownInv, NothingNew,
           \A p \in Procs : pc'[p] = pc[p] \/ PcKnown(p)',
           \A p \in Procs : \/ mon'[p].gen = mon[p].gen /\ mon'[p].up = mon[p].up
                            \/ MonKnown(p)'
    PROVE  KnownInv'
<1>1. \A k \in Conns, p \in Procs : \A m \in Carried(k, p)' :
         m \in Carried(k, p) \/ MsgKnown(p, m)'
  BY DEF NothingNew
<1> QED BY <1>1, KnownStep

LEMMA KnownSend ==
    ASSUME Typed, Typed', Later, KnownInv, NEW k, NEW d, NEW m, OnlyNew(k, d, m),
           MsgKnown(d, m)', UNCHANGED mon,
           \A p \in Procs : pc'[p] = pc[p] \/ PcKnown(p)'
    PROVE  KnownInv'
<1>1. ASSUME NEW j \in Conns, NEW p \in Procs, NEW n \in Carried(j, p)'
      PROVE  n \in Carried(j, p) \/ MsgKnown(p, n)'
  <2>1. n \in Carried(j, p) \/ (p = d /\ n = m)
    BY DEF OnlyNew
  <2> QED BY <2>1
<1> QED BY <1>1, KnownStep

LEMMA ReportKnown ==
    ASSUME Typed, KnownInv, NEW p \in Procs, NEW up \in BOOLEAN, Report(p, up)
    PROVE  KnownInv'
<1>1. /\ Typed' /\ Later
      /\ \A q \in Procs :
            mon'[q] = IF q = p THEN [todo |-> Conns, telling |-> NoConn,
                                     gen |-> entry'[p].gen, up |-> up]
                      ELSE mon[q]
  BY ReportTyped
<1>2. NothingNew /\ pc' = pc
  BY ChanSame DEF Report
<1>3. entry'[p] = Mark(entry[p], up)
  BY DEF Report, Typed
<1>4. entry'[p].gen \in Nat /\ (entry'[p].health = IF up THEN "Recovering" ELSE "Broken")
  BY <1>1, <1>3, Now DEF Mark, MarkBroken, MarkRecovering, MarkAs, Typed, PlaneEntry
<1>5. mon'[p].gen = entry'[p].gen /\ mon'[p].up = up
  BY <1>1
<1>6. MonKnown(p)'
  BY <1>4, <1>5 DEF MonKnown, Told, Agreement!Reached
<1> QED BY <1>1, <1>2, <1>6, KnownQuiet

LEMMA OnReportKnown ==
    ASSUME Typed, KnownInv, NEW p \in Procs, NEW k \in Conns, OnReport(p, k)
    PROVE  KnownInv'
<1>1. NothingNew /\ pc' = pc
  BY ChanSame DEF OnReport
<1> QED BY <1>1, OnReportTyped, KnownQuiet

LEMMA TellPeerKnown ==
    ASSUME Typed, KnownInv, NEW p \in Procs, NEW k \in Conns, TellPeer(p, k)
    PROVE  KnownInv'
<1>1. PICK g \in Nat, up \in BOOLEAN : g = mon[p].gen /\ up = mon[p].up
  BY Now
<1>2. /\ Typed' /\ Later
      /\ \A q \in Procs : mon'[q].gen = mon[q].gen /\ mon'[q].up = mon[q].up
      /\ OnlyNew(k, Other(p), Msg("event", g, up))
  BY <1>1, TellPeerTyped
<1>3. pc' = pc
  BY DEF TellPeer
<1>4. Told(p, g, up)'
  <2>1. Told(p, g, up)
    BY <1>1 DEF KnownInv, MonKnown
  <2> QED BY <1>2, <2>1, ToldStays
<1>5. ASSUME NEW j \in Conns, NEW q \in Procs, NEW n \in Carried(j, q)'
      PROVE  n \in Carried(j, q) \/ MsgKnown(q, n)'
  <2>1. n \in Carried(j, q) \/ (q = Other(p) /\ n = Msg("event", g, up))
    BY <1>2 DEF OnlyNew
  <2>2. Other(Other(p)) = p
    BY Ends
  <2>3. MsgKnown(Other(p), Msg("event", g, up))'
    <3>1. PICK m : m = Msg("event", g, up)
      OBVIOUS
    <3>2. m.kind = "event" /\ m.gen = g /\ m.ok = up
      BY <3>1, MessageType
    <3>3. MsgKnown(Other(p), m)'
      BY <1>4, <2>2, <3>2 DEF MsgKnown
    <3> QED BY <3>1, <3>3
  <2> QED BY <2>1, <2>3
<1> QED BY <1>2, <1>3, <1>5, KnownStep

LEMMA CqErrorKnown ==
    ASSUME Typed, KnownInv, NEW p \in Procs, NEW k \in Conns, CqError(p, k)
    PROVE  KnownInv'
<1>1. MarkBroken(entry[p]).gen \in Nat /\ MarkBroken(entry[p]).health = "Broken"
  BY Now DEF MarkBroken, MarkAs, PlaneEntry
<1>2. PICK g \in Nat : g = MarkBroken(entry[p]).gen
  BY <1>1
<1>3. /\ Typed' /\ Later
      /\ entry'[p] = MarkBroken(entry[p])
      /\ OnlyNew(k, Other(p), Msg("event", g, FALSE))
  BY <1>2, CqErrorTyped
<1>4. pc' = pc /\ mon' = mon
  BY DEF CqError
<1>5. Told(p, g, FALSE)'
  BY <1>1, <1>2, <1>3 DEF Told, Agreement!Reached
<1>6. MsgKnown(Other(p), Msg("event", g, FALSE))'
  <2>1. Other(Other(p)) = p
    BY Ends
  <2>2. PICK m : m = Msg("event", g, FALSE)
    OBVIOUS
  <2>3. m.kind = "event" /\ m.gen = g /\ m.ok = FALSE
    BY <2>2 DEF Msg
  <2>4. MsgKnown(Other(p), m)'
    BY <1>5, <2>1, <2>3 DEF MsgKnown
  <2> QED BY <2>2, <2>4
<1> QED BY <1>3, <1>4, <1>6, KnownSend

LEMMA RecvEventKnown ==
    ASSUME Typed, KnownInv, NEW p \in Procs, NEW k \in Conns, RecvEvent(p, k)
    PROVE  KnownInv'
<1>1. Typed' /\ Later /\ NothingNew
  BY RecvEventTyped
<1>2. pc' = pc /\ mon' = mon
  BY DEF RecvEvent
<1> QED BY <1>1, <1>2, KnownQuiet

LEMMA RecoverStartKnown ==
    ASSUME Typed, KnownInv, NEW k \in Conns, RecoverStart(k)
    PROVE  KnownInv'
<1>1. PICK p \in Procs : Sends(p, k)
  BY Ends DEF Sends
<1>2. PICK g \in Nat : g = entry[p].gen
  BY Now
<1>3. /\ Typed' /\ Later /\ UNCHANGED <<entry, mon>>
      /\ OnlyNew(k, Other(p), Msg("req", g, TRUE))
      /\ pc'[p].at = "resp" /\ pc'[p].conn = k /\ pc'[p].gen = g
      /\ \A q \in Procs : q # p => pc'[q] = pc[q]
  BY <1>1, <1>2, RecoverStartTyped
<1>4. entry[p].health # "Broken"
  BY <1>1 DEF RecoverStart, NeedsRecovery, AllowsQpRecovery, Sends
<1>5. Told(p, g, TRUE)'
  BY <1>2, <1>3, <1>4 DEF Told, Agreement!Reached
<1>6. MsgKnown(Other(p), Msg("req", g, TRUE))'
  <2>1. Other(Other(p)) = p
    BY Ends
  <2>2. PICK m : m = Msg("req", g, TRUE)
    OBVIOUS
  <2>3. m.kind = "req" /\ m.gen = g
    BY <2>2 DEF Msg
  <2>4. MsgKnown(Other(p), m)'
    BY <1>5, <2>1, <2>3 DEF MsgKnown
  <2> QED BY <2>2, <2>4
<1>7. PcKnown(p)'
  BY <1>3, <1>5 DEF PcKnown, Told
<1> QED BY <1>3, <1>6, <1>7, KnownSend

LEMMA RecvReqKnown ==
    ASSUME Typed, KnownInv, NEW k \in Conns, NEW portReady \in BOOLEAN, RecvReq(k, portReady)
    PROVE  KnownInv'
<1>1. PICK p \in Procs : Receives(p, k)
  BY Ends DEF Receives
<1>2. PICK m : m = Head(chan[k][p])
  OBVIOUS
<1>3. /\ Typed' /\ Later /\ UNCHANGED <<pc, mon>>
      /\ \E ok \in BOOLEAN : OnlyNew(k, Other(p), Msg("resp", m.gen, ok))
  BY <1>1, <1>2, RecvReqTyped
<1>4. m.gen \in Nat
  BY <1>1, <1>2, ArrivedMessage DEF RecvReq, Receives
<1>5. PICK ok \in BOOLEAN : OnlyNew(k, Other(p), Msg("resp", m.gen, ok))
  BY <1>3
<1>6. MsgKnown(Other(p), Msg("resp", m.gen, ok))'
  <2>1. PICK n : n = Msg("resp", m.gen, ok)
    OBVIOUS
  <2>2. n.kind = "resp"
    BY <1>4, <2>1, MessageType
  <2>3. MsgKnown(Other(p), n)'
    BY <2>2 DEF MsgKnown
  <2> QED BY <2>1, <2>3
<1> QED BY <1>3, <1>5, <1>6, KnownSend

LEMMA GiveUpKnown ==
    ASSUME Typed, KnownInv, NEW k \in Conns, GiveUp(k)
    PROVE  KnownInv'
<1>1. PICK p \in Procs : Sends(p, k)
  BY Ends DEF Sends
<1>2. /\ Typed' /\ Later /\ NothingNew /\ UNCHANGED <<entry, mon>>
      /\ pc'[p].at = "loop" /\ \A q \in Procs : q # p => pc'[q] = pc[q]
  BY <1>1, GiveUpTyped
<1>3. PcKnown(p)'
  BY <1>2 DEF PcKnown
<1> QED BY <1>2, <1>3, KnownQuiet

LEMMA RecvRespKnown ==
    ASSUME Typed, KnownInv, NEW k \in Conns, RecvResp(k)
    PROVE  KnownInv'
<1>1. PICK p \in Procs : Sends(p, k)
  BY Ends DEF Sends
<1>2. PICK g \in Nat : g = pc[p].gen
  BY Now
<1>3. pc[p].at = "resp"
  BY <1>1 DEF RecvResp, Answered, Sends
<1>4. /\ Typed' /\ Later /\ UNCHANGED <<entry, mon>>
      /\ \A q \in Procs : q # p => pc'[q] = pc[q]
      /\ pc'[p].at = "ack"
  BY <1>1, RecvRespTyped
<1>5. OnlyNew(k, Other(p), Msg("ready", g, TRUE))
  <2>1. OnlyNew(k, Other(p), Msg("ready", pc[p].gen, TRUE))
    BY <1>1, RecvRespTyped
  <2> QED BY <1>2, <2>1, Zenon
<1>6. Told(p, g, TRUE)'
  <2>1. Told(p, g, TRUE)
    BY <1>2, <1>3 DEF KnownInv, PcKnown
  <2> QED BY <1>4, <2>1, ToldStays
<1>7. MsgKnown(Other(p), Msg("ready", g, TRUE))'
  <2>1. Other(Other(p)) = p
    BY Ends
  <2>2. PICK m : m = Msg("ready", g, TRUE)
    OBVIOUS
  <2>3. m.kind = "ready" /\ m.gen = g
    BY <2>2 DEF Msg
  <2>4. MsgKnown(Other(p), m)'
    BY <1>6, <2>1, <2>3 DEF MsgKnown
  <2> QED BY <2>2, <2>4
<1>8. PcKnown(p)'
  BY <1>4 DEF PcKnown
<1> QED BY <1>7, <1>8, <1>5, <1>4, KnownSend

LEMMA RefuseReadyKnown ==
    ASSUME Typed, KnownInv, NEW k \in Conns, RefuseReady(k)
    PROVE  KnownInv'
<1>1. PICK p \in Procs : Receives(p, k)
  BY Ends DEF Receives
<1>2. /\ Typed' /\ Later /\ UNCHANGED <<entry, pc, mon>>
      /\ \E g \in Nat : OnlyNew(k, Other(p), Msg("ack", g, FALSE))
  BY <1>1, RefuseReadyTyped
<1>3. PICK g \in Nat : OnlyNew(k, Other(p), Msg("ack", g, FALSE))
  BY <1>2
<1>4. MsgKnown(Other(p), Msg("ack", g, FALSE))'
  <2>1. PICK m : m = Msg("ack", g, FALSE)
    OBVIOUS
  <2>2. m.kind = "ack" /\ ~m.ok
    BY <2>1 DEF Msg
  <2>3. MsgKnown(Other(p), m)'
    BY <2>2 DEF MsgKnown
  <2> QED BY <2>1, <2>3
<1> QED BY <1>2, <1>3, <1>4, KnownSend

LEMMA RecvReadyKnown ==
    ASSUME Typed, KnownInv, NEW k \in Conns, RecvReady(k)
    PROVE  KnownInv'
<1>1. PICK p \in Procs : Receives(p, k)
  BY Ends DEF Receives
<1>2. PICK m : m = Head(chan[k][p])
  OBVIOUS
<1>3. /\ Typed' /\ Later /\ NothingNew /\ UNCHANGED <<entry, mon>>
      /\ m \in Carried(k, p) /\ m.kind = "ready"
      /\ pc'[p].at = "mark" /\ pc'[p].conn = k /\ pc'[p].gen = m.gen
      /\ \A q \in Procs : q # p => pc'[q] = pc[q]
  BY <1>1, <1>2, RecvReadyTyped
<1>4. m.gen \in Nat /\ Told(Other(p), m.gen, TRUE) /\ Other(p) \in Procs
  BY <1>3, CarriedTyped, Ends DEF KnownInv, MsgKnown
<1>5. Told(Other(p), m.gen, TRUE)'
  BY <1>3, <1>4, ToldStays
<1>6. ~Sends(p, k)
  BY <1>1, Ends DEF Sends, Receives
<1>7. PcKnown(p)'
  BY <1>3, <1>5, <1>6 DEF PcKnown, Told, Sends
<1> QED BY <1>3, <1>7, KnownQuiet

LEMMA RecvAckKnown ==
    ASSUME Typed, KnownInv, NEW k \in Conns, RecvAck(k)
    PROVE  KnownInv'
<1>1. PICK p \in Procs : Sends(p, k)
  BY Ends DEF Sends
<1>2. PICK m : m = Head(chan[k][p])
  OBVIOUS
<1>3. /\ Typed' /\ Later /\ NothingNew /\ UNCHANGED <<entry, mon>>
      /\ m \in Carried(k, p) /\ m.kind = "ack" /\ m.ok /\ m.gen = pc[p].gen
      /\ \A q \in Procs : q # p => pc'[q] = pc[q]
      /\ pc'[p].at = "loop" \/ (pc'[p].at = "mark" /\ pc'[p].gen = pc[p].gen)
  BY <1>1, <1>2, RecvAckTyped
<1>4. m.gen \in Nat /\ Readmitted(Other(p), m.gen) /\ Other(p) \in Procs
  BY <1>3, CarriedTyped, Ends DEF KnownInv, MsgKnown
<1>5. Readmitted(Other(p), m.gen)'
  BY <1>3, <1>4, ToldStays
<1>6. Told(Other(p), m.gen, TRUE)'
  BY <1>5 DEF Readmitted, Told, Agreement!Reached
<1>7. PcKnown(p)'
  BY <1>3, <1>5, <1>6 DEF PcKnown, Told, Readmitted
<1> QED BY <1>3, <1>7, KnownQuiet

LEMMA MarkHealthyKnown ==
    ASSUME Typed, KnownInv, NEW p \in Procs, MarkHealthy(p)
    PROVE  KnownInv'
<1>1. PICK k \in Conns, g \in Nat : Marking(p, k, g)
  BY DEF MarkHealthy, Marking, Typed, Positions
<1>2. PICK ok \in BOOLEAN : ok = HealthyIfGenerationOK(entry[p], g)
  BY DEF HealthyIfGenerationOK
<1>3. /\ Typed' /\ Later /\ UNCHANGED mon
      /\ entry' = [entry EXCEPT ![p] = MarkHealthyIfGeneration(entry[p], g)]
      /\ pc'[p].at = "loop" /\ \A q \in Procs : q # p => pc'[q] = pc[q]
  BY <1>1, MarkHealthyTyped
<1>4. NothingNew \/ OnlyNew(k, Other(p), Msg("ack", g, ok))
  BY <1>1, <1>2, MarkHealthyTyped
<1>5. PcKnown(p)'
  BY <1>3 DEF PcKnown
<1>6. CASE NothingNew
  BY <1>3, <1>5, <1>6, KnownQuiet
<1>7. CASE OnlyNew(k, Other(p), Msg("ack", g, ok))
  <2>1. ok => Readmitted(p, g)'
    <3>1. entry[p] \in PlaneEntry /\ entry'[p] = MarkHealthyIfGeneration(entry[p], g)
      BY <1>3 DEF Typed
    <3> QED BY <1>2, <3>1 DEF MarkHealthyIfGeneration, HealthyIfGenerationOK, Readmitted,
                              PlaneEntry
  <2>2. PICK m : m = Msg("ack", g, ok)
    OBVIOUS
  <2>3. m.kind = "ack" /\ m.gen = g /\ m.ok = ok
    BY <2>2 DEF Msg
  <2>4. Other(Other(p)) = p
    BY Ends
  <2>5. MsgKnown(Other(p), m)'
    BY <2>1, <2>3, <2>4 DEF MsgKnown
  <2> QED BY <1>3, <1>5, <1>7, <2>2, <2>5, KnownSend
<1> QED BY <1>4, <1>6, <1>7

-----------------------------------------------------------------------------
LEMMA Start == Init => Typed /\ KnownInv
<1> SUFFICES ASSUME Init PROVE Typed /\ KnownInv
  OBVIOUS
<1>1. FirstSlot \in QpSlots
  BY DEF FirstSlot, QpSlots, Slots, SlotStates, Endpoints, NoEndpoint, FreshProbe, Probes
<1>2. <<>> \in Seq(Msgs) /\ Elements(<<>>) = {}
  BY DEF Elements
<1>3. InitialEntry \in PlaneEntry /\ InitialEntry.gen = 1
  BY DEF InitialEntry, PlaneEntry, PlaneHealth
<1>4. Looping \in Positions /\ Looping.at = "loop"
  BY DEF Looping, Positions
<1>5. /\ Silent \in [todo : SUBSET Conns, telling : Conns \cup {NoConn}, gen : Nat, up : BOOLEAN]
      /\ Silent.gen = 0
  BY DEF Silent
<1>6. spent \in [reports : 0 .. MaxReports, failures : 0 .. MaxFailures]
  BY SharedAssumption DEF Init
<1>7. Typed
  BY <1>1, <1>2, <1>3, <1>4, <1>5, <1>6 DEF Init, Typed
<1>8. \A k \in Conns, p \in Procs : Carried(k, p) = {}
  BY <1>2 DEF Init, Carried
<1>9. \A p \in Procs : entry[p].gen = 1 /\ pc[p].at = "loop" /\ mon[p].gen = 0
  BY <1>3, <1>4, <1>5 DEF Init
<1>10. \A p \in Procs : PcKnown(p) /\ MonKnown(p)
  BY <1>9 DEF PcKnown, MonKnown, Told, Agreement!Reached
<1> QED BY <1>7, <1>8, <1>10 DEF KnownInv

\* The steps a thread makes on a message.
LEMMA HandleStep ==
    ASSUME Typed, NEW p \in Procs, NEW k \in Conns, Handle(p, k)
    PROVE  Typed' /\ Later /\ (KnownInv => KnownInv')
<1>1. PICK m : m = Head(chan[k][p])
  OBVIOUS
<1>2. CASE RecvEvent(p, k)
  BY <1>2, RecvEventTyped, RecvEventKnown
<1>3. CASE p = SenderOf[k] /\ (GiveUp(k) \/ RecvResp(k) \/ RecvAck(k))
  <2>1. Sends(p, k)
    BY <1>3 DEF Sends
  <2>2. CASE GiveUp(k)
    BY <2>1, <2>2, GiveUpTyped, GiveUpKnown
  <2>3. CASE RecvResp(k)
    BY <2>1, <2>3, RecvRespTyped, RecvRespKnown
  <2>4. CASE RecvAck(k)
    BY <2>1, <2>4, <1>1, RecvAckTyped, RecvAckKnown
  <2> QED BY <1>3, <2>2, <2>3, <2>4
<1>4. CASE p = Receiver(k) /\ ((\E ready \in BOOLEAN : RecvReq(k, ready))
                               \/ RefuseReady(k) \/ RecvReady(k))
  <2>1. Receives(p, k)
    BY <1>4 DEF Receives
  <2>2. ASSUME NEW ready \in BOOLEAN, RecvReq(k, ready)
        PROVE  Typed' /\ Later /\ (KnownInv => KnownInv')
    BY <2>1, <2>2, <1>1, RecvReqTyped, RecvReqKnown
  <2>3. CASE RefuseReady(k)
    BY <2>1, <2>3, RefuseReadyTyped, RefuseReadyKnown
  <2>4. CASE RecvReady(k)
    BY <2>1, <2>4, <1>1, RecvReadyTyped, RecvReadyKnown
  <2> QED BY <1>4, <2>2, <2>3, <2>4
<1> QED BY <1>2, <1>3, <1>4 DEF Handle

LEMMA KnownNext ==
    ASSUME Typed, [Next]_vars
    PROVE  Typed' /\ Later /\ (KnownInv => KnownInv')
<1> DEFINE Goal == Typed' /\ Later /\ (KnownInv => KnownInv')
<1>1. ASSUME NEW p \in Procs, NEW k \in Conns, Handle(p, k) PROVE Goal
  BY <1>1, HandleStep
<1>2. ASSUME NEW p \in Procs, NEW k \in Conns, OnReport(p, k) PROVE Goal
  BY <1>2, OnReportTyped, OnReportKnown
<1>3. ASSUME NEW p \in Procs, NEW k \in Conns, TellPeer(p, k) PROVE Goal
  BY <1>3, TellPeerTyped, TellPeerKnown
<1>4. ASSUME NEW p \in Procs, NEW k \in Conns, CqError(p, k) PROVE Goal
  BY <1>4, CqErrorTyped, CqErrorKnown
<1>5. ASSUME NEW k \in Conns, RecoverStart(k) PROVE Goal
  <2>1. PICK p \in Procs : Sends(p, k)
    BY Ends DEF Sends
  <2> QED BY <1>5, <2>1, RecoverStartTyped, RecoverStartKnown
<1>6. ASSUME NEW p \in Procs, MarkHealthy(p) PROVE Goal
  <2>1. PICK k \in Conns, g \in Nat : Marking(p, k, g)
    BY <1>6 DEF MarkHealthy, Marking, Typed, Positions
  <2> QED BY <1>6, <2>1, MarkHealthyTyped, MarkHealthyKnown
<1>7. ASSUME NEW p \in Procs, NEW up \in BOOLEAN, Report(p, up) PROVE Goal
  BY <1>7, ReportTyped, ReportKnown
<1>8. CASE UNCHANGED vars
  BY <1>8 DEF vars, Typed, Later, KnownInv, MsgKnown, PcKnown, MonKnown, Carried, Told,
              Readmitted, Agreement!EntryStep, Sends
<1> HIDE DEF Goal
<1> QED BY <1>1, <1>2, <1>3, <1>4, <1>5, <1>6, <1>7, <1>8 DEF Next, Goal

LEMMA KnownAlways == Spec => [](Typed /\ KnownInv)
<1>1. Typed /\ KnownInv /\ [Next]_vars => (Typed /\ KnownInv)'
  BY KnownNext
<1> QED BY <1>1, Start, PTL DEF Spec

(* The two tables, the slots, threads, monitors and messages of every      *)
(* connection stay what the code can make of them.                         *)
THEOREM TypeSafe == Spec => []TypeOK
<1>1. Typed => TypeOK
  <2> SUFFICES ASSUME Typed PROVE TypeOK
    OBVIOUS
  <2>1. \A k \in Conns, p \in Procs : \A i \in DOMAIN chan[k][p] : chan[k][p][i] \in Msgs
    BY DEF Typed
  <2>2. spent.reports \in 0 .. MaxReports /\ spent.failures \in 0 .. MaxFailures
    BY DEF Typed
  <2>3. pc \in [Procs -> [at : {"loop", "resp", "ack", "commit", "mark"},
                          conn : Conns \cup {NoConn}, gen : Nat]]
    BY DEF Typed, Positions
  <2> QED BY <2>1, <2>2, <2>3 DEF Typed, TypeOK, QpSlots
<1> QED BY <1>1, KnownAlways, PTL

-----------------------------------------------------------------------------
(* The generations of the queue pairs of a connection.                     *)
OldSlots == \A k \in Conns, p \in Procs : slot[k][p].active.gen <= entry[p].gen

\* A sender that waits for an answer has the shadow it asked the peer for.
Building ==
    \A k \in Conns, p \in Procs :
        Sends(p, k) /\ pc[p].conn = k /\ pc[p].at \in {"resp", "ack"}
            => slot[k][p].shadow.gen = pc[p].gen

\* What a receiver acknowledges, or is about to, it has committed.
Acked ==
    \A k \in Conns, p \in Procs :
        Receives(p, k) =>
            /\ \A m \in Carried(k, Other(p)) :
                  m.kind = "ack" /\ m.ok => m.gen <= slot[k][p].active.gen
            /\ pc[p].conn = k /\ pc[p].at = "mark" => pc[p].gen <= slot[k][p].active.gen

Behind ==
    \A k \in Conns, p \in Procs :
        Receives(p, k) => slot[k][Other(p)].active.gen <= slot[k][p].active.gen

OrderInv == OldSlots /\ Building /\ Acked /\ Behind

\* An acknowledgement a step adds is of a generation the receiver has.
AcksBounded ==
    \A j \in Conns, q \in Procs :
        Receives(q, j) =>
            \A m \in Carried(j, Other(q))' :
                m.kind = "ack" /\ m.ok
                    => m \in Carried(j, Other(q)) \/ m.gen <= slot[j][q].active.gen

LEMMA NoAcks ==
    /\ NothingNew => AcksBounded
    /\ \A k, d, m : OnlyNew(k, d, m) /\ ~(m.kind = "ack" /\ m.ok) => AcksBounded
<1>1. \A q \in Procs : Other(q) \in Procs
  BY Ends
<1>2. NothingNew => AcksBounded
  BY <1>1 DEF NothingNew, AcksBounded
<1>3. ASSUME NEW k, NEW d, NEW m, OnlyNew(k, d, m), ~(m.kind = "ack" /\ m.ok)
      PROVE  AcksBounded
  <2> SUFFICES ASSUME NEW j \in Conns, NEW q \in Procs, NEW n \in Carried(j, Other(q))',
                      n.kind = "ack", n.ok
               PROVE  n \in Carried(j, Other(q))
    BY DEF AcksBounded
  <2>1. n \in Carried(j, Other(q)) \/ n = m
    BY <1>1, <1>3 DEF OnlyNew
  <2> QED BY <1>3, <2>1
<1> QED BY <1>2, <1>3

LEMMA SlotGens ==
    ASSUME Typed, NEW k \in Conns, NEW p \in Procs
    PROVE  slot[k][p].active.gen \in Nat /\ slot[k][p].shadow.gen \in Nat
<1>1. slot[k][p] \in QpSlots
  BY Now
<1> QED BY <1>1 DEF QpSlots, Slots, Endpoints

\* As long as no active queue pair changes, messages and marks are all there
\* is to look at.
LEMMA OrderStep ==
    ASSUME Typed, Typed', Later, OrderInv, AcksBounded, Building',
           \A j \in Conns, q \in Procs : slot'[j][q].active.gen = slot[j][q].active.gen,
           \A q \in Procs : pc'[q] = pc[q] \/ pc'[q].at # "mark"
    PROVE  OrderInv'
<1>1. OldSlots'
  <2> SUFFICES ASSUME NEW k \in Conns, NEW p \in Procs
               PROVE  slot'[k][p].active.gen <= entry'[p].gen
    BY DEF OldSlots
  <2>1. slot[k][p].active.gen <= entry[p].gen /\ slot[k][p].active.gen \in Nat
    BY SlotGens DEF OrderInv, OldSlots
  <2>2. entry[p].gen <= entry'[p].gen /\ entry[p].gen \in Nat /\ entry'[p].gen \in Nat
    <3>1. entry[p] \in PlaneEntry /\ entry'[p] \in PlaneEntry
      BY DEF Typed
    <3>2. Agreement!EntryStep(entry[p], entry'[p])
      BY DEF Later
    <3> QED BY <3>1, <3>2 DEF Agreement!EntryStep, PlaneEntry
  <2> QED BY <2>1, <2>2
<1>2. Acked'
  <2> SUFFICES ASSUME NEW k \in Conns, NEW p \in Procs, Receives(p, k)
               PROVE  /\ \A m \in Carried(k, Other(p))' :
                            m.kind = "ack" /\ m.ok => m.gen <= slot'[k][p].active.gen
                      /\ pc'[p].conn = k /\ pc'[p].at = "mark"
                            => pc'[p].gen <= slot'[k][p].active.gen
    BY DEF Acked, Receives
  <2>1. ASSUME NEW m \in Carried(k, Other(p))', m.kind = "ack", m.ok
        PROVE  m.gen <= slot[k][p].active.gen
    <3>1. m \in Carried(k, Other(p)) \/ m.gen <= slot[k][p].active.gen
      BY <2>1 DEF AcksBounded
    <3> QED BY <2>1, <3>1 DEF OrderInv, Acked
  <2>2. pc'[p].conn = k /\ pc'[p].at = "mark" => pc'[p].gen <= slot[k][p].active.gen
    BY DEF OrderInv, Acked
  <2> QED BY <2>1, <2>2
<1>3. Behind'
  <2> SUFFICES ASSUME NEW k \in Conns, NEW p \in Procs, Receives(p, k)
               PROVE  slot'[k][Other(p)].active.gen <= slot'[k][p].active.gen
    BY DEF Behind, Receives
  <2>1. Other(p) \in Procs /\ slot[k][Other(p)].active.gen <= slot[k][p].active.gen
    BY Ends DEF OrderInv, Behind
  <2> QED BY <2>1
<1> QED BY <1>1, <1>2, <1>3 DEF OrderInv

\* Most steps leave the generations of all slots alone and let a thread at most
\* come back to its loop, or from one wait to the next.
LEMMA QuietOrder ==
    ASSUME Typed, Typed', Later, OrderInv, AcksBounded,
           \A j \in Conns, q \in Procs :
              slot'[j][q] = slot[j][q] \/ SameGens(slot[j][q], slot'[j][q]),
           \A q \in Procs :
              \/ pc'[q] = pc[q] \/ pc'[q].at = "loop"
              \/ /\ pc[q].at = "resp" /\ pc'[q].at = "ack"
                 /\ pc'[q].conn = pc[q].conn /\ pc'[q].gen = pc[q].gen
    PROVE  OrderInv'
<1>1. \A j \in Conns, q \in Procs : /\ slot'[j][q].active.gen = slot[j][q].active.gen
                                    /\ slot'[j][q].shadow.gen = slot[j][q].shadow.gen
  BY DEF SameGens
<1>2. Building'
  <2> SUFFICES ASSUME NEW k \in Conns, NEW p \in Procs, Sends(p, k), pc'[p].conn = k,
                      pc'[p].at \in {"resp", "ack"}
               PROVE  slot'[k][p].shadow.gen = pc'[p].gen
    BY DEF Building, Sends
  <2>1. pc[p].conn = k /\ pc[p].at \in {"resp", "ack"} /\ pc'[p].gen = pc[p].gen
    OBVIOUS
  <2>2. slot[k][p].shadow.gen = pc[p].gen
    BY <2>1 DEF OrderInv, Building
  <2> QED BY <1>1, <2>1, <2>2
<1> QED BY <1>1, <1>2, OrderStep

LEMMA ReportOrder ==
    ASSUME Typed, OrderInv, NEW p \in Procs, NEW up \in BOOLEAN, Report(p, up)
    PROVE  OrderInv'
<1>1. UNCHANGED <<slot, chan, pc>>
  BY DEF Report
<1>2. AcksBounded
  BY <1>1, ChanSame, NoAcks
<1> QED BY <1>1, <1>2, ReportTyped, QuietOrder

LEMMA OnReportOrder ==
    ASSUME Typed, OrderInv, NEW p \in Procs, NEW k \in Conns, OnReport(p, k)
    PROVE  OrderInv'
<1>1. UNCHANGED <<chan, pc>>
  BY DEF OnReport
<1>2. AcksBounded
  BY <1>1, ChanSame, NoAcks
<1>3. /\ Typed' /\ Later
      /\ \A j \in Conns, q \in Procs :
            slot'[j][q] = slot[j][q] \/ SameGens(slot[j][q], slot'[j][q])
  BY OnReportTyped
<1> QED BY <1>1, <1>2, <1>3, QuietOrder

LEMMA TellPeerOrder ==
    ASSUME Typed, OrderInv, NEW p \in Procs, NEW k \in Conns, TellPeer(p, k)
    PROVE  OrderInv'
<1>1. UNCHANGED <<slot, pc>>
  BY DEF TellPeer
<1>2. PICK m : m = Msg("event", mon[p].gen, mon[p].up)
  OBVIOUS
<1>3. OnlyNew(k, Other(p), m) /\ Typed' /\ Later
  <2>1. OnlyNew(k, Other(p), Msg("event", mon[p].gen, mon[p].up)) /\ Typed' /\ Later
    BY TellPeerTyped
  <2> QED BY <1>2, <2>1, Zenon
<1>4. AcksBounded
  BY <1>2, <1>3, NoAcks DEF Msg
<1> QED BY <1>1, <1>3, <1>4, QuietOrder

LEMMA CqErrorOrder ==
    ASSUME Typed, OrderInv, NEW p \in Procs, NEW k \in Conns, CqError(p, k)
    PROVE  OrderInv'
<1>1. UNCHANGED pc
  BY DEF CqError
<1>2. PICK m : m = Msg("event", MarkBroken(entry[p]).gen, FALSE)
  OBVIOUS
<1>3. /\ Typed' /\ Later
      /\ \A j \in Conns, q \in Procs :
            slot'[j][q] = slot[j][q] \/ SameGens(slot[j][q], slot'[j][q])
      /\ OnlyNew(k, Other(p), Msg("event", MarkBroken(entry[p]).gen, FALSE))
  BY CqErrorTyped
<1>4. OnlyNew(k, Other(p), m)
  BY <1>2, <1>3, Zenon
<1>5. AcksBounded
  BY <1>2, <1>4, NoAcks DEF Msg
<1> QED BY <1>1, <1>3, <1>5, QuietOrder

LEMMA RecvEventOrder ==
    ASSUME Typed, OrderInv, NEW p \in Procs, NEW k \in Conns, RecvEvent(p, k)
    PROVE  OrderInv'
<1>1. UNCHANGED pc
  BY DEF RecvEvent
<1>2. /\ Typed' /\ Later /\ NothingNew
      /\ \A j \in Conns, q \in Procs :
            slot'[j][q] = slot[j][q] \/ SameGens(slot[j][q], slot'[j][q])
  BY RecvEventTyped
<1> QED BY <1>1, <1>2, NoAcks, QuietOrder

LEMMA RecoverStartOrder ==
    ASSUME Typed, OrderInv, NEW k \in Conns, RecoverStart(k)
    PROVE  OrderInv'
<1>1. PICK p \in Procs : Sends(p, k)
  BY Ends DEF Sends
<1>2. PICK g \in Nat : g = entry[p].gen
  BY Now
<1>3. /\ Typed' /\ Later
      /\ OnlyNew(k, Other(p), Msg("req", g, TRUE))
      /\ pc'[p].at = "resp" /\ pc'[p].conn = k /\ pc'[p].gen = g
      /\ \A q \in Procs : q # p => pc'[q] = pc[q]
  BY <1>1, <1>2, RecoverStartTyped
<1>4. slot'[k][p].active.gen = slot[k][p].active.gen
  BY <1>1, RecoverStartTyped
<1>5. slot'[k][p].shadow.gen = g
  BY <1>1, <1>2, RecoverStartTyped
<1>6. \A j \in Conns, q \in Procs : ~(j = k /\ q = p) => slot'[j][q] = slot[j][q]
  BY <1>1, RecoverStartTyped
<1>7. AcksBounded
  <2>1. PICK m : m = Msg("req", g, TRUE)
    OBVIOUS
  <2>2. OnlyNew(k, Other(p), m)
    BY <1>3, <2>1, Zenon
  <2> QED BY <2>1, <2>2, NoAcks DEF Msg
<1>8. Building'
  <2> SUFFICES ASSUME NEW j \in Conns, NEW q \in Procs, Sends(q, j), pc'[q].conn = j,
                      pc'[q].at \in {"resp", "ack"}
               PROVE  slot'[j][q].shadow.gen = pc'[q].gen
    BY DEF Building, Sends
  <2>1. CASE q = p
    BY <1>3, <1>5, <2>1
  <2>2. CASE q # p
    <3>1. pc'[q] = pc[q] /\ slot'[j][q] = slot[j][q]
      BY <1>3, <1>6, <2>2
    <3>2. slot[j][q].shadow.gen = pc[q].gen
      BY <3>1 DEF OrderInv, Building
    <3> QED BY <3>1, <3>2
  <2> QED BY <2>1, <2>2
<1>9. \A j \in Conns, q \in Procs : slot'[j][q].active.gen = slot[j][q].active.gen
  BY <1>4, <1>6
<1>10. \A q \in Procs : pc'[q] = pc[q] \/ pc'[q].at # "mark"
  BY <1>3
<1> QED BY <1>3, <1>7, <1>8, <1>9, <1>10, OrderStep

LEMMA RecvReqOrder ==
    ASSUME Typed, OrderInv, NEW k \in Conns, NEW portReady \in BOOLEAN, RecvReq(k, portReady)
    PROVE  OrderInv'
<1>1. PICK p \in Procs : Receives(p, k)
  BY Ends DEF Receives
<1>2. PICK m : m = Head(chan[k][p])
  OBVIOUS
<1>3. /\ Typed' /\ Later /\ UNCHANGED pc
      /\ \E ok \in BOOLEAN : OnlyNew(k, Other(p), Msg("resp", m.gen, ok))
      /\ \A j \in Conns, q \in Procs :
            slot'[j][q] = slot[j][q]
            \/ (j = k /\ q = p /\ slot'[j][q].active.gen = slot[j][q].active.gen)
  BY <1>1, <1>2, RecvReqTyped
<1>4. AcksBounded
  <2>1. PICK ok \in BOOLEAN : OnlyNew(k, Other(p), Msg("resp", m.gen, ok))
    BY <1>3
  <2>2. PICK n : n = Msg("resp", m.gen, ok)
    OBVIOUS
  <2>3. OnlyNew(k, Other(p), n)
    BY <2>1, <2>2, Zenon
  <2> QED BY <2>2, <2>3, NoAcks DEF Msg
<1>5. ~Sends(p, k)
  BY <1>1, Ends DEF Sends, Receives
<1>6. Building'
  <2> SUFFICES ASSUME NEW j \in Conns, NEW q \in Procs, Sends(q, j), pc'[q].conn = j,
                      pc'[q].at \in {"resp", "ack"}
               PROVE  slot'[j][q].shadow.gen = pc'[q].gen
    BY DEF Building, Sends
  <2>1. pc'[q] = pc[q] /\ slot'[j][q] = slot[j][q]
    BY <1>3, <1>5
  <2>2. slot[j][q].shadow.gen = pc[q].gen
    BY <2>1 DEF OrderInv, Building
  <2> QED BY <2>1, <2>2
<1>7. \A j \in Conns, q \in Procs : slot'[j][q].active.gen = slot[j][q].active.gen
  BY <1>3
<1> QED BY <1>3, <1>4, <1>6, <1>7, OrderStep

LEMMA GiveUpOrder ==
    ASSUME Typed, OrderInv, NEW k \in Conns, GiveUp(k)
    PROVE  OrderInv'
<1>1. PICK p \in Procs : Sends(p, k)
  BY Ends DEF Sends
<1>2. /\ Typed' /\ Later /\ NothingNew
      /\ pc'[p].at = "loop" /\ \A q \in Procs : q # p => pc'[q] = pc[q]
      /\ \A j \in Conns, q \in Procs :
            slot'[j][q] = slot[j][q] \/ SameGens(slot[j][q], slot'[j][q])
  BY <1>1, GiveUpTyped
<1> QED BY <1>2, NoAcks, QuietOrder

LEMMA RecvRespOrder ==
    ASSUME Typed, OrderInv, NEW k \in Conns, RecvResp(k)
    PROVE  OrderInv'
<1>1. PICK p \in Procs : Sends(p, k)
  BY Ends DEF Sends
<1>2. /\ Typed' /\ Later
      /\ OnlyNew(k, Other(p), Msg("ready", pc[p].gen, TRUE))
      /\ pc'[p].at = "ack" /\ pc'[p].conn = k /\ pc'[p].gen = pc[p].gen
      /\ \A q \in Procs : q # p => pc'[q] = pc[q]
      /\ KeepsGens(k)
  BY <1>1, RecvRespTyped
<1>3. AcksBounded
  <2>1. PICK m : m = Msg("ready", pc[p].gen, TRUE)
    OBVIOUS
  <2>2. OnlyNew(k, Other(p), m)
    BY <1>2, <2>1, Zenon
  <2> QED BY <2>1, <2>2, NoAcks DEF Msg
<1>4. pc[p].at = "resp" /\ pc[p].conn = k
  BY <1>1 DEF RecvResp, Answered, Sends
<1>5. \A j \in Conns, q \in Procs :
         slot'[j][q] = slot[j][q] \/ SameGens(slot[j][q], slot'[j][q])
  BY <1>2 DEF KeepsGens
<1>6. \A q \in Procs :
         \/ pc'[q] = pc[q] \/ pc'[q].at = "loop"
         \/ /\ pc[q].at = "resp" /\ pc'[q].at = "ack"
            /\ pc'[q].conn = pc[q].conn /\ pc'[q].gen = pc[q].gen
  BY <1>2, <1>4
<1> QED BY <1>2, <1>3, <1>5, <1>6, QuietOrder

LEMMA RefuseReadyOrder ==
    ASSUME Typed, OrderInv, NEW k \in Conns, RefuseReady(k)
    PROVE  OrderInv'
<1>1. PICK p \in Procs : Receives(p, k)
  BY Ends DEF Receives
<1>2. /\ Typed' /\ Later /\ UNCHANGED pc
      /\ \E g \in Nat : OnlyNew(k, Other(p), Msg("ack", g, FALSE))
      /\ \A j \in Conns, q \in Procs :
            slot'[j][q] = slot[j][q] \/ SameGens(slot[j][q], slot'[j][q])
  BY <1>1, RefuseReadyTyped
<1>3. AcksBounded
  <2>1. PICK g \in Nat : OnlyNew(k, Other(p), Msg("ack", g, FALSE))
    BY <1>2
  <2>2. PICK m : m = Msg("ack", g, FALSE)
    OBVIOUS
  <2>3. OnlyNew(k, Other(p), m)
    BY <2>1, <2>2, Zenon
  <2> QED BY <2>2, <2>3, NoAcks DEF Msg
<1> QED BY <1>2, <1>3, QuietOrder

LEMMA MarkHealthyOrder ==
    ASSUME Typed, OrderInv, NEW p \in Procs, MarkHealthy(p)
    PROVE  OrderInv'
<1>1. PICK k \in Conns, g \in Nat : Marking(p, k, g)
  BY DEF MarkHealthy, Marking, Typed, Positions
<1>2. PICK ok \in BOOLEAN : ok = HealthyIfGenerationOK(entry[p], g)
  BY DEF HealthyIfGenerationOK
<1>3. /\ Typed' /\ Later
      /\ pc'[p].at = "loop" /\ \A q \in Procs : q # p => pc'[q] = pc[q]
      /\ \A j \in Conns, q \in Procs :
            slot'[j][q] = slot[j][q] \/ SameGens(slot[j][q], slot'[j][q])
  BY <1>1, MarkHealthyTyped
<1>4. NothingNew \/ (Receives(p, k) /\ OnlyNew(k, Other(p), Msg("ack", g, ok)))
  BY <1>1, <1>2, MarkHealthyTyped
<1>5. CASE NothingNew
  BY <1>3, <1>5, NoAcks, QuietOrder
<1>6. CASE Receives(p, k) /\ OnlyNew(k, Other(p), Msg("ack", g, ok))
  <2>1. g <= slot[k][p].active.gen
    BY <1>1, <1>6 DEF Marking, OrderInv, Acked
  <2>2. PICK n : n = Msg("ack", g, ok)
    OBVIOUS
  <2>3. OnlyNew(k, Other(p), n) /\ n.gen = g
    BY <1>6, <2>2 DEF Msg
  <2>4. AcksBounded
    <3> SUFFICES ASSUME NEW j \in Conns, NEW q \in Procs, NEW m \in Carried(j, Other(q))'
                 PROVE  m \in Carried(j, Other(q)) \/ m.gen <= slot[j][q].active.gen
      BY DEF AcksBounded
    <3>1. Other(q) \in Procs /\ (Other(q) = Other(p) => q = p)
      BY Ends
    <3>2. m \in Carried(j, Other(q)) \/ (j = k /\ q = p /\ m = n)
      BY <2>3, <3>1 DEF OnlyNew
    <3> QED BY <2>1, <2>3, <3>2
  <2> QED BY <1>3, <2>4, QuietOrder
<1> QED BY <1>4, <1>5, <1>6

\* The receiver commits: its queue pair was not later than its table, which is
\* at the generation committed.
LEMMA RecvReadyOrder ==
    ASSUME Typed, OrderInv, NEW k \in Conns, RecvReady(k)
    PROVE  OrderInv'
<1>1. PICK p \in Procs : Receives(p, k)
  BY Ends DEF Receives
<1>2. PICK m : m = Head(chan[k][p])
  OBVIOUS
<1>3. /\ Typed' /\ Later /\ NothingNew /\ UNCHANGED entry
      /\ m \in Carried(k, p) /\ entry[p].gen = m.gen
      /\ pc'[p].at = "mark" /\ pc'[p].conn = k /\ pc'[p].gen = m.gen
      /\ \A q \in Procs : q # p => pc'[q] = pc[q]
      /\ slot'[k][p].active.gen = m.gen
      /\ \A j \in Conns, q \in Procs : ~(j = k /\ q = p) => slot'[j][q] = slot[j][q]
  BY <1>1, <1>2, RecvReadyTyped
<1>4. m.gen \in Nat /\ slot[k][p].active.gen <= m.gen
  BY <1>3, CarriedTyped DEF OrderInv, OldSlots
<1>5. \A j \in Conns, q \in Procs :
         /\ slot[j][q].active.gen \in Nat /\ slot'[j][q].active.gen \in Nat
         /\ slot[j][q].active.gen <= slot'[j][q].active.gen
  <2> SUFFICES ASSUME NEW j \in Conns, NEW q \in Procs
               PROVE  /\ slot[j][q].active.gen \in Nat /\ slot'[j][q].active.gen \in Nat
                      /\ slot[j][q].active.gen <= slot'[j][q].active.gen
    OBVIOUS
  <2>1. slot[j][q].active.gen \in Nat
    BY SlotGens
  <2>2. CASE j = k /\ q = p
    BY <1>3, <1>4, <2>1, <2>2
  <2>3. CASE ~(j = k /\ q = p)
    BY <1>3, <2>1, <2>3
  <2> QED BY <2>1, <2>2, <2>3
<1>6. OldSlots'
  <2> SUFFICES ASSUME NEW j \in Conns, NEW q \in Procs
               PROVE  slot'[j][q].active.gen <= entry[q].gen
    BY <1>3 DEF OldSlots
  <2>1. CASE j = k /\ q = p
    BY <1>3, <1>4, <2>1
  <2>2. CASE ~(j = k /\ q = p)
    BY <1>3, <2>2 DEF OrderInv, OldSlots
  <2> QED BY <2>1, <2>2
<1>7. Building'
  <2> SUFFICES ASSUME NEW j \in Conns, NEW q \in Procs, Sends(q, j), pc'[q].conn = j,
                      pc'[q].at \in {"resp", "ack"}
               PROVE  slot'[j][q].shadow.gen = pc'[q].gen
    BY DEF Building, Sends
  <2>1. pc'[q] = pc[q] /\ slot'[j][q] = slot[j][q]
    BY <1>3
  <2>2. slot[j][q].shadow.gen = pc[q].gen
    BY <2>1 DEF OrderInv, Building
  <2> QED BY <2>1, <2>2
<1>8. Acked'
  <2> SUFFICES ASSUME NEW j \in Conns, NEW q \in Procs, Receives(q, j)
               PROVE  /\ \A n \in Carried(j, Other(q))' :
                            n.kind = "ack" /\ n.ok => n.gen <= slot'[j][q].active.gen
                      /\ pc'[q].conn = j /\ pc'[q].at = "mark"
                            => pc'[q].gen <= slot'[j][q].active.gen
    BY DEF Acked, Receives
  <2>1. ASSUME NEW n \in Carried(j, Other(q))', n.kind = "ack", n.ok
        PROVE  n.gen <= slot'[j][q].active.gen
    <3>1. Other(q) \in Procs
      BY Ends
    <3>2. n \in Carried(j, Other(q))
      BY <1>3, <2>1, <3>1 DEF NothingNew
    <3>3. n.gen <= slot[j][q].active.gen /\ n.gen \in Nat
      BY <2>1, <3>1, <3>2, CarriedTyped DEF OrderInv, Acked
    <3> QED BY <1>5, <3>3
  <2>2. ASSUME pc'[q].conn = j, pc'[q].at = "mark"
        PROVE  pc'[q].gen <= slot'[j][q].active.gen
    <3>1. CASE q = p
      BY <1>3, <1>4, <2>2, <3>1
    <3>2. CASE q # p
      <4>1. pc'[q] = pc[q] /\ slot'[j][q] = slot[j][q]
        BY <1>3, <3>2
      <4>2. pc[q].gen <= slot[j][q].active.gen
        BY <2>2, <4>1 DEF OrderInv, Acked
      <4> QED BY <4>1, <4>2
    <3> QED BY <3>1, <3>2
  <2> QED BY <2>1, <2>2
<1>9. Behind'
  <2> SUFFICES ASSUME NEW j \in Conns, NEW q \in Procs, Receives(q, j)
               PROVE  slot'[j][Other(q)].active.gen <= slot'[j][q].active.gen
    BY DEF Behind, Receives
  <2>1. Other(q) \in Procs /\ ~(j = k /\ Other(q) = p)
    BY <1>1, Ends DEF Receives
  <2>2. slot'[j][Other(q)] = slot[j][Other(q)]
    BY <1>3, <2>1
  <2>3. slot[j][Other(q)].active.gen <= slot[j][q].active.gen
    BY DEF OrderInv, Behind
  <2> QED BY <1>5, <2>1, <2>2, <2>3
<1> QED BY <1>6, <1>7, <1>8, <1>9 DEF OrderInv

\* The sender commits what the receiver has acknowledged.
LEMMA RecvAckOrder ==
    ASSUME Typed, OrderInv, NEW k \in Conns, RecvAck(k)
    PROVE  OrderInv'
<1>1. PICK p \in Procs : Sends(p, k)
  BY Ends DEF Sends
<1>2. PICK m : m = Head(chan[k][p])
  OBVIOUS
<1>3. /\ Typed' /\ Later /\ NothingNew /\ UNCHANGED entry
      /\ m \in Carried(k, p) /\ m.kind = "ack" /\ m.ok /\ m.gen = pc[p].gen
      /\ pc[p].at = "ack" /\ pc[p].conn = k
      /\ \A q \in Procs : q # p => pc'[q] = pc[q]
      /\ \A j \in Conns, q \in Procs : ~(j = k /\ q = p) => slot'[j][q] = slot[j][q]
      /\ pc'[p].at = "loop" \/ (pc'[p].at = "mark" /\ pc'[p].conn = k)
  BY <1>1, <1>2, RecvAckTyped
<1>4. \/ slot'[k][p].active.gen = slot[k][p].active.gen
      \/ entry[p].gen = pc[p].gen /\ slot'[k][p].active.gen = slot[k][p].shadow.gen
  BY <1>1, <1>2, RecvAckTyped
<1>5. slot[k][p].shadow.gen = m.gen
  BY <1>1, <1>3 DEF OrderInv, Building
<1>6. \E o \in Procs : o = Other(p) /\ Receives(o, k) /\ Other(o) = p /\ o # p
  BY <1>1, Ends DEF Sends, Receives
<1>7. m.gen <= slot[k][Other(p)].active.gen
  BY <1>3, <1>6 DEF OrderInv, Acked
<1>8. OldSlots'
  <2> SUFFICES ASSUME NEW j \in Conns, NEW q \in Procs
               PROVE  slot'[j][q].active.gen <= entry[q].gen
    BY <1>3 DEF OldSlots
  <2>1. slot[j][q].active.gen <= entry[q].gen
    BY DEF OrderInv, OldSlots
  <2>2. CASE j = k /\ q = p
    <3>1. entry[p].gen \in Nat
      BY Now
    <3> QED BY <1>3, <1>4, <1>5, <2>1, <2>2, <3>1
  <2>3. CASE ~(j = k /\ q = p)
    BY <1>3, <2>1, <2>3
  <2> QED BY <2>2, <2>3
<1>9. Building'
  <2> SUFFICES ASSUME NEW j \in Conns, NEW q \in Procs, Sends(q, j), pc'[q].conn = j,
                      pc'[q].at \in {"resp", "ack"}
               PROVE  slot'[j][q].shadow.gen = pc'[q].gen
    BY DEF Building, Sends
  <2>1. pc'[q] = pc[q] /\ slot'[j][q] = slot[j][q]
    BY <1>3
  <2>2. slot[j][q].shadow.gen = pc[q].gen
    BY <2>1 DEF OrderInv, Building
  <2> QED BY <2>1, <2>2
<1>10. ~Receives(p, k)
  BY <1>1, Ends DEF Sends, Receives
<1>11. Acked'
  <2> SUFFICES ASSUME NEW j \in Conns, NEW q \in Procs, Receives(q, j)
               PROVE  /\ \A n \in Carried(j, Other(q))' :
                            n.kind = "ack" /\ n.ok => n.gen <= slot'[j][q].active.gen
                      /\ pc'[q].conn = j /\ pc'[q].at = "mark"
                            => pc'[q].gen <= slot'[j][q].active.gen
    BY DEF Acked, Receives
  <2>1. Other(q) \in Procs /\ slot'[j][q] = slot[j][q]
    BY <1>3, <1>10, Ends
  <2>2. \A n \in Carried(j, Other(q))' : n \in Carried(j, Other(q))
    BY <1>3, <2>1 DEF NothingNew
  <2>3. pc'[q].conn = j /\ pc'[q].at = "mark" => pc'[q] = pc[q]
    BY <1>3, <1>10
  <2> QED BY <2>1, <2>2, <2>3 DEF OrderInv, Acked
<1>12. Behind'
  <2> SUFFICES ASSUME NEW j \in Conns, NEW q \in Procs, Receives(q, j)
               PROVE  slot'[j][Other(q)].active.gen <= slot'[j][q].active.gen
    BY DEF Behind, Receives
  <2>1. Other(q) \in Procs /\ slot'[j][q] = slot[j][q]
    BY <1>3, <1>10, Ends
  <2>2. slot[j][Other(q)].active.gen <= slot[j][q].active.gen
    BY DEF OrderInv, Behind
  <2>3. CASE j = k /\ Other(q) = p
    <3>1. Other(p) = q
      BY <2>3, Ends
    <3>2. slot'[k][p].active.gen <= slot[k][q].active.gen
      BY <1>4, <1>5, <1>7, <2>2, <2>3, <3>1
    <3> QED BY <2>1, <2>3, <3>2
  <2>4. CASE ~(j = k /\ Other(q) = p)
    <3>1. slot'[j][Other(q)] = slot[j][Other(q)]
      BY <1>3, <2>1, <2>4
    <3> QED BY <2>1, <2>2, <3>1
  <2> QED BY <2>3, <2>4
<1> QED BY <1>8, <1>9, <1>11, <1>12 DEF OrderInv

LEMMA OrderNext ==
    ASSUME Typed, OrderInv, [Next]_vars
    PROVE  OrderInv'
<1>1. ASSUME NEW p \in Procs, NEW k \in Conns, Handle(p, k) PROVE OrderInv'
  BY <1>1, RecvEventOrder, GiveUpOrder, RecvRespOrder, RecvAckOrder, RecvReqOrder,
     RefuseReadyOrder, RecvReadyOrder DEF Handle
<1>2. ASSUME NEW p \in Procs, NEW k \in Conns,
             OnReport(p, k) \/ TellPeer(p, k) \/ CqError(p, k)
      PROVE  OrderInv'
  BY <1>2, OnReportOrder, TellPeerOrder, CqErrorOrder
<1>3. CASE UNCHANGED vars
  BY <1>3 DEF vars, OrderInv, OldSlots, Building, Acked, Behind, Carried, Sends, Receives
<1> QED BY <1>1, <1>2, <1>3, RecoverStartOrder, MarkHealthyOrder, ReportOrder DEF Next

LEMMA OrderStart == Init => OrderInv
<1> SUFFICES ASSUME Init PROVE OrderInv
  OBVIOUS
<1>1. \A k \in Conns, p \in Procs :
         slot[k][p].active.gen = 1 /\ entry[p].gen = 1 /\ pc[p].at = "loop"
  BY DEF Init, FirstSlot, InitialEntry, Looping
<1>2. \A k \in Conns, p \in Procs : Carried(k, p) = {}
  BY DEF Init, Carried, Elements
<1>3. \A p \in Procs : Other(p) \in Procs
  BY Ends
<1> QED BY <1>1, <1>2, <1>3 DEF OrderInv, OldSlots, Building, Acked, Behind

LEMMA OrderAlways == Spec => []OrderInv
<1>1. Typed /\ OrderInv /\ [Next]_vars => OrderInv'
  BY OrderNext
<1>2. Spec => []Typed
  BY KnownAlways, PTL
<1> QED BY <1>1, <1>2, OrderStart, PTL DEF Spec

(* No sender is ahead of its receiver, on any connection, whichever thread *)
(* or monitor changed the shared table between the steps of a handshake.   *)
THEOREM SendersNotAhead == Spec => []SenderNotAhead
<1>1. OrderInv => SenderNotAhead
  <2> SUFFICES ASSUME OrderInv, NEW k \in Conns
               PROVE  slot[k][SenderOf[k]].active.gen <= slot[k][Receiver(k)].active.gen
    BY DEF SenderNotAhead
  <2>1. \E p \in Procs : p = Receiver(k) /\ Receives(p, k) /\ Other(p) = SenderOf[k]
    BY Ends DEF Receives
  <2> QED BY <2>1 DEF OrderInv, Behind
<1> QED BY <1>1, OrderAlways, PTL

-----------------------------------------------------------------------------
(* What a step may do to the tables: a local transition, one learnt from a *)
(* peer that has reached it, or a plane taken back while the peer has it   *)
(* back too (a receiver: while the peer is recovering it).                 *)
LocalStep(p) ==
    \E h \in {"Broken", "Recovering"} : entry' = [entry EXCEPT ![p] = MarkAs(entry[p], h)]

LearnStep(p) ==
    \E g \in Nat, h \in {"Broken", "Recovering"} :
        /\ Agreement!Reached(entry[Other(p)], g, h)
        /\ entry' = [entry EXCEPT ![p] = ApplyRemoteEvent(entry[p], g, h)]

ReadmitStep(p) ==
    \E k \in Conns, g \in Nat :
        /\ Told(Other(p), g, TRUE)
        /\ Sends(p, k) => Readmitted(Other(p), g)
        /\ entry' = [entry EXCEPT ![p] = MarkHealthyIfGeneration(entry[p], g)]

TableStep == \E p \in Procs : LocalStep(p) \/ LearnStep(p) \/ ReadmitStep(p)

LEMMA RecvEventLearns ==
    ASSUME Typed, KnownInv, NEW p \in Procs, NEW k \in Conns, RecvEvent(p, k)
    PROVE  LearnStep(p)
<1>1. PICK m : m = Head(chan[k][p])
  OBVIOUS
<1>2. PICK h : h = IF m.ok THEN "Recovering" ELSE "Broken"
  OBVIOUS
<1>3. entry' = [entry EXCEPT ![p] = ApplyRemoteEvent(entry[p], m.gen, h)]
  BY <1>1, <1>2, RecvEventTyped
<1>4. Arrived(k, p, "event")
  BY DEF RecvEvent
<1>5. m.kind = "event" /\ m.gen \in Nat /\ m \in Carried(k, p)
  BY <1>1, <1>4, ArrivedMessage
<1>6. Agreement!Reached(entry[Other(p)], m.gen, h)
  BY <1>2, <1>5 DEF KnownInv, MsgKnown, Told
<1>7. h \in {"Broken", "Recovering"}
  BY <1>2
<1> QED BY <1>3, <1>5, <1>6, <1>7 DEF LearnStep

LEMMA RecvReqLearns ==
    ASSUME Typed, KnownInv, NEW k \in Conns, NEW portReady \in BOOLEAN, RecvReq(k, portReady)
    PROVE  \E p \in Procs : LearnStep(p)
<1>1. PICK p \in Procs : Receives(p, k)
  BY Ends DEF Receives
<1>2. PICK m : m = Head(chan[k][p])
  OBVIOUS
<1>3. entry' = [entry EXCEPT ![p] = ApplyRemoteEvent(entry[p], m.gen, "Recovering")]
  BY <1>1, <1>2, RecvReqTyped
<1>4. Arrived(k, p, "req")
  BY <1>1 DEF RecvReq, Receives
<1>5. m.kind = "req" /\ m.gen \in Nat /\ m \in Carried(k, p)
  BY <1>2, <1>4, ArrivedMessage
<1>6. Told(Other(p), m.gen, TRUE)
  BY <1>5 DEF KnownInv, MsgKnown
<1>7. Agreement!Reached(entry[Other(p)], m.gen, "Recovering")
  BY <1>6 DEF Told
<1>8. LearnStep(p)
  BY <1>3, <1>5, <1>7 DEF LearnStep
<1> QED BY <1>8

LEMMA MarkHealthyReadmits ==
    ASSUME Typed, KnownInv, NEW p \in Procs, MarkHealthy(p)
    PROVE  ReadmitStep(p)
<1>1. PICK k \in Conns, g \in Nat : Marking(p, k, g)
  BY DEF MarkHealthy, Marking, Typed, Positions
<1>2. entry' = [entry EXCEPT ![p] = MarkHealthyIfGeneration(entry[p], g)]
  BY <1>1, MarkHealthyTyped
<1>3. PcKnown(p)
  BY DEF KnownInv
<1>4. Told(Other(p), g, TRUE) /\ (Sends(p, k) => Readmitted(Other(p), g))
  BY <1>1, <1>3 DEF PcKnown, Marking
<1> QED BY <1>2, <1>4 DEF ReadmitStep

LEMMA MarksLocal ==
    ASSUME Typed, NEW p \in Procs,
           (\E up \in BOOLEAN : Report(p, up)) \/ (\E k \in Conns : CqError(p, k))
    PROVE  LocalStep(p)
<1>1. ASSUME NEW up \in BOOLEAN, Report(p, up) PROVE LocalStep(p)
  <2>1. PICK h \in {"Broken", "Recovering"} : Mark(entry[p], up) = MarkAs(entry[p], h)
    BY DEF Mark, MarkBroken, MarkRecovering
  <2>2. entry' = [entry EXCEPT ![p] = Mark(entry[p], up)]
    BY <1>1 DEF Report
  <2> QED BY <2>1, <2>2 DEF LocalStep
<1>2. ASSUME NEW k \in Conns, CqError(p, k) PROVE LocalStep(p)
  <2>1. entry' = [entry EXCEPT ![p] = MarkAs(entry[p], "Broken")]
    BY <1>2 DEF CqError, MarkBroken
  <2> QED BY <2>1 DEF LocalStep
<1> QED BY <1>1, <1>2

LEMMA NextTableStep ==
    ASSUME Typed, KnownInv, [Next]_vars
    PROVE  TableStep \/ UNCHANGED entry
<1>1. ASSUME NEW p \in Procs, NEW k \in Conns, Handle(p, k)
      PROVE  TableStep \/ UNCHANGED entry
  <2>1. CASE RecvEvent(p, k)
    BY <2>1, RecvEventLearns DEF TableStep
  <2>2. ASSUME NEW ready \in BOOLEAN, RecvReq(k, ready) PROVE TableStep
    BY <2>2, RecvReqLearns DEF TableStep
  <2>3. CASE GiveUp(k) \/ RecvResp(k) \/ RecvAck(k) \/ RefuseReady(k) \/ RecvReady(k)
    BY <2>3 DEF GiveUp, RecvResp, RecvAck, RefuseReady, RecvReady
  <2> QED BY <1>1, <2>1, <2>2, <2>3 DEF Handle
<1>2. ASSUME NEW p \in Procs, NEW k \in Conns,
             OnReport(p, k) \/ TellPeer(p, k) \/ RecoverStart(k)
      PROVE  UNCHANGED entry
  BY <1>2 DEF OnReport, TellPeer, RecoverStart
<1>3. ASSUME NEW p \in Procs,
             \/ \E up \in BOOLEAN : Report(p, up)
             \/ \E k \in Conns : CqError(p, k)
             \/ MarkHealthy(p)
      PROVE  TableStep
  BY <1>3, MarksLocal, MarkHealthyReadmits DEF TableStep
<1>4. CASE UNCHANGED vars
  BY <1>4 DEF vars
<1>5. "P" \in Procs
  BY DEF Procs
<1> HIDE DEF Procs
<1> QED BY <1>1, <1>2, <1>3, <1>4, <1>5 DEF Next

-----------------------------------------------------------------------------
\* The table of the agreement.
Mapped == [s \in {"S", "R"} |-> [plane \in {1} |-> entry[IF s = "S" THEN "P" ELSE "Q"]]]

\* A plane one end has taken back is not down for the other at that generation,
\* nor does the other lag behind.
InStep == \A p \in Procs : entry[p].health = "Healthy" => Told(Other(p), entry[p].gen, TRUE)

LEMMA InStepNext ==
    ASSUME Typed, Typed', Later, InStep, TableStep \/ UNCHANGED entry
    PROVE  InStep'
<1> SUFFICES ASSUME NEW p \in Procs, entry'[p].health = "Healthy"
             PROVE  Told(Other(p), entry[p].gen, TRUE)'
  BY DEF InStep
<1>1. entry[p] \in PlaneEntry /\ Other(p) \in Procs
  BY Now, Ends
<1>2. PICK g \in Nat : g = entry'[p].gen
  BY DEF Typed, PlaneEntry
<1>3. CASE entry'[p] = entry[p]
  <2>1. Told(Other(p), g, TRUE)
    BY <1>2, <1>3 DEF InStep
  <2>2. Told(Other(p), g, TRUE)'
    BY <1>1, <2>1, ToldStays
  <2> QED BY <1>2, <2>2 DEF Told
<1>4. CASE entry'[p] # entry[p]
  <2>1. PICK q \in Procs : LocalStep(q) \/ LearnStep(q) \/ ReadmitStep(q)
    BY <1>4 DEF TableStep
  <2>2. q = p
    BY <1>4, <2>1 DEF LocalStep, LearnStep, ReadmitStep, Typed
  <2>3. ~LocalStep(p)
    <3> SUFFICES ASSUME NEW h \in {"Broken", "Recovering"},
                        entry' = [entry EXCEPT ![p] = MarkAs(entry[p], h)]
                 PROVE  FALSE
      BY DEF LocalStep
    <3>1. entry'[p] = MarkAs(entry[p], h)
      BY DEF Typed
    <3> QED BY <1>1, <1>4, <3>1 DEF MarkAs, PlaneEntry
  <2>4. ~LearnStep(p)
    <3> SUFFICES ASSUME NEW n \in Nat, NEW h \in {"Broken", "Recovering"},
                        entry' = [entry EXCEPT ![p] = ApplyRemoteEvent(entry[p], n, h)]
                 PROVE  FALSE
      BY DEF LearnStep
    <3>1. entry'[p] = ApplyRemoteEvent(entry[p], n, h)
      BY DEF Typed
    <3> QED BY <1>1, <1>4, <3>1 DEF ApplyRemoteEvent, PlaneEntry
  <2>5. PICK n \in Nat : /\ Told(Other(p), n, TRUE)
                         /\ entry' = [entry EXCEPT ![p] = MarkHealthyIfGeneration(entry[p], n)]
    BY <2>1, <2>2, <2>3, <2>4 DEF ReadmitStep
  <2>6. entry'[p] = MarkHealthyIfGeneration(entry[p], n)
    BY <2>5 DEF Typed
  <2>7. g = n
    BY <1>1, <1>2, <1>4, <2>6 DEF MarkHealthyIfGeneration, HealthyIfGenerationOK, PlaneEntry
  <2>8. Told(Other(p), g, TRUE)'
    BY <1>1, <2>5, <2>7, ToldStays
  <2> QED BY <1>2, <2>8 DEF Told
<1> QED BY <1>3, <1>4

(* Whichever process made which connection, the two shared tables never    *)
(* hold contradicting verdicts under one generation, and no process takes  *)
(* a plane for usable at a generation the other one has not reached.       *)
THEOREM SharedTablesAgree ==
    Spec => [](Agreement!HealthyNotAhead /\ Agreement!NoContradiction)
<1>1. Init => InStep
  BY DEF Init, InStep, InitialEntry, Told, Agreement!Reached, Procs, Other
<1>2. Typed /\ KnownInv /\ InStep /\ [Next]_vars => InStep'
  BY KnownNext, NextTableStep, InStepNext
<1>3. Typed /\ InStep => Agreement!HealthyNotAhead /\ Agreement!NoContradiction
  <2> SUFFICES ASSUME Typed, InStep
               PROVE  Agreement!HealthyNotAhead /\ Agreement!NoContradiction
    OBVIOUS
  <2>1. \A p \in Procs :
           entry[p].health = "Healthy" =>
               /\ entry[p].gen <= entry[Other(p)].gen
               /\ ~(entry[p].gen = entry[Other(p)].gen /\ entry[Other(p)].health = "Broken")
    <3> TAKE p \in Procs
    <3> HAVE entry[p].health = "Healthy"
    <3>1. Other(p) \in Procs /\ entry[p].gen \in Nat /\ entry[Other(p)].gen \in Nat
      BY Now, Ends
    <3>2. Told(Other(p), entry[p].gen, TRUE)
      BY DEF InStep
    <3>3. \/ entry[Other(p)].gen > entry[p].gen
          \/ entry[Other(p)].gen = entry[p].gen /\ entry[Other(p)].health # "Broken"
      BY <3>2 DEF Told, Agreement!Reached
    <3> QED BY <3>1, <3>3
  <2>2. ASSUME NEW s \in Agreement!Sides
        PROVE  \E p \in Procs : /\ Mapped[s][1] = entry[p]
                                /\ Mapped[Agreement!Peer(s)][1] = entry[Other(p)]
    BY DEF Agreement!Sides, Agreement!Peer, Procs, Other, Mapped
  <2>3. Agreement!HealthyNotAhead
    <3> SUFFICES ASSUME NEW s \in Agreement!Sides, NEW plane \in {1}
                 PROVE  Mapped[s][plane].health = "Healthy"
                            => Mapped[s][plane].gen <= Mapped[Agreement!Peer(s)][plane].gen
      BY DEF Agreement!HealthyNotAhead, Mapped
    <3> QED BY <2>1, <2>2
  <2>4. Agreement!NoContradiction
    <3> SUFFICES ASSUME NEW s \in Agreement!Sides, NEW plane \in {1}
                 PROVE  ~ /\ Mapped[s][plane].gen = Mapped[Agreement!Peer(s)][plane].gen
                          /\ Mapped[s][plane].health = "Healthy"
                          /\ Mapped[Agreement!Peer(s)][plane].health = "Broken"
      BY DEF Agreement!NoContradiction, Mapped
    <3> QED BY <2>1, <2>2
  <2> QED BY <2>3, <2>4
<1> QED BY <1>1, <1>2, <1>3, KnownAlways, PTL DEF Spec

-----------------------------------------------------------------------------
SideOf(p) == IF p = "P" THEN "S" ELSE "R"

LEMMA MappedChange ==
    ASSUME Typed, NEW p \in Procs, NEW f, entry' = [entry EXCEPT ![p] = f]
    PROVE  /\ SideOf(p) \in Agreement!Sides /\ SideOf(Other(p)) = Agreement!Peer(SideOf(p))
           /\ Mapped[SideOf(p)][1] = entry[p]
           /\ Mapped[Agreement!Peer(SideOf(p))][1] = entry[Other(p)]
           /\ Mapped' = [Mapped EXCEPT ![SideOf(p)][1] = f]
<1>1. /\ SideOf(p) \in Agreement!Sides /\ SideOf(Other(p)) = Agreement!Peer(SideOf(p))
      /\ Mapped[SideOf(p)][1] = entry[p]
      /\ Mapped[Agreement!Peer(SideOf(p))][1] = entry[Other(p)]
  BY DEF SideOf, Agreement!Sides, Agreement!Peer, Other, Procs, Mapped
<1>2. Mapped' = [Mapped EXCEPT ![SideOf(p)][1] = f]
  BY DEF SideOf, Procs, Mapped, Typed
<1> QED BY <1>1, <1>2

LEMMA LocalImplements ==
    ASSUME Typed, NEW p \in Procs, LocalStep(p)
    PROVE  Agreement!Next
<1>1. PICK h \in {"Broken", "Recovering"} : entry' = [entry EXCEPT ![p] = MarkAs(entry[p], h)]
  BY DEF LocalStep
<1> DEFINE s == SideOf(p)
           f == MarkAs(entry[p], h)
<1>2. /\ s \in Agreement!Sides /\ Mapped[s][1] = entry[p]
      /\ Mapped' = [Mapped EXCEPT ![s][1] = f]
  BY <1>1, MappedChange
<1>3. entry[p].gen \in Nat
  BY Now
<1> HIDE DEF s
<1>4. Agreement!LocalBroken(s, 1) \/ Agreement!LocalRecovering(s, 1)
  BY <1>2, <1>3 DEF Agreement!LocalBroken, Agreement!LocalRecovering, Mapped, MarkAs,
     Agreement!MarkBroken, Agreement!MarkRecovering, Agreement!MarkAs
<1> QED BY <1>2, <1>4 DEF Agreement!Next

LEMMA LearnImplements ==
    ASSUME Typed, NEW p \in Procs, LearnStep(p)
    PROVE  Agreement!Next \/ UNCHANGED Mapped
<1>1. PICK g \in Nat, h \in {"Broken", "Recovering"} :
         /\ Agreement!Reached(entry[Other(p)], g, h)
         /\ entry' = [entry EXCEPT ![p] = ApplyRemoteEvent(entry[p], g, h)]
  BY DEF LearnStep
<1> DEFINE s == SideOf(p)
           f == ApplyRemoteEvent(entry[p], g, h)
<1>2. /\ s \in Agreement!Sides /\ Mapped[s][1] = entry[p]
      /\ Mapped[Agreement!Peer(s)][1] = entry[Other(p)]
      /\ Mapped' = [Mapped EXCEPT ![s][1] = f]
  BY <1>1, MappedChange
<1>3. entry[p].gen \in Nat /\ entry[Other(p)].gen \in Nat
  BY Now, Ends
<1>4. CASE ~RemoteEventApplies(entry[p], g)
  <2>1. f = entry[p]
    BY <1>4 DEF ApplyRemoteEvent
  <2>2. entry' = entry
    BY <1>1, <2>1 DEF Typed
  <2> QED BY <2>2 DEF Mapped
<1>5. CASE RemoteEventApplies(entry[p], g)
  <2>1. g \in 1 .. entry[Other(p)].gen
    BY <1>1, <1>3, <1>5 DEF RemoteEventApplies, Agreement!Reached
  <2> HIDE DEF s
  <2>2. Agreement!Learn(s, 1, g, h)
    BY <1>1, <1>2 DEF Agreement!Learn, Mapped, ApplyRemoteEvent, RemoteEventApplies,
       Agreement!ApplyRemoteEvent, Agreement!RemoteEventApplies
  <2>3. g \in 1 .. Mapped[Agreement!Peer(s)][1].gen
    BY <1>2, <2>1
  <2>4. 1 \in {1}
    OBVIOUS
  <2>5. \E n \in 1 .. Mapped[Agreement!Peer(s)][1].gen, v \in {"Broken", "Recovering"} :
           Agreement!Learn(s, 1, n, v)
    BY <2>2, <2>3, Zenon
  <2> QED BY <1>2, <2>4, <2>5, Zenon DEF Agreement!Next, Mapped
<1> QED BY <1>4, <1>5

\* Where P made all connections, "S" is P and sends on each of them.
LEMMA ReadmitImplements ==
    ASSUME Typed, \A k \in Conns : SenderOf[k] = "P", NEW p \in Procs, ReadmitStep(p)
    PROVE  Agreement!Next \/ UNCHANGED Mapped
<1>1. PICK k \in Conns, g \in Nat :
         /\ Told(Other(p), g, TRUE)
         /\ Sends(p, k) => Readmitted(Other(p), g)
         /\ entry' = [entry EXCEPT ![p] = MarkHealthyIfGeneration(entry[p], g)]
  BY DEF ReadmitStep
<1> DEFINE s == SideOf(p)
           f == MarkHealthyIfGeneration(entry[p], g)
<1>2. /\ s \in Agreement!Sides /\ Mapped[s][1] = entry[p]
      /\ Mapped[Agreement!Peer(s)][1] = entry[Other(p)]
      /\ Mapped' = [Mapped EXCEPT ![s][1] = f]
  BY <1>1, MappedChange
<1>3. entry[p] \in PlaneEntry /\ entry[Other(p)].gen \in Nat
  BY Now, Ends
<1>4. s = "S" => p = "P" /\ Readmitted(Other(p), g)
  BY <1>1 DEF SideOf, Sends, Procs
<1>5. CASE f = entry[p]
  <2>1. entry' = entry
    BY <1>1, <1>5 DEF Typed
  <2> QED BY <2>1 DEF Mapped
<1>6. CASE f # entry[p]
  <2>1. /\ entry[p].health = "Recovering" /\ entry[p].gen = g
        /\ f = [entry[p] EXCEPT !.health = "Healthy"]
    BY <1>3, <1>6 DEF MarkHealthyIfGeneration, HealthyIfGenerationOK, PlaneEntry
  <2>2. /\ Agreement!Reached(entry[Other(p)], g, "Recovering")
        /\ s = "S" => (entry[Other(p)].gen = g => entry[Other(p)].health = "Healthy")
    BY <1>1, <1>3, <1>4 DEF Told, Readmitted
  <2> HIDE DEF s, f
  <2>3. Agreement!MarkHealthyIfGeneration(entry[p], g) = f
    BY <2>1 DEF Agreement!MarkHealthyIfGeneration, Agreement!HealthyIfGenerationOK
  <2>4. Agreement!Readmit(s, 1)
    BY <1>2, <2>1, <2>2, <2>3 DEF Agreement!Readmit, Mapped
  <2> QED BY <1>2, <2>4 DEF Agreement!Next
<1> QED BY <1>5, <1>6

(* Two tables shared by any number of connections from P to Q change only  *)
(* as the agreement of the tables of a single connection allows.           *)
THEOREM SharedTablesImplementAgreement ==
    ASSUME \A k \in Conns : SenderOf[k] = "P"
    PROVE  Spec => AgreementSpec
<1>1. Init => Agreement!Init
  BY DEF Init, InitialEntry, Agreement!Init, Agreement!InitialEntry, Agreement!Sides, Procs
<1>2. Typed /\ KnownInv /\ [Next]_vars => [Agreement!Next]_Mapped
  <2> SUFFICES ASSUME Typed, KnownInv, [Next]_vars
               PROVE  Agreement!Next \/ UNCHANGED Mapped
    OBVIOUS
  <2>1. CASE UNCHANGED entry
    BY <2>1 DEF Mapped
  <2>2. CASE TableStep
    BY <2>2, LocalImplements, LearnImplements, ReadmitImplements DEF TableStep
  <2> QED BY <2>1, <2>2, NextTableStep
<1> QED BY <1>1, <1>2, KnownAlways, PTL DEF Spec, AgreementSpec, Agreement!Spec, Mapped

(* Whichever process made which connection, the generations of a shared    *)
(* table never go back, and none is ever given a second meaning.           *)
THEOREM SharedGenerationsOrdered == Spec => [][Later]_entry
<1>1. Typed /\ [Next]_vars => [Later]_entry
  BY KnownNext
<1> QED BY <1>1, KnownAlways, PTL DEF Spec
=============================================================================
