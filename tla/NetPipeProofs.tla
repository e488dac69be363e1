---------------------------- MODULE NetPipeProofs ----------------------------
(***************************************************************************)
(* A theorem about NetPipe: for any list of operations, buffers of any     *)
(* size, private or taken from a pool, what the receiving kernel reads is  *)
(* what the sending kernel wrote, each slice once and in order.            *)
(*                                                                         *)
(* The operations cut the steps of a connection into slices; both kernels  *)
(* and both proxies go through the same ones, so every counter has a place *)
(* in one numbering of them (Plan).  The invariant says how far each actor *)
(* may be ahead of the next (SendInv, RecvInv), that a buffer, a slot of a *)
(* fifo and a request belong to the slices of a window, and what they hold *)
(* of them.  It is kept because two slices of a window share neither       *)
(* buffers nor slots (WindowApart) and because the proxies, which look at  *)
(* counters the kernels advance, stop where a window does.                 *)
(***************************************************************************)
EXTENDS NetPipe, WellFoundedInduction, TLAPS

\* What the proofs ask of the constants: a ring is cut into whole slices, an
\* operation too, and no proxy has more under way than there are buffers.  If
\* data lands late, a flush waits for it.
Multiple(n, m) == \E q \in Nat : n = q * m

Configuration ==
    /\ Steps \in Nat \ {0} /\ Depth \in 1 .. Steps
    /\ Ops \in Seq([nsteps : Nat \ {0}, chunk : Nat \ {0}, slice : Nat \ {0}])
    /\ \A k \in 1 .. Len(Ops) :
          Multiple(Ops[k].nsteps, Ops[k].slice) /\ Multiple(Steps, Ops[k].slice)
    /\ Shared \in BOOLEAN /\ Late \in BOOLEAN /\ Flushes \in BOOLEAN
    /\ Late => Flushes

-----------------------------------------------------------------------------
(* The slices in order.  Slice n, which has n others before it, is of      *)
(* operation op and starts off steps into it, at the step step.  After the *)
(* last operation come slices of one step for ever.                        *)
Start(k, step) == IF k <= Len(Ops) THEN RoundUp(step, Ops[k].chunk) ELSE step

Size(s) == IF s.op <= Len(Ops) THEN Ops[s.op].slice ELSE 1

NextSlice(s) ==
    IF s.op <= Len(Ops) /\ s.off + Size(s) = Ops[s.op].nsteps
    THEN [op |-> s.op + 1, off |-> 0, step |-> Start(s.op + 1, s.step + Size(s))]
    ELSE [op |-> s.op, off |-> s.off + Size(s), step |-> s.step + Size(s)]

FirstSlice == [op |-> 1, off |-> 0, step |-> Start(1, 0)]

IsPlan(f) ==
    /\ f = [n \in Nat |-> f[n]]
    /\ f[0] = FirstSlice
    /\ \A n \in Nat : f[n + 1] = NextSlice(f[n])

Plan == CHOOSE f : IsPlan(f)

From(n) == Plan[n].step
To(n) == Plan[n].step + Size(Plan[n])

\* The buffers of a slice, at both ends.
Place(n) == IF Shared THEN {Plan[n].off % Depth} ELSE SliceAt(From(n), Size(Plan[n]))

\* n slices come before the place off of an operation k that starts at base:
\* slice n starts there, or the slice before it ends the operation there.
At(n, k, off, base) ==
    \/ Plan[n] = [op |-> k, off |-> off, step |-> base + off]
    \/ /\ n > 0 /\ k <= Len(Ops) /\ off = Ops[k].nsteps
       /\ Plan[n - 1].op = k /\ Plan[n - 1].off + Size(Plan[n - 1]) = off
       /\ To(n - 1) = base + off

OnGrid(p, off) == \E n \in Nat : At(n, p.op, off, p.base)

-----------------------------------------------------------------------------
(***************************************************************************)
(* The invariant.  The records of each end, which only they, their memory  *)
(* and the requests they have made keep in step.                           *)
(***************************************************************************)
KernelRecords ==
    [op : Nat \ {0}, done : Nat, at : {"start", "wait", "copy"}, where : SUBSET Slots,
     saw : Nat, step : Nat]

ProxyRecords ==
    [op : Nat \ {0}, posted : Nat, received : Nat, transmitted : Nat, done : Nat,
     writes : {<<>>, <<"size">>, <<"size", "head">>, <<"head">>}, base : Nat]

Requests ==
    {NoReq} \cup [kind : {"send", "recv", "flush", "complete"}, n : Nat, where : SUBSET Slots]

CallsOk == calls \in [written : Nat, send : Nat, recv : Nat]

\* The steps a proxy p has under way are those of its window.
InWindow(p, n) == From(n) >= p.base + p.done /\ From(n) < p.base + p.posted

Progressing(p) ==
    /\ p \in ProxyRecords /\ p.op <= Len(Ops) + 1
    /\ p.done <= p.transmitted /\ p.transmitted <= p.posted
    /\ IF Running(p) THEN p.posted <= NSteps(p) ELSE p.posted = 0
    /\ OnGrid(p, p.posted) /\ OnGrid(p, p.done)
    /\ p.posted <= p.done + Steps
    /\ p.posted > p.done => p.posted < p.done + Depth + Slice(p)

SendKernelInv ==
    /\ sgpu \in KernelRecords /\ stail \in Int /\ shead \in Int
    /\ Plan[calls.written] = [op |-> sgpu.op, off |-> sgpu.done, step |-> sgpu.step]
    /\ stail <= sgpu.step
    /\ \A n \in Nat : n < calls.written => To(n) <= shead + Steps
    /\ sgpu.at = "copy" =>
          /\ Running(sgpu) /\ sgpu.where = Place(calls.written)
          /\ To(calls.written) <= shead + Steps

SendProxyInv ==
    /\ Progressing(sproxy)
    /\ calls.send <= calls.written
    /\ At(calls.send, sproxy.op, sproxy.transmitted, sproxy.base)
    /\ shead <= (IF Shared THEN sproxy.base + sproxy.posted - Steps
                 ELSE sproxy.base + sproxy.done)
    /\ Shared => sproxy.writes \in {<<>>, <<"size">>}
    /\ sproxy.writes # <<>> =>
          /\ Running(sproxy) /\ sproxy.done < sproxy.transmitted
          /\ sreq[(sproxy.base + sproxy.done) % Steps].kind # "send"
          /\ ~Shared => sproxy.writes # <<"size">>

SendMemoryInv ==
    /\ sfifo \in [Slots -> [full : BOOLEAN, offset : Nat]] /\ sbuf \in [Slots -> Nat]
    /\ Shared => \A n \in Nat : InWindow(sproxy, n) =>
          sfifo[From(n) % Steps].offset = Plan[n].off % Depth
    /\ \A n \in Nat : n < calls.written /\ From(n) >= sproxy.base + sproxy.done =>
          \A b \in Place(n) : sbuf[b] = n + 1

SendRequestsInv ==
    /\ sreq \in [Slots -> Requests]
    /\ \A i \in Slots : sreq[i].kind = "send" =>
          \E n \in Nat : /\ n < calls.send /\ From(n) >= sproxy.base + sproxy.done
                         /\ i = From(n) % Steps
                         /\ sreq[i].n = n + 1 /\ sreq[i].where = Place(n)

SendInv == SendKernelInv /\ SendProxyInv /\ SendMemoryInv /\ SendRequestsInv

\* What the receiver's memory has of slice n.
Arrived(n) ==
    \A b \in Place(n) : landing[b] = n + 1 \/ (landing[b] = None /\ rbuf[b] = n + 1)

Landed(n) == \A b \in Place(n) : landing[b] = None /\ rbuf[b] = n + 1

RecvKernelInv ==
    /\ got \in Seq(Nat) /\ \A i \in 1 .. Len(got) : got[i] = i
    /\ rgpu \in KernelRecords /\ rhead \in Nat
    /\ Plan[Len(got)] = [op |-> rgpu.op, off |-> rgpu.done, step |-> rgpu.step]
    /\ IF rgpu.at = "start"
       THEN \/ Len(got) = 0 /\ rhead = 0
            \/ /\ Len(got) > 0 /\ rhead = To(Len(got) - 1) /\ Plan[Len(got) - 1].op < rgpu.op
       ELSE rhead = rgpu.step
    /\ rgpu.at = "copy" =>
          /\ Running(rgpu) /\ rgpu.where = Place(Len(got)) /\ rgpu.saw = Len(got) + 1
          /\ To(Len(got)) <= rtail

RecvProxyInv ==
    /\ Progressing(rproxy)
    /\ rproxy.transmitted <= rproxy.received /\ rproxy.received <= rproxy.posted
    /\ At(calls.recv, rproxy.op, rproxy.posted, rproxy.base)
    /\ OnGrid(rproxy, rproxy.received) /\ OnGrid(rproxy, rproxy.transmitted)
    /\ rproxy.base + rproxy.done <= rgpu.step
    /\ rtail \in Nat /\ rtail <= rproxy.base + rproxy.transmitted

\* A slice's request, while it has not been received, and while it is flushed.
Requested(n) ==
    LET r == rreq[Plan[n].off % Steps]
    IN  /\ r.kind \in {"recv", "complete"} /\ r.n = n + 1 /\ r.where = Place(n)
        /\ r.kind = "complete" => Arrived(n)

Flushing(n) ==
    LET r == rreq[Plan[n].off % Steps]
    IN  IF Late
        THEN /\ r.kind \in {"flush", "complete"} /\ r.where = Place(n)
             /\ r.kind = "complete" => Landed(n)
        ELSE r.kind = "none"

Stage(n) ==
    LET off == Plan[n].off
    IN  /\ off < rproxy.transmitted => Landed(n)
        /\ off < rproxy.received => Arrived(n)
        /\ (off >= rproxy.transmitted /\ off < rproxy.received) => Flushing(n)
        /\ off >= rproxy.received => Requested(n)

RecvMemoryInv ==
    /\ roffset \in [Slots -> Nat] /\ rbuf \in [Slots -> Nat]
    /\ landing \in [Slots -> Nat \cup {None}]
    /\ ~Late => \A b \in Slots : landing[b] = None
    /\ Shared => \A n \in Nat : InWindow(rproxy, n) =>
          roffset[From(n) % Steps] = Plan[n].off % Depth
    /\ \A n \in Nat : InWindow(rproxy, n) => Stage(n)

RecvRequestsInv ==
    /\ rreq \in [Slots -> Requests]
    /\ \A j \in Slots : rreq[j].kind = "recv" =>
          \E n \in Nat : /\ InWindow(rproxy, n) /\ Plan[n].off >= rproxy.received
                         /\ j = Plan[n].off % Steps

RecvInv == RecvKernelInv /\ RecvProxyInv /\ RecvMemoryInv /\ RecvRequestsInv

PipeInv == CallsOk /\ SendInv /\ RecvInv

-----------------------------------------------------------------------------
(* Arithmetic.  Sets of numbers that contain 0 and the successor of each   *)
(* member; remainders; multiples.                                          *)
LEMMA Naturals ==
    ASSUME NEW S, 0 \in S, \A n \in Nat : n \in S => n + 1 \in S
    PROVE  \A n \in Nat : n \in S
<1> DEFINE T == Nat \ S
<1>1. ASSUME T # {} PROVE FALSE
  <2>1. PICK x \in T : \A y \in T : <<y, x>> \notin OpToRel(<, Nat)
    <3>1. T \subseteq Nat
      OBVIOUS
    <3> HIDE DEF T
    <3> QED BY <1>1, <3>1, WFMin, NatLessThanWellFounded
  <2>2. x # 0 /\ x - 1 \in Nat /\ x - 1 < x /\ (x - 1) + 1 = x
    OBVIOUS
  <2>3. x - 1 \in T
    BY <2>2
  <2>4. <<x - 1, x>> \in OpToRel(<, Nat)
    BY <2>2 DEF OpToRel
  <2> QED BY <2>1, <2>3, <2>4
<1> QED BY <1>1

\* A remainder is below its divisor, and what it leaves is a multiple.
LEMMA Remainder ==
    ASSUME NEW M \in Nat \ {0}, NEW a \in Nat
    PROVE  a % M \in 0 .. M - 1 /\ \E q \in Nat : a = q * M + (a % M)
<1> DEFINE d == a \div M
           r == a % M
<1>1. d \in Nat /\ r \in 0 .. M - 1 /\ a = d * M + r
  OBVIOUS
<1> HIDE DEF d, r
<1>2. r \in 0 .. M - 1 /\ \E q \in Nat : a = q * M + r
  BY <1>1
<1> QED BY <1>2 DEF r

\* Numbers less than M apart have different remainders.
LEMMA RemaindersDiffer ==
    ASSUME NEW M \in Nat \ {0}, NEW a \in Nat, NEW b \in Nat, a < b, b < a + M
    PROVE  a % M # b % M
<1> SUFFICES ASSUME a % M = b % M PROVE FALSE
  OBVIOUS
<1>1. PICK q \in Nat : a = q * M + (a % M)
  BY Remainder
<1>2. PICK r \in Nat : b = r * M + (b % M)
  BY Remainder
<1>3. a % M \in 0 .. M - 1
  BY Remainder
<1> DEFINE c == a % M
<1> HIDE DEF c
<1>4. a = q * M + c /\ b = r * M + c /\ c \in 0 .. M - 1
  BY <1>1, <1>2, <1>3 DEF c
<1>5. CASE r >= q + 1
  <2>1. (r - q - 1) * M >= 0
    BY <1>5
  <2> QED BY <1>4, <2>1
<1>6. CASE r <= q
  <2>1. (q - r) * M >= 0
    BY <1>6
  <2> QED BY <1>4, <2>1
<1> QED BY <1>5, <1>6

\* Rounding up never goes back.
LEMMA RoundedUp ==
    ASSUME NEW n \in Nat, NEW m \in Nat \ {0}
    PROVE  RoundUp(n, m) \in Nat /\ RoundUp(n, m) >= n
<1> DEFINE q == (n + m - 1) \div m
           r == (n + m - 1) % m
<1>1. q \in Nat /\ r \in 0 .. m - 1 /\ n + m - 1 = q * m + r
  OBVIOUS
<1> HIDE DEF q, r
<1>2. m * q \in Nat /\ m * q >= n
  BY <1>1
<1> QED BY <1>2 DEF RoundUp, q

\* Of two multiples the greater is greater by the number at least.
LEMMA MultiplesApart ==
    ASSUME NEW m \in Nat \ {0}, NEW a \in Nat, NEW b \in Nat, Multiple(a, m), Multiple(b, m), a < b
    PROVE  a + m <= b
<1>1. PICK q \in Nat : a = q * m
  BY DEF Multiple
<1>2. PICK r \in Nat : b = r * m
  BY DEF Multiple
<1>3. CASE r >= q + 1
  <2>1. (r - q - 1) * m >= 0
    BY <1>3
  <2> QED BY <1>1, <1>2, <2>1
<1>4. CASE r <= q
  <2>1. (q - r) * m >= 0
    BY <1>4
  <2> QED BY <1>1, <1>2, <2>1
<1> QED BY <1>3, <1>4

\* Sums of multiples are multiples.
LEMMA MultiplesAdd ==
    ASSUME NEW m \in Nat \ {0}, NEW a \in Nat, NEW b \in Nat, Multiple(a, m), Multiple(b, m)
    PROVE  Multiple(a + b, m)
<1>1. PICK q \in Nat : a = q * m
  BY DEF Multiple
<1>2. PICK r \in Nat : b = r * m
  BY DEF Multiple
<1>3. a + b = (q + r) * m /\ q + r \in Nat
  BY <1>1, <1>2
<1> QED BY <1>3 DEF Multiple

\* A number and 0 are multiples of the number.
LEMMA MultipleSelf ==
    ASSUME NEW m \in Nat \ {0}
    PROVE  Multiple(m, m) /\ Multiple(0, m)
<1>1. m = 1 * m /\ 0 = 0 * m
  OBVIOUS
<1> QED BY <1>1 DEF Multiple

-----------------------------------------------------------------------------
\* The plan exists: the function of its first N slices can be extended.
LEMMA PlanExists == IsPlan(Plan)
<1> DEFINE Is(f, N) == /\ f[0] = FirstSlice
                       /\ \A n \in Nat : n < N => f[n + 1] = NextSlice(f[n])
           S == {N \in Nat : \E f : Is(f, N)}
<1>1. 0 \in S
  <2> DEFINE g == [n \in Nat |-> FirstSlice]
  <2>1. Is(g, 0)
    OBVIOUS
  <2> HIDE DEF Is, g
  <2> QED BY <2>1
<1>2. ASSUME NEW N \in Nat, N \in S PROVE N + 1 \in S
  <2>1. PICK f : Is(f, N)
    BY <1>2
  <2> DEFINE g == [n \in Nat |-> IF n <= N THEN f[n] ELSE NextSlice(f[N])]
  <2>2. \A n \in Nat : n <= N => g[n] = f[n]
    OBVIOUS
  <2>3. g[N + 1] = NextSlice(f[N])
    OBVIOUS
  <2> HIDE DEF g
  <2>4. g[0] = FirstSlice
    BY <2>1, <2>2
  <2>5. ASSUME NEW n \in Nat, n < N + 1 PROVE g[n + 1] = NextSlice(g[n])
    <3>1. CASE n < N
      <4>1. n + 1 \in Nat /\ n + 1 <= N /\ n <= N
        BY <3>1
      <4>2. g[n + 1] = f[n + 1] /\ g[n] = f[n]
        BY <2>2, <4>1
      <4>3. f[n + 1] = NextSlice(f[n])
        BY <2>1, <3>1
      <4> QED BY <4>2, <4>3
    <3>2. CASE n = N
      <4>1. g[n] = f[N]
        BY <2>2, <3>2
      <4> QED BY <2>3, <3>2, <4>1
    <3> QED BY <2>5, <3>1, <3>2
  <2>6. Is(g, N + 1)
    BY <2>4, <2>5
  <2> HIDE DEF Is
  <2> QED BY <2>6
<1>3. \A N \in Nat : \E f : Is(f, N)
  <2>1. \A N \in Nat : N \in S
    <3> HIDE DEF S
    <3> QED BY <1>1, <1>2, Naturals
  <2> HIDE DEF Is
  <2> QED BY <2>1
<1> DEFINE F(N) == CHOOSE f : Is(f, N)
           P == [n \in Nat |-> F(n)[n]]
<1>4. \A N \in Nat : Is(F(N), N)
  <2> HIDE DEF Is
  <2> QED BY <1>3
\* Two such functions agree as far as both go.
<1>5. ASSUME NEW N \in Nat PROVE F(N)[N] = F(N + 1)[N]
  <2> DEFINE f == F(N)
             g == F(N + 1)
             R == {n \in Nat : n <= N => f[n] = g[n]}
  <2>1. Is(f, N) /\ Is(g, N + 1)
    BY <1>4
  <2> HIDE DEF f, g, F
  <2>2. 0 \in R
    BY <2>1
  <2>3. ASSUME NEW n \in Nat, n \in R PROVE n + 1 \in R
    <3>1. CASE n < N
      <4>1. f[n] = g[n]
        BY <2>3, <3>1
      <4>2. f[n + 1] = NextSlice(f[n]) /\ g[n + 1] = NextSlice(g[n])
        BY <2>1, <3>1
      <4> QED BY <4>1, <4>2
    <3>2. CASE ~(n < N)
      BY <3>2
    <3> QED BY <3>1, <3>2
  <2>4. N \in R
    <3> HIDE DEF R
    <3> QED BY <2>2, <2>3, Naturals
  <2>5. f[N] = g[N]
    BY <2>4
  <2> QED BY <2>5 DEF f, g
<1>6. P[0] = FirstSlice
  <2>1. F(0)[0] = FirstSlice
    BY <1>4
  <2> HIDE DEF F
  <2> QED BY <2>1
<1>7. ASSUME NEW n \in Nat PROVE P[n + 1] = NextSlice(P[n])
  <2>1. F(n + 1)[n + 1] = NextSlice(F(n + 1)[n])
    BY <1>4
  <2> HIDE DEF F
  <2>2. P[n + 1] = F(n + 1)[n + 1] /\ P[n] = F(n)[n]
    OBVIOUS
  <2> QED BY <1>5, <2>1, <2>2
<1>8. P = [n \in Nat |-> P[n]]
  OBVIOUS
<1> HIDE DEF P
<1>9. IsPlan(P)
  BY <1>6, <1>7, <1>8 DEF IsPlan
<1> QED BY <1>9 DEF Plan

-----------------------------------------------------------------------------
(* What the plan is like.                                                  *)
SliceOk(s) ==
    /\ s \in [op : Nat \ {0}, off : Nat, step : Nat]
    /\ s.op <= Len(Ops) + 1 /\ s.off <= s.step
    /\ s.op <= Len(Ops) =>
          Multiple(s.off, Ops[s.op].slice) /\ s.off + Ops[s.op].slice <= Ops[s.op].nsteps

\* What the constants say of an operation.
LEMMA OpsOk ==
    ASSUME Configuration, NEW k \in 1 .. Len(Ops)
    PROVE  /\ Ops[k].nsteps \in Nat \ {0} /\ Ops[k].chunk \in Nat \ {0}
           /\ Ops[k].slice \in Nat \ {0} /\ Ops[k].slice <= Ops[k].nsteps
           /\ Multiple(Ops[k].nsteps, Ops[k].slice)
<1>1. /\ Ops[k].nsteps \in Nat \ {0} /\ Ops[k].chunk \in Nat \ {0}
      /\ Ops[k].slice \in Nat \ {0} /\ Multiple(Ops[k].nsteps, Ops[k].slice)
  <2> DEFINE R == [nsteps : Nat \ {0}, chunk : Nat \ {0}, slice : Nat \ {0}]
  <2>0. Ops \in Seq(R)
    BY DEF Configuration
  <2>1. Ops[k] \in R
    <3> HIDE DEF R
    <3> QED BY <2>0
  <2>2. Multiple(Ops[k].nsteps, Ops[k].slice)
    BY DEF Configuration
  <2> QED BY <2>1, <2>2
<1>2. 0 + Ops[k].slice <= Ops[k].nsteps
  BY <1>1, MultiplesApart, MultipleSelf
<1> QED BY <1>1, <1>2

\* The number of operations.
LEMMA OpsLength == Configuration => Len(Ops) \in Nat
BY DEF Configuration

\* An operation starts at its connection's step or later.
LEMMA StartOk ==
    ASSUME Configuration, NEW k \in Nat \ {0}, NEW step \in Nat
    PROVE  Start(k, step) \in Nat /\ Start(k, step) >= step
<1>1. CASE k <= Len(Ops)
  <2>1. k \in 1 .. Len(Ops) /\ Ops[k].chunk \in Nat \ {0}
    BY <1>1, OpsOk, OpsLength
  <2> QED BY <1>1, <2>1, RoundedUp DEF Start
<1>2. CASE ~(k <= Len(Ops))
  BY <1>2 DEF Start
<1> QED BY <1>1, <1>2

\* No slice is empty.
LEMMA SizeOk ==
    ASSUME Configuration, NEW s, SliceOk(s)
    PROVE  Size(s) \in Nat \ {0}
BY OpsOk, OpsLength DEF Size, SliceOk

\* The first slice is one of the first operation, or comes after all of them.
LEMMA FirstOk ==
    ASSUME Configuration
    PROVE  SliceOk(FirstSlice)
<1>1. Start(1, 0) \in Nat
  BY StartOk
<1>2. CASE 1 <= Len(Ops)
  <2>1. Multiple(0, Ops[1].slice) /\ 0 + Ops[1].slice <= Ops[1].nsteps
    BY <1>2, OpsOk, OpsLength, MultipleSelf
  <2> QED BY <1>1, <2>1, OpsLength DEF SliceOk, FirstSlice
<1>3. CASE ~(1 <= Len(Ops))
  BY <1>1, <1>3, OpsLength DEF SliceOk, FirstSlice
<1> QED BY <1>2, <1>3

\* One slice after another.
Follows(s, t) ==
    /\ s.step + Size(s) <= t.step
    /\ \/ t.op = s.op /\ t.off = s.off + Size(s) /\ t.step = s.step + Size(s)
       \/ /\ s.op <= Len(Ops) /\ t.op = s.op + 1 /\ t.off = 0
          /\ s.off + Size(s) = Ops[s.op].nsteps
          /\ t.step = Start(t.op, s.step + Size(s))

\* The slice after a slice is one, and starts where that ends or later.
LEMMA NextOk ==
    ASSUME Configuration, NEW s, SliceOk(s)
    PROVE  SliceOk(NextSlice(s)) /\ Follows(s, NextSlice(s))
<1> DEFINE z == Size(s)
<1>1. s \in [op : Nat \ {0}, off : Nat, step : Nat] /\ z \in Nat \ {0} /\ Len(Ops) \in Nat
  BY SizeOk, OpsLength DEF SliceOk
<1>2. CASE s.op <= Len(Ops) /\ s.off + z = Ops[s.op].nsteps
  <2> DEFINE t == Start(s.op + 1, s.step + z)
  <2>1. t \in Nat /\ t >= s.step + z
    <3>1. s.op + 1 \in Nat \ {0} /\ s.step + z \in Nat
      BY <1>1
    <3> HIDE DEF z
    <3> QED BY <3>1, StartOk
  <2>2. NextSlice(s) = [op |-> s.op + 1, off |-> 0, step |-> t]
    BY <1>2 DEF NextSlice
  <2>3. s.op + 1 <= Len(Ops) =>
           /\ Multiple(0, Ops[s.op + 1].slice)
           /\ 0 + Ops[s.op + 1].slice <= Ops[s.op + 1].nsteps
    <3>1. s.op + 1 <= Len(Ops) => s.op + 1 \in 1 .. Len(Ops)
      BY <1>1
    <3> QED BY <3>1, OpsOk, MultipleSelf
  <2> HIDE DEF t, z
  <2>4. SliceOk(NextSlice(s))
    BY <1>1, <1>2, <2>1, <2>2, <2>3 DEF SliceOk
  <2>5. Follows(s, NextSlice(s))
    BY <1>1, <1>2, <2>1, <2>2 DEF Follows, t, z
  <2> QED BY <2>4, <2>5
<1>3. CASE ~(s.op <= Len(Ops) /\ s.off + z = Ops[s.op].nsteps)
  <2>1. NextSlice(s) = [op |-> s.op, off |-> s.off + z, step |-> s.step + z]
    BY <1>3 DEF NextSlice
  <2>2. s.op <= Len(Ops) =>
           Multiple(s.off + z, Ops[s.op].slice) /\ s.off + z + Ops[s.op].slice <= Ops[s.op].nsteps
    <3> SUFFICES ASSUME s.op <= Len(Ops)
                 PROVE  Multiple(s.off + z, Ops[s.op].slice)
                        /\ s.off + z + Ops[s.op].slice <= Ops[s.op].nsteps
      OBVIOUS
    <3>1. /\ z = Ops[s.op].slice /\ Ops[s.op].nsteps \in Nat /\ Multiple(Ops[s.op].nsteps, z)
          /\ Multiple(s.off, z) /\ s.off + z <= Ops[s.op].nsteps
      BY <1>1, OpsOk DEF Size, SliceOk
    <3>2. Multiple(s.off + z, z)
      BY <1>1, <3>1, MultiplesAdd, MultipleSelf
    <3>3. s.off + z < Ops[s.op].nsteps
      BY <1>1, <1>3, <3>1
    <3> HIDE DEF z
    <3>4. s.off + z + z <= Ops[s.op].nsteps
      BY <1>1, <3>1, <3>2, <3>3, MultiplesApart
    <3> QED BY <3>1, <3>2, <3>4
  <2>3. Follows(s, NextSlice(s))
    BY <1>1, <2>1 DEF Follows
  <2> HIDE DEF z
  <2>4. SliceOk(NextSlice(s))
    BY <1>1, <2>1, <2>2 DEF SliceOk
  <2> QED BY <2>3, <2>4
<1> QED BY <1>2, <1>3

\* Every slice of the plan is one and is followed by the next.
LEMMA PlanOk ==
    ASSUME Configuration
    PROVE  \A n \in Nat : SliceOk(Plan[n]) /\ Follows(Plan[n], Plan[n + 1])
<1> DEFINE S == {n \in Nat : SliceOk(Plan[n])}
<1>0. Plan[0] = FirstSlice /\ \A n \in Nat : Plan[n + 1] = NextSlice(Plan[n])
  BY PlanExists DEF IsPlan
<1>1. 0 \in S
  BY <1>0, FirstOk
<1>2. ASSUME NEW n \in Nat, n \in S PROVE n + 1 \in S
  BY <1>0, <1>2, NextOk
<1>3. \A n \in Nat : n \in S
  <2> HIDE DEF S
  <2> QED BY <1>1, <1>2, Naturals
<1>4. \A n \in Nat : SliceOk(Plan[n])
  BY <1>3
<1> QED BY <1>0, <1>4, NextOk

\* From and To of the slices.
LEMMA PlanTypes ==
    ASSUME Configuration, NEW n \in Nat
    PROVE  /\ Plan[n] \in [op : Nat \ {0}, off : Nat, step : Nat]
           /\ Plan[n].op <= Len(Ops) + 1 /\ Plan[n].off <= From(n)
           /\ From(n) \in Nat /\ From(n) = Plan[n].step
           /\ Size(Plan[n]) \in Nat \ {0} /\ To(n) = From(n) + Size(Plan[n])
           /\ To(n) \in Nat
           /\ Plan[n].op <= Len(Ops) =>
                 /\ Size(Plan[n]) = Ops[Plan[n].op].slice
                 /\ Multiple(Plan[n].off, Size(Plan[n]))
                 /\ Plan[n].off + Size(Plan[n]) <= Ops[Plan[n].op].nsteps
<1>1. SliceOk(Plan[n])
  BY PlanOk
<1>2. Size(Plan[n]) \in Nat \ {0}
  BY <1>1, SizeOk
<1> QED BY <1>1, <1>2 DEF SliceOk, From, To, Size

\* What is counted of a slice is a number.
LEMMA PlanNumbers ==
    ASSUME Configuration
    PROVE  \A n \in Nat :
              /\ From(n) \in Nat /\ To(n) \in Nat /\ From(n) < To(n)
              /\ Plan[n].op \in Nat /\ Plan[n].off \in Nat
              /\ Plan[n].op <= Len(Ops) => Ops[Plan[n].op].nsteps \in Nat
<1> TAKE n \in Nat
<1>1. /\ Plan[n].op \in Nat \ {0} /\ Plan[n].off \in Nat /\ From(n) \in Nat
      /\ Size(Plan[n]) \in Nat \ {0} /\ To(n) = From(n) + Size(Plan[n])
  BY PlanTypes
<1>2. Plan[n].op <= Len(Ops) => Ops[Plan[n].op].nsteps \in Nat
  BY <1>1, OpsOk, OpsLength
<1> QED BY <1>1, <1>2

\* A slice and any of those after it: they do not overlap; two of one operation
\* are as far apart as their places in it; operations do not overlap.
After(n, m) ==
    /\ To(n) <= From(m)
    /\ \/ Plan[m].op = Plan[n].op /\ From(m) - Plan[m].off = From(n) - Plan[n].off
       \/ /\ Plan[n].op < Plan[m].op /\ Plan[n].op <= Len(Ops)
          /\ From(n) - Plan[n].off + Ops[Plan[n].op].nsteps <= From(m) - Plan[m].off

\* A slice starts where the one before it ends, in its operation or a later one.
LEMMA NextAfter ==
    ASSUME Configuration, NEW n \in Nat
    PROVE  After(n, n + 1)
<1>1. Follows(Plan[n], Plan[n + 1]) /\ n + 1 \in Nat
  BY PlanOk
<1>2. To(n) <= From(n + 1)
  BY <1>1 DEF Follows, To, From
<1>3. CASE Plan[n + 1].op = Plan[n].op
  <2>1. Plan[n + 1].off = Plan[n].off + Size(Plan[n])
        /\ Plan[n + 1].step = Plan[n].step + Size(Plan[n])
    <3>1. Plan[n].op \in Nat
      BY PlanTypes
    <3> QED BY <1>1, <1>3, <3>1 DEF Follows
  <2>2. /\ Size(Plan[n]) \in Nat /\ Plan[n].step \in Nat /\ Plan[n].off \in Nat
    BY PlanTypes
  <2>3. From(n + 1) - Plan[n + 1].off = From(n) - Plan[n].off
    BY <2>1, <2>2 DEF From
  <2> QED BY <1>2, <1>3, <2>3 DEF After
<1>4. CASE Plan[n + 1].op # Plan[n].op
  <2>1. /\ Plan[n].op <= Len(Ops) /\ Plan[n + 1].op = Plan[n].op + 1 /\ Plan[n + 1].off = 0
        /\ Plan[n].off + Size(Plan[n]) = Ops[Plan[n].op].nsteps
    BY <1>1, <1>4 DEF Follows
  <2>2. /\ To(n) = From(n) + Size(Plan[n]) /\ Size(Plan[n]) \in Nat /\ From(n) \in Nat
        /\ Plan[n].off \in Nat /\ Plan[n].op \in Nat /\ From(n + 1) \in Nat
    BY <1>1, PlanTypes
  <2> QED BY <1>2, <2>1, <2>2 DEF After
<1> QED BY <1>3, <1>4

\* So does every slice after it.
LEMMA AfterAll ==
    ASSUME Configuration, NEW n \in Nat
    PROVE  \A m \in Nat : n < m => After(n, m)
<1> DEFINE S == {m \in Nat : n < m => After(n, m)}
<1>1. 0 \in S
  OBVIOUS
<1>2. ASSUME NEW m \in Nat, m \in S PROVE m + 1 \in S
  <2>1. CASE n < m
    <3>0. m + 1 \in Nat
      OBVIOUS
    <3>1. After(n, m) /\ After(m, m + 1)
      BY <1>2, <2>1, NextAfter
    <3>2. From(n) \in Nat /\ To(n) \in Nat /\ Plan[n].off \in Nat /\ Plan[n].op \in Nat
      BY PlanNumbers
    <3>9. /\ Plan[n].op <= Len(Ops) => Ops[Plan[n].op].nsteps \in Nat
      BY PlanNumbers
    <3>3. /\ From(m) \in Nat /\ To(m) \in Nat /\ Plan[m].off \in Nat /\ Plan[m].op \in Nat
          /\ From(m) < To(m)
      BY PlanNumbers
    <3>10. /\ Plan[m].op <= Len(Ops) => Ops[Plan[m].op].nsteps \in Nat
      BY PlanNumbers
    <3>4. /\ From(m + 1) \in Nat /\ Plan[m + 1].off \in Nat /\ Plan[m + 1].op \in Nat
      BY <3>0, PlanNumbers
    <3>5. To(n) <= From(m + 1)
      BY <3>1, <3>2, <3>3, <3>4 DEF After
    <3>6. CASE Plan[m].op = Plan[n].op
      <4>1. From(m) - Plan[m].off = From(n) - Plan[n].off
        BY <3>1, <3>2, <3>6 DEF After
      <4> QED BY <3>1, <3>2, <3>3, <3>4, <3>5, <3>6, <4>1 DEF After
    <3>7. CASE Plan[n].op < Plan[m].op
      <4>1. /\ Plan[n].op <= Len(Ops)
            /\ From(n) - Plan[n].off + Ops[Plan[n].op].nsteps <= From(m) - Plan[m].off
        BY <3>1, <3>2, <3>3, <3>7 DEF After
      <4>2. CASE Plan[m + 1].op = Plan[m].op
        <5>1. From(m + 1) - Plan[m + 1].off = From(m) - Plan[m].off
          BY <3>1, <3>3, <3>4, <4>2 DEF After
        <5>2. /\ Plan[n].op < Plan[m + 1].op
              /\ From(n) - Plan[n].off + Ops[Plan[n].op].nsteps
                    <= From(m + 1) - Plan[m + 1].off
          BY <3>7, <4>1, <4>2, <5>1
        <5>3. ~(Plan[m + 1].op = Plan[n].op)
          BY <3>2, <3>4, <5>2
        <5> QED BY <3>5, <4>1, <5>2, <5>3 DEF After
      <4>3. CASE Plan[m].op < Plan[m + 1].op
        <5>1. /\ Plan[m].op <= Len(Ops)
              /\ From(m) - Plan[m].off + Ops[Plan[m].op].nsteps <= From(m + 1) - Plan[m + 1].off
          BY <3>1, <3>3, <3>4, <4>3 DEF After
        <5>2. From(n) - Plan[n].off + Ops[Plan[n].op].nsteps <= From(m + 1) - Plan[m + 1].off
          <6>1. Ops[Plan[n].op].nsteps \in Nat /\ Ops[Plan[m].op].nsteps \in Nat
            BY <3>9, <3>10, <4>1, <5>1
          <6> DEFINE v == Ops[Plan[n].op].nsteps
                     w == Ops[Plan[m].op].nsteps
                     a == From(n) - Plan[n].off
                     b == From(m) - Plan[m].off
                     c == From(m + 1) - Plan[m + 1].off
          <6>2. a \in Int /\ b \in Int /\ c \in Int
            BY <3>2, <3>3, <3>4
          <6>3. v \in Nat /\ w \in Nat /\ a + v <= b /\ b + w <= c
            BY <4>1, <5>1, <6>1
          <6> HIDE DEF v, w, a, b, c
          <6>4. a + v <= c
            BY <6>2, <6>3
          <6> QED BY <6>4 DEF v, a, c
        <5>3. Plan[n].op < Plan[m + 1].op
          BY <3>2, <3>3, <3>4, <3>7, <4>3
        <5> QED BY <3>5, <4>1, <5>2, <5>3 DEF After
      <4> QED BY <3>1, <4>2, <4>3 DEF After
    <3>8. CASE ~(Plan[m].op = Plan[n].op)
      <4>1. Plan[n].op < Plan[m].op
        BY <3>1, <3>8 DEF After
      <4> QED BY <3>7, <4>1
    <3> QED BY <3>6, <3>8
  <2>2. CASE n = m
    BY <2>2, NextAfter
  <2> QED BY <2>1, <2>2
<1>3. \A m \in Nat : m \in S
  <2> HIDE DEF S
  <2> QED BY <1>1, <1>2, Naturals
<1> QED BY <1>3

\* Slices do not overlap: the numbering is the order of the steps.
LEMMA Ascending ==
    ASSUME Configuration, NEW n \in Nat, NEW m \in Nat
    PROVE  /\ n < m => To(n) <= From(m) /\ From(n) < From(m)
           /\ n <= m => From(n) <= From(m)
           /\ From(n) = From(m) => n = m
<1>1. /\ From(n) \in Nat /\ To(n) \in Nat /\ From(m) \in Nat /\ To(m) \in Nat
      /\ From(n) < To(n) /\ From(m) < To(m)
  BY PlanNumbers
<1>2. n < m => To(n) <= From(m)
  BY AfterAll DEF After
<1>3. m < n => To(m) <= From(n)
  BY AfterAll DEF After
<1> QED BY <1>1, <1>2, <1>3

\* Two slices of one operation at the same place are the same.
LEMMA SamePlace ==
    ASSUME Configuration, NEW n \in Nat, NEW m \in Nat, Plan[n].op = Plan[m].op
    PROVE  /\ From(n) - Plan[n].off = From(m) - Plan[m].off
           /\ Plan[n].off = Plan[m].off => n = m
<1>1. /\ From(n) \in Nat /\ From(m) \in Nat /\ Plan[n].off \in Nat /\ Plan[m].off \in Nat
      /\ Plan[n].op \in Nat
  BY PlanTypes
<1>2. From(n) - Plan[n].off = From(m) - Plan[m].off
  <2>1. CASE n < m
    BY <1>1, <2>1, AfterAll DEF After
  <2>2. CASE m < n
    BY <1>1, <2>2, AfterAll DEF After
  <2>3. CASE n = m
    BY <2>3
  <2> QED BY <2>1, <2>2, <2>3
<1>3. Plan[n].off = Plan[m].off => From(n) = From(m)
  BY <1>1, <1>2
<1> QED BY <1>2, <1>3, Ascending

-----------------------------------------------------------------------------
(* Places between slices.  The n slices before a place end there, the      *)
(* others start there or later.                                            *)
LEMMA AtCut ==
    ASSUME Configuration, NEW n \in Nat, NEW k, NEW off \in Nat, NEW base \in Nat,
           At(n, k, off, base)
    PROVE  \A m \in Nat : /\ m >= n => From(m) >= base + off
                          /\ m < n => To(m) <= base + off /\ From(m) < base + off
<1> SUFFICES ASSUME NEW m \in Nat
             PROVE  /\ m >= n => From(m) >= base + off
                    /\ m < n => To(m) <= base + off /\ From(m) < base + off
  OBVIOUS
<1>1. From(m) \in Nat /\ To(m) \in Nat /\ From(m) < To(m)
  BY PlanNumbers
<1>2. CASE Plan[n] = [op |-> k, off |-> off, step |-> base + off]
  <2>1. From(n) = base + off
    BY <1>2 DEF From
  <2>2. m >= n => From(n) <= From(m)
    BY Ascending
  <2>3. m < n => To(m) <= From(n)
    BY Ascending
  <2> QED BY <1>1, <2>1, <2>2, <2>3
<1>3. CASE n > 0 /\ To(n - 1) = base + off
  <2>1. n - 1 \in Nat
    BY <1>3
  <2>2. From(n - 1) \in Nat /\ From(n - 1) < To(n - 1)
    BY <2>1, PlanNumbers
  <2>3. n - 1 < m => To(n - 1) <= From(m)
    BY <2>1, Ascending
  <2>4. m < n - 1 => To(m) <= From(n - 1)
    BY <2>1, Ascending
  <2>5. CASE m >= n
    BY <1>1, <1>3, <2>3, <2>5
  <2>6. CASE m < n - 1
    BY <1>1, <1>3, <2>2, <2>4, <2>6
  <2>7. CASE m = n - 1
    BY <1>1, <1>3, <2>7
  <2> QED BY <2>5, <2>6, <2>7
<1> QED BY <1>2, <1>3 DEF At

\* At a place of an operation that is not its end a slice starts.
LEMMA AtSlice ==
    ASSUME Configuration, NEW n \in Nat, NEW k \in 1 .. Len(Ops), NEW off \in Nat,
           NEW base \in Nat, At(n, k, off, base)
    PROVE  /\ off <= Ops[k].nsteps /\ Multiple(off, Ops[k].slice)
           /\ off < Ops[k].nsteps => /\ Plan[n] = [op |-> k, off |-> off, step |-> base + off]
                                     /\ off + Ops[k].slice <= Ops[k].nsteps
                                     /\ Size(Plan[n]) = Ops[k].slice
<1>0. k \in Nat /\ k <= Len(Ops) /\ Ops[k].nsteps \in Nat /\ Ops[k].slice \in Nat \ {0}
  BY OpsOk, OpsLength
<1>1. CASE Plan[n] = [op |-> k, off |-> off, step |-> base + off]
  <2>1. /\ Size(Plan[n]) = Ops[k].slice /\ Multiple(off, Size(Plan[n]))
        /\ off + Size(Plan[n]) <= Ops[k].nsteps
    <3>1. Plan[n].op = k /\ Plan[n].off = off
      BY <1>1
    <3>2. /\ Plan[n].op <= Len(Ops) =>
                /\ Size(Plan[n]) = Ops[Plan[n].op].slice /\ Multiple(Plan[n].off, Size(Plan[n]))
                /\ Plan[n].off + Size(Plan[n]) <= Ops[Plan[n].op].nsteps
      BY PlanTypes
    <3> QED BY <1>0, <3>1, <3>2
  <2> QED BY <1>0, <1>1, <2>1
<1>2. CASE off = Ops[k].nsteps
  BY <1>0, <1>2, OpsOk
<1> QED BY <1>1, <1>2 DEF At

\* One slice on from the place where a slice starts.
LEMMA AtNext ==
    ASSUME Configuration, NEW n \in Nat, NEW k \in 1 .. Len(Ops), NEW off \in Nat,
           NEW base \in Nat, At(n, k, off, base), off < Ops[k].nsteps
    PROVE  At(n + 1, k, off + Ops[k].slice, base)
<1> DEFINE z == Ops[k].slice
<1>1. /\ k \in Nat /\ k <= Len(Ops) /\ Ops[k].nsteps \in Nat /\ z \in Nat \ {0}
  BY OpsOk, OpsLength
<1>2. /\ Plan[n] = [op |-> k, off |-> off, step |-> base + off] /\ off + z <= Ops[k].nsteps
      /\ Size(Plan[n]) = z
  BY AtSlice
<1>3. Follows(Plan[n], Plan[n + 1])
  BY PlanOk
<1>4. CASE off + z = Ops[k].nsteps
  <2>1. To(n) = base + (off + z) /\ Plan[n].op = k /\ Plan[n].off + Size(Plan[n]) = off + z
    BY <1>1, <1>2 DEF To
  <2>2. n + 1 > 0 /\ (n + 1) - 1 = n
    OBVIOUS
  <2> HIDE DEF z
  <2> QED BY <1>1, <1>4, <2>1, <2>2 DEF At, z
<1>5. CASE off + z < Ops[k].nsteps
  <2>1. /\ Plan[n + 1].op = k /\ Plan[n + 1].off = off + z /\ Plan[n + 1].step = base + (off + z)
    BY <1>1, <1>2, <1>3, <1>5 DEF Follows
  <2>2. Plan[n + 1] \in [op : Nat \ {0}, off : Nat, step : Nat]
    <3>1. n + 1 \in Nat
      OBVIOUS
    <3> QED BY <3>1, PlanTypes
  <2> HIDE DEF z
  <2>3. Plan[n + 1] = [op |-> k, off |-> off + z, step |-> base + (off + z)]
    BY <2>1, <2>2
  <2>4. At(n + 1, k, off + z, base)
    BY <2>3 DEF At
  <2> QED BY <2>4 DEF z
<1>6. off + z = Ops[k].nsteps \/ off + z < Ops[k].nsteps
  BY <1>1, <1>2
<1> QED BY <1>4, <1>5, <1>6

\* The end of an operation is where the next starts.
LEMMA AtWrap ==
    ASSUME Configuration, NEW n \in Nat, NEW k \in 1 .. Len(Ops), NEW base \in Nat,
           At(n, k, Ops[k].nsteps, base)
    PROVE  /\ Start(k + 1, base + Ops[k].nsteps) \in Nat
           /\ Start(k + 1, base + Ops[k].nsteps) >= base + Ops[k].nsteps
           /\ From(n) = Start(k + 1, base + Ops[k].nsteps)
           /\ At(n, k + 1, 0, Start(k + 1, base + Ops[k].nsteps))
<1> DEFINE e == Ops[k].nsteps
           t == Start(k + 1, base + e)
<1>1. k \in Nat /\ k <= Len(Ops) /\ e \in Nat /\ Ops[k].slice \in Nat \ {0}
  BY OpsOk, OpsLength
<1>2. t \in Nat /\ t >= base + e
  <2>1. k + 1 \in Nat \ {0} /\ base + e \in Nat
    BY <1>1
  <2> QED BY <2>1, StartOk
<1>3. Plan[n] # [op |-> k, off |-> e, step |-> base + e]
  <2> SUFFICES ASSUME Plan[n] = [op |-> k, off |-> e, step |-> base + e] PROVE FALSE
    OBVIOUS
  <2>0. Plan[n].op = k /\ Plan[n].off = e
    OBVIOUS
  <2>1. Size(Plan[n]) = Ops[k].slice /\ e + Size(Plan[n]) <= e
    BY <1>1, <2>0, PlanTypes
  <2> QED BY <1>1, <2>1
<1>4. /\ n > 0 /\ Plan[n - 1].op = k /\ Plan[n - 1].off + Size(Plan[n - 1]) = e
      /\ To(n - 1) = base + e
  BY <1>3 DEF At
<1>5. n - 1 \in Nat /\ (n - 1) + 1 = n
  BY <1>4
<1>6. Plan[n] = NextSlice(Plan[n - 1])
  BY <1>5, PlanExists DEF IsPlan
<1>7. Plan[n] = [op |-> k + 1, off |-> 0, step |-> t]
  BY <1>1, <1>4, <1>6 DEF NextSlice, To
<1>8. t = t + 0
  BY <1>2
<1> HIDE DEF t
<1>9. From(n) = t /\ At(n, k + 1, 0, t)
  BY <1>7, <1>8 DEF At, From
<1> QED BY <1>2, <1>9 DEF t

\* The slices within an operation, from any place of it.
LEMMA InOperation ==
    ASSUME Configuration, NEW n \in Nat, NEW k \in 1 .. Len(Ops), NEW off \in Nat,
           NEW base \in Nat, At(n, k, off, base),
           NEW m \in Nat, base <= From(m), From(m) < base + Ops[k].nsteps
    PROVE  /\ Plan[m] = [op |-> k, off |-> From(m) - base, step |-> From(m)]
           /\ Size(Plan[m]) = Ops[k].slice /\ To(m) = From(m) + Ops[k].slice
           /\ Multiple(From(m) - base, Ops[k].slice)
           /\ From(m) - base + Ops[k].slice <= Ops[k].nsteps
<1>1. k \in Nat /\ k <= Len(Ops) /\ Ops[k].nsteps \in Nat /\ Ops[k].slice \in Nat \ {0}
  BY OpsOk, OpsLength
<1>2. PICK a \in Nat : Plan[a].op = k /\ From(a) - Plan[a].off = base
  <2>1. CASE Plan[n] = [op |-> k, off |-> off, step |-> base + off]
    <3>1. Plan[n].op = k /\ From(n) - Plan[n].off = base
      BY <2>1 DEF From
    <3> QED BY <3>1
  <2>2. CASE /\ n > 0 /\ off = Ops[k].nsteps
             /\ Plan[n - 1].op = k /\ Plan[n - 1].off + Size(Plan[n - 1]) = off
             /\ To(n - 1) = base + off
    <3>1. n - 1 \in Nat
      BY <2>2
    <3>2. /\ From(n - 1) \in Nat /\ Plan[n - 1].off \in Nat /\ Size(Plan[n - 1]) \in Nat
          /\ To(n - 1) = From(n - 1) + Size(Plan[n - 1])
      BY <3>1, PlanTypes
    <3>3. From(n - 1) - Plan[n - 1].off = base
      <4>1. Plan[n - 1].off + Size(Plan[n - 1]) = off /\ To(n - 1) = base + off
        BY <2>2
      <4> QED BY <3>2, <4>1
    <3> QED BY <2>2, <3>1, <3>3
  <2> QED BY <2>1, <2>2 DEF At
<1>3. /\ From(a) \in Nat /\ Plan[a].off \in Nat
  BY PlanNumbers
<1>4. /\ From(m) \in Nat /\ Plan[m].off \in Nat /\ Plan[m].op \in Nat /\ Plan[m].off <= From(m)
      /\ Plan[m] \in [op : Nat \ {0}, off : Nat, step : Nat] /\ From(m) = Plan[m].step
  BY PlanTypes
<1>5. Plan[m].op = k
  <2>1. CASE a < m
    <3>1. After(a, m)
      BY <2>1, AfterAll
    <3>2. CASE ~(Plan[m].op = k)
      <4>1. base + Ops[k].nsteps <= From(m) - Plan[m].off
        BY <1>2, <3>1, <3>2 DEF After
      <4>2. From(m) \in Nat /\ Plan[m].off \in Nat
        BY <1>4
      <4> DEFINE f == From(m)
                 o == Plan[m].off
                 v == Ops[k].nsteps
      <4>3. f \in Nat /\ o \in Nat /\ v \in Nat /\ f < base + v /\ base + v <= f - o
        BY <1>1, <4>1, <4>2
      <4> HIDE DEF f, o, v
      <4> QED BY <4>3
    <3> QED BY <3>2
  <2>2. CASE m < a
    <3>1. After(m, a)
      BY <2>2, AfterAll
    <3>2. CASE ~(Plan[m].op = k)
      <4>1. /\ Plan[m].op <= Len(Ops)
            /\ From(m) - Plan[m].off + Ops[Plan[m].op].nsteps <= base
        BY <1>2, <3>1, <3>2 DEF After
      <4>2. /\ Size(Plan[m]) \in Nat \ {0} /\ Plan[m].off + Size(Plan[m]) <= Ops[Plan[m].op].nsteps
            /\ Ops[Plan[m].op].nsteps \in Nat
        BY <4>1, PlanTypes, PlanNumbers
      <4> DEFINE v == Ops[Plan[m].op].nsteps
                 z == Size(Plan[m])
      <4>3. v \in Nat /\ z \in Nat \ {0} /\ Plan[m].off + z <= v /\ From(m) - Plan[m].off + v <= base
        BY <4>1, <4>2
      <4>4. From(m) \in Nat /\ Plan[m].off \in Nat
        BY <1>4
      <4> HIDE DEF v, z
      <4> DEFINE f == From(m)
                 o == Plan[m].off
      <4>5. f \in Nat /\ o \in Nat /\ base <= f /\ o + z <= v /\ f - o + v <= base
        BY <4>3, <4>4
      <4> HIDE DEF f, o
      <4> QED BY <4>3, <4>5
    <3> QED BY <3>2
  <2>3. CASE a = m
    BY <1>2, <2>3
  <2> QED BY <2>1, <2>2, <2>3
<1>6. From(m) - Plan[m].off = base
  BY <1>2, <1>5, SamePlace
<1>7. Plan[m].off = From(m) - base
  BY <1>3, <1>4, <1>6
<1>8. /\ Size(Plan[m]) = Ops[k].slice /\ To(m) = From(m) + Size(Plan[m])
      /\ Multiple(Plan[m].off, Size(Plan[m])) /\ Plan[m].off + Size(Plan[m]) <= Ops[k].nsteps
  BY <1>1, <1>5, PlanTypes
<1> QED BY <1>4, <1>5, <1>7, <1>8

-----------------------------------------------------------------------------
(* The buffers of slices.                                                  *)
LEMMA PlaceOk ==
    ASSUME Configuration, NEW n \in Nat
    PROVE  Place(n) \in SUBSET Slots /\ Place(n) # {}
<1>1. /\ Plan[n].off \in Nat /\ From(n) \in Nat /\ Size(Plan[n]) \in Nat \ {0}
  BY PlanTypes
<1>2. Steps \in Nat \ {0} /\ Depth \in Nat \ {0} /\ Depth <= Steps
  BY DEF Configuration
<1>3. CASE Shared
  <2>1. Plan[n].off % Depth \in 0 .. Depth - 1
    BY <1>1, <1>2, Remainder
  <2> QED BY <1>2, <1>3, <2>1 DEF Place, Slots
<1>4. CASE ~Shared
  <2>1. \A i \in 0 .. Size(Plan[n]) - 1 : (From(n) + i) % Steps \in Slots
    <3> TAKE i \in 0 .. Size(Plan[n]) - 1
    <3>1. From(n) + i \in Nat
      BY <1>1
    <3> QED BY <1>2, <3>1, Remainder DEF Slots
  <2>2. (From(n) + 0) % Steps \in SliceAt(From(n), Size(Plan[n]))
    BY <1>1 DEF SliceAt
  <2> QED BY <1>4, <2>1, <2>2 DEF Place, SliceAt
<1> QED BY <1>3, <1>4

\* What a slice's buffers hold is what all of them hold.
LEMMA ContentOf ==
    ASSUME Configuration, NEW n \in Nat, NEW buf, NEW v, \A b \in Place(n) : buf[b] = v
    PROVE  Content(buf, Place(n)) = v
<1>1. PICK c : c \in Place(n)
  BY PlaceOk
<1>2. (CHOOSE b \in Place(n) : TRUE) \in Place(n)
  BY <1>1
<1> QED BY <1>2 DEF Content

\* In the ring two slices that are less than a round apart.
LEMMA RingApart ==
    ASSUME Configuration, ~Shared, NEW n \in Nat, NEW m \in Nat, n < m, To(m) <= From(n) + Steps
    PROVE  Place(n) \cap Place(m) = {}
<1> SUFFICES ASSUME NEW b, b \in Place(n), b \in Place(m) PROVE FALSE
  OBVIOUS
<1>1. /\ From(n) \in Nat /\ Size(Plan[n]) \in Nat \ {0} /\ To(n) = From(n) + Size(Plan[n])
  BY PlanTypes
<1>2. /\ From(m) \in Nat /\ Size(Plan[m]) \in Nat \ {0} /\ To(m) = From(m) + Size(Plan[m])
  BY PlanTypes
<1>3. PICK i \in 0 .. Size(Plan[n]) - 1 : b = (From(n) + i) % Steps
  BY DEF Place, SliceAt
<1>4. PICK j \in 0 .. Size(Plan[m]) - 1 : b = (From(m) + j) % Steps
  BY DEF Place, SliceAt
<1>5. To(n) <= From(m)
  BY Ascending
<1>6. Steps \in Nat \ {0}
  BY DEF Configuration
<1> DEFINE x == From(n) + i
           y == From(m) + j
<1>7. x \in Nat /\ y \in Nat /\ x < y /\ y < x + Steps
  BY <1>1, <1>2, <1>5, <1>6
<1> HIDE DEF x, y
<1>8. x % Steps # y % Steps
  BY <1>6, <1>7, RemaindersDiffer
<1> QED BY <1>3, <1>4, <1>8 DEF x, y

\* In the pool two places of one operation that are less than Depth apart.
LEMMA PoolApart ==
    ASSUME Configuration, Shared, NEW n \in Nat, NEW m \in Nat,
           Plan[n].off < Plan[m].off, Plan[m].off < Plan[n].off + Depth
    PROVE  Place(n) \cap Place(m) = {}
<1>1. Plan[n].off \in Nat /\ Plan[m].off \in Nat
  BY PlanNumbers
<1>2. Depth \in Nat \ {0}
  BY DEF Configuration
<1>3. Plan[n].off % Depth # Plan[m].off % Depth
  BY <1>1, <1>2, RemaindersDiffer
<1> QED BY <1>3 DEF Place

\* The slices of a proxy's window are of its operation, below what it has posted.
LEMMA WindowOk ==
    ASSUME Configuration, NEW p, Progressing(p), NEW n \in Nat, InWindow(p, n)
    PROVE  /\ Running(p) /\ p.op \in 1 .. Len(Ops)
           /\ Plan[n].op = p.op /\ Plan[n].off \in Nat /\ From(n) = p.base + Plan[n].off
           /\ Plan[n] = [op |-> p.op, off |-> From(n) - p.base, step |-> From(n)]
           /\ p.done <= Plan[n].off /\ Plan[n].off < p.posted
           /\ Size(Plan[n]) = Slice(p) /\ Slice(p) \in Nat \ {0}
           /\ To(n) = From(n) + Slice(p)
           /\ Plan[n].off + Slice(p) <= p.posted /\ To(n) <= p.base + p.posted
           /\ Multiple(Plan[n].off, Slice(p))
<1>1. /\ p.op \in Nat \ {0} /\ p.base \in Nat /\ p.done \in Nat /\ p.posted \in Nat
      /\ Len(Ops) \in Nat
  BY OpsLength DEF Progressing, ProxyRecords
<1>2. From(n) \in Nat /\ p.base + p.done <= From(n) /\ From(n) < p.base + p.posted
  BY PlanNumbers DEF InWindow
<1>3. Running(p) /\ p.posted <= NSteps(p)
  BY <1>1, <1>2 DEF Progressing
<1>4. p.op \in 1 .. Len(Ops)
  BY <1>1, <1>3 DEF Running
<1>5. Slice(p) \in Nat \ {0} /\ NSteps(p) \in Nat
  BY <1>4, OpsOk DEF Slice, NSteps
<1>6. PICK e \in Nat : At(e, p.op, p.posted, p.base)
  BY DEF Progressing, OnGrid
<1>7. /\ Plan[n] = [op |-> p.op, off |-> From(n) - p.base, step |-> From(n)]
      /\ Size(Plan[n]) = Slice(p) /\ To(n) = From(n) + Slice(p)
      /\ Multiple(From(n) - p.base, Slice(p))
  <2>1. p.base <= From(n) /\ From(n) < p.base + Ops[p.op].nsteps
    BY <1>1, <1>2, <1>3, <1>5 DEF NSteps
  <2>2. p.posted \in Nat /\ p.base \in Nat
    BY <1>1
  <2>3. /\ Plan[n] = [op |-> p.op, off |-> From(n) - p.base, step |-> From(n)]
        /\ Size(Plan[n]) = Ops[p.op].slice /\ To(n) = From(n) + Ops[p.op].slice
        /\ Multiple(From(n) - p.base, Ops[p.op].slice)
    BY <1>4, <1>6, <2>1, <2>2, InOperation
  <2> QED BY <2>3 DEF Slice
<1>8. To(n) <= p.base + p.posted
  <2>0. p.posted \in Nat /\ p.base \in Nat
    BY <1>1
  <2>1. /\ n >= e => From(n) >= p.base + p.posted
        /\ n < e => To(n) <= p.base + p.posted
    BY <1>6, <2>0, AtCut
  <2> QED BY <1>1, <1>2, <2>1
<1>9. Plan[n].op = p.op /\ Plan[n].off = From(n) - p.base
  BY <1>7
<1>10. /\ Plan[n].off \in Nat /\ From(n) = p.base + Plan[n].off
       /\ p.done <= Plan[n].off /\ Plan[n].off < p.posted
  BY <1>1, <1>2, <1>9
<1>11. Plan[n].off + Slice(p) <= p.posted
  BY <1>1, <1>5, <1>7, <1>8, <1>10
<1>12. Multiple(Plan[n].off, Slice(p))
  BY <1>7, <1>9
<1> QED BY <1>3, <1>4, <1>5, <1>7, <1>8, <1>9, <1>10, <1>11, <1>12

\* They have buffers and slots of their own.
LEMMA WindowApart ==
    ASSUME Configuration, NEW p, Progressing(p), NEW n \in Nat, NEW m \in Nat,
           InWindow(p, n), InWindow(p, m), n # m
    PROVE  /\ Plan[n].off # Plan[m].off
           /\ Place(n) \cap Place(m) = {}
           /\ From(n) % Steps # From(m) % Steps
           /\ Plan[n].off % Steps # Plan[m].off % Steps
<1> SUFFICES ASSUME NEW x \in Nat, NEW y \in Nat, InWindow(p, x), InWindow(p, y), x < y
             PROVE  /\ Plan[x].off # Plan[y].off
                    /\ Place(x) \cap Place(y) = {}
                    /\ From(x) % Steps # From(y) % Steps
                    /\ Plan[x].off % Steps # Plan[y].off % Steps
  <2>1. CASE n < m
    BY <2>1
  <2>2. CASE m < n
    BY <2>2
  <2> QED BY <2>1, <2>2
<1>1. /\ p.base \in Nat /\ p.done \in Nat /\ p.posted \in Nat /\ p.posted <= p.done + Steps
  BY DEF Progressing, ProxyRecords
<1>2. p.posted > p.done => p.posted < p.done + Depth + Slice(p)
  BY DEF Progressing
<1>3. /\ Plan[x].off \in Nat /\ From(x) = p.base + Plan[x].off /\ p.done <= Plan[x].off
      /\ Plan[x].off < p.posted
  BY WindowOk
<1>4. /\ Plan[y].off \in Nat /\ From(y) = p.base + Plan[y].off /\ Slice(p) \in Nat \ {0}
      /\ Plan[y].off + Slice(p) <= p.posted /\ To(y) = From(y) + Slice(p)
  BY WindowOk
<1>5. Steps \in Nat \ {0} /\ Depth \in Nat \ {0}
  BY DEF Configuration
<1>6. From(x) < From(y)
  BY Ascending
<1>7. Plan[x].off < Plan[y].off
  BY <1>1, <1>3, <1>4, <1>6
<1>8. Place(x) \cap Place(y) = {}
  <2>1. CASE Shared
    <3>1. Plan[y].off < Plan[x].off + Depth
      BY <1>1, <1>2, <1>3, <1>4, <1>5
    <3> QED BY <1>7, <2>1, <3>1, PoolApart
  <2>2. CASE ~Shared
    <3>1. To(y) <= From(x) + Steps
      BY <1>1, <1>3, <1>4, <1>5
    <3> QED BY <2>2, <3>1, RingApart
  <2> QED BY <2>1, <2>2
<1>9. Plan[y].off < Plan[x].off + Steps
  BY <1>1, <1>3, <1>4, <1>5
<1>10. From(x) \in Nat /\ From(y) \in Nat /\ From(y) < From(x) + Steps
  <2>1. From(x) \in Nat /\ From(y) \in Nat
    BY PlanNumbers
  <2> QED BY <1>1, <1>3, <1>4, <1>5, <1>9, <2>1
<1>11. From(x) % Steps # From(y) % Steps
  BY <1>5, <1>6, <1>10, RemaindersDiffer
<1>12. Plan[x].off % Steps # Plan[y].off % Steps
  BY <1>3, <1>4, <1>5, <1>7, <1>9, RemaindersDiffer
<1> QED BY <1>3, <1>4, <1>7, <1>8, <1>11, <1>12

-----------------------------------------------------------------------------
(* What a proxy does to its window: posting a slice adds the next, being   *)
(* done with some takes away the first; at the end of an operation it is   *)
(* empty.                                                                  *)
LEMMA RunningOk ==
    ASSUME Configuration, NEW p, Progressing(p), Running(p)
    PROVE  /\ p.op \in 1 .. Len(Ops)
           /\ Slice(p) \in Nat \ {0} /\ NSteps(p) \in Nat /\ Slice(p) <= NSteps(p)
           /\ Multiple(NSteps(p), Slice(p)) /\ Multiple(Steps, Slice(p))
<1>1. p.op \in 1 .. Len(Ops)
  BY OpsLength DEF Progressing, ProxyRecords, Running
<1>2. Multiple(Steps, Ops[p.op].slice)
  BY <1>1 DEF Configuration
<1> QED BY <1>1, <1>2, OpsOk DEF Slice, NSteps

\* A record with more posted.
LEMMA PostRecord ==
    ASSUME NEW p \in ProxyRecords, NEW z \in Nat, NEW q, q = [p EXCEPT !.posted = p.posted + z]
    PROVE  /\ q \in ProxyRecords /\ q.op = p.op /\ q.base = p.base /\ q.done = p.done
           /\ q.transmitted = p.transmitted /\ q.posted = p.posted + z
BY DEF ProxyRecords

\* A record with more transmitted.
LEMMA TransmitRecord ==
    ASSUME NEW p \in ProxyRecords, NEW v \in Nat
    PROVE  LET q == [p EXCEPT !.transmitted = v]
           IN  /\ q \in ProxyRecords /\ q.op = p.op /\ q.base = p.base /\ q.done = p.done
               /\ q.posted = p.posted /\ q.received = p.received /\ q.transmitted = v
BY DEF ProxyRecords

\* The places of an operation are those of any record that is at it.
LEMMA GridKept ==
    ASSUME NEW p, NEW q, q.op = p.op, q.base = p.base, NEW off, OnGrid(p, off)
    PROVE  OnGrid(q, off)
BY DEF OnGrid

\* A window that grows by a slice.
LEMMA WindowGrows ==
    ASSUME Configuration, NEW p, NEW q, NEW z \in Nat \ {0}, NEW n \in Nat,
           p.base \in Nat, p.done \in Nat, p.posted \in Nat, p.done <= p.posted,
           q.base = p.base, q.done = p.done, q.posted = p.posted + z,
           From(n) = p.base + p.posted, To(n) = p.base + p.posted + z,
           \A m \in Nat : m < n => From(m) < p.base + p.posted
    PROVE  /\ InWindow(q, n) /\ ~InWindow(p, n)
           /\ \A m \in Nat : InWindow(q, m) <=> (m = n \/ InWindow(p, m))
<1>1. InWindow(q, n) /\ ~InWindow(p, n)
  BY DEF InWindow
<1>2. ASSUME NEW m \in Nat PROVE InWindow(q, m) <=> (m = n \/ InWindow(p, m))
  <2>1. From(m) \in Nat
    BY PlanNumbers
  <2>2. CASE m = n
    BY <1>1, <2>2
  <2>3. CASE m > n
    <3>1. From(m) >= p.base + p.posted + z
      BY <2>3, Ascending
    <3>2. ~(From(m) < p.base + p.posted) /\ ~(From(m) < q.base + q.posted) /\ m # n
      BY <2>1, <2>3, <3>1
    <3> QED BY <3>2 DEF InWindow
  <2>4. CASE m < n
    <3>1. From(m) < p.base + p.posted /\ From(m) < q.base + q.posted /\ m # n
      BY <2>1, <2>4
    <3>2. q.base + q.done = p.base + p.done
      OBVIOUS
    <3> QED BY <3>1, <3>2 DEF InWindow
  <2> QED BY <2>2, <2>3, <2>4
<1> QED BY <1>1, <1>2

\* Posting adds to the window the slice at the place posted so far.
LEMMA ProxyPosts ==
    ASSUME Configuration, NEW p, Progressing(p), MayPost(p),
           NEW q \in ProxyRecords, q.op = p.op, q.base = p.base, q.done = p.done,
           q.transmitted = p.transmitted, q.posted = p.posted + Slice(p),
           NEW n \in Nat, At(n, p.op, p.posted, p.base)
    PROVE  /\ Progressing(q) /\ Running(q) /\ q.posted = p.posted + Slice(p)
           /\ At(n + 1, p.op, q.posted, p.base)
           /\ InWindow(q, n) /\ ~InWindow(p, n)
           /\ Plan[n].op = p.op /\ Plan[n].off = p.posted /\ From(n) = p.base + p.posted
           /\ Size(Plan[n]) = Slice(p) /\ To(n) = p.base + q.posted
           /\ \A m \in Nat : InWindow(q, m) <=> (m = n \/ InWindow(p, m))
<1>1. /\ p \in ProxyRecords /\ p.posted \in Nat /\ p.done \in Nat /\ p.base \in Nat
      /\ p.transmitted \in Nat /\ p.done <= p.transmitted /\ p.transmitted <= p.posted
      /\ p.op \in Nat /\ p.op <= Len(Ops) + 1
  BY DEF Progressing, ProxyRecords
<1>2. Running(p) /\ p.posted < NSteps(p) /\ p.posted < p.done + Depth
  BY DEF MayPost
<1>3. /\ p.op \in 1 .. Len(Ops) /\ Slice(p) \in Nat \ {0} /\ NSteps(p) \in Nat
      /\ Multiple(NSteps(p), Slice(p)) /\ Multiple(Steps, Slice(p))
  BY <1>2, RunningOk
<1>4. Steps \in Nat /\ Depth \in Nat /\ Depth <= Steps
  BY DEF Configuration
<1>5. /\ Multiple(p.posted, Slice(p)) /\ p.posted + Slice(p) <= NSteps(p)
      /\ Plan[n] = [op |-> p.op, off |-> p.posted, step |-> p.base + p.posted]
      /\ Size(Plan[n]) = Slice(p)
  <2>1. p.posted < Ops[p.op].nsteps
    BY <1>2 DEF NSteps
  <2>2. /\ Multiple(p.posted, Ops[p.op].slice) /\ p.posted + Ops[p.op].slice <= Ops[p.op].nsteps
        /\ Plan[n] = [op |-> p.op, off |-> p.posted, step |-> p.base + p.posted]
        /\ Size(Plan[n]) = Ops[p.op].slice
    <3>1. p.op \in 1 .. Len(Ops) /\ p.posted \in Nat /\ p.base \in Nat
      BY <1>1, <1>3
    <3> QED BY <2>1, <3>1, AtSlice
  <2> QED BY <2>2 DEF Slice, NSteps
<1>6. Multiple(p.done, Slice(p))
  <2>1. PICK e \in Nat : At(e, p.op, p.done, p.base)
    BY DEF Progressing, OnGrid
  <2> QED BY <1>1, <1>3, <2>1, AtSlice DEF Slice
<1>7. p.posted + Slice(p) <= p.done + Steps
  <2>1. Multiple(p.done + Steps, Slice(p))
    BY <1>1, <1>3, <1>4, <1>6, MultiplesAdd
  <2>2. p.posted < p.done + Steps
    BY <1>1, <1>2, <1>4
  <2>3. p.done + Steps \in Nat
    BY <1>1, <1>4
  <2> QED BY <1>1, <1>3, <1>5, <2>1, <2>2, <2>3, MultiplesApart
<1>8. At(n + 1, p.op, p.posted + Slice(p), p.base)
  BY <1>1, <1>2, <1>3, AtNext DEF Slice, NSteps
<1>9. q \in ProxyRecords /\ q.op = p.op /\ q.base = p.base /\ q.done = p.done
      /\ q.transmitted = p.transmitted /\ q.posted = p.posted + Slice(p)
  OBVIOUS
<1>10. Running(q) /\ NSteps(q) = NSteps(p) /\ Slice(q) = Slice(p)
  BY <1>2, <1>9 DEF Running, NSteps, Slice
<1>11. Progressing(q)
  <2>1. OnGrid(q, q.done)
    <3>1. OnGrid(p, q.done)
      BY <1>9 DEF Progressing
    <3> QED BY <1>9, <3>1, GridKept
  <2>2. n + 1 \in Nat
    OBVIOUS
  <2>3. OnGrid(q, q.posted)
    BY <1>8, <1>9, <2>2 DEF OnGrid
  <2>4. q.posted < q.done + Depth + Slice(q) /\ q.transmitted <= q.posted
    <3>0. /\ p.posted \in Nat /\ p.done \in Nat /\ p.transmitted \in Nat
          /\ Slice(p) \in Nat /\ Depth \in Nat
          /\ p.posted < p.done + Depth /\ p.transmitted <= p.posted
      BY <1>1, <1>2, <1>3, <1>4
    <3>1. p.posted + Slice(p) < p.done + Depth + Slice(p) /\ p.transmitted <= p.posted + Slice(p)
      BY <3>0
    <3> QED BY <1>9, <1>10, <3>1
  <2> QED BY <1>1, <1>5, <1>7, <1>9, <1>10, <2>1, <2>3, <2>4 DEF Progressing
<1>12. /\ Plan[n].op = p.op /\ Plan[n].off = p.posted /\ From(n) = p.base + p.posted
       /\ To(n) = p.base + p.posted + Slice(p)
  BY <1>1, <1>3, <1>5 DEF From, To
<1>13. /\ InWindow(q, n) /\ ~InWindow(p, n)
       /\ \A m \in Nat : InWindow(q, m) <=> (m = n \/ InWindow(p, m))
  <2>1. \A m \in Nat : m < n => From(m) < p.base + p.posted
    BY <1>1, AtCut
  <2> DEFINE z == Slice(p)
  <2>2. /\ z \in Nat \ {0} /\ p.done <= p.posted
        /\ q.base = p.base /\ q.done = p.done /\ q.posted = p.posted + z
        /\ From(n) = p.base + p.posted /\ To(n) = p.base + p.posted + z
    BY <1>1, <1>3, <1>9, <1>12
  <2> HIDE DEF z
  <2> QED BY <1>1, <2>1, <2>2, WindowGrows
<1>15. At(n + 1, p.op, q.posted, p.base) /\ To(n) = p.base + q.posted
  BY <1>1, <1>3, <1>8, <1>9, <1>12
<1> QED BY <1>5, <1>9, <1>10, <1>11, <1>12, <1>13, <1>15

\* Being done with steps removes the slices below; a new operation starts empty.
LEMMA ProxyEnds ==
    ASSUME Configuration, NEW p, Progressing(p), Running(p), NEW q \in ProxyRecords,
           q.op = p.op, q.base = p.base, q.posted = p.posted, q.transmitted = p.transmitted,
           p.done < q.done, q.done <= p.transmitted, OnGrid(p, q.done),
           NEW r, r = ProxyNext(q)
    PROVE  /\ Progressing(r)
           /\ p.base + q.done <= r.base + r.done
           /\ \A m \in Nat : From(m) >= r.base + r.done <=> From(m) >= p.base + q.done
           /\ \A m \in Nat : InWindow(r, m) <=> (InWindow(p, m) /\ From(m) >= p.base + q.done)
           /\ \/ q.done < NSteps(p) /\ r = q
              \/ /\ q.done = NSteps(p) /\ p.transmitted = NSteps(p) /\ p.posted = NSteps(p)
                 /\ r = Proxy(p.op + 1, p.base + NSteps(p)) /\ r.op = p.op + 1
                 /\ r.base = Start(p.op + 1, p.base + NSteps(p)) /\ r.base >= p.base + NSteps(p)
                 /\ r.posted = 0 /\ r.received = 0 /\ r.transmitted = 0 /\ r.done = 0
                 /\ r.writes = <<>>
                 /\ \A n \in Nat : At(n, p.op, p.posted, p.base) =>
                       At(n, r.op, 0, r.base) /\ From(n) = r.base
<1>1. /\ p.posted \in Nat /\ p.done \in Nat /\ p.base \in Nat /\ p.transmitted \in Nat
      /\ q.done \in Nat /\ p.transmitted <= p.posted /\ p.posted <= NSteps(p)
      /\ p.posted <= p.done + Steps /\ p.posted < p.done + Depth + Slice(p)
      /\ p.op \in Nat \ {0} /\ p.op <= Len(Ops) /\ Len(Ops) \in Nat
  BY OpsLength DEF Progressing, ProxyRecords, Running
<1>2. /\ p.op \in 1 .. Len(Ops) /\ Slice(p) \in Nat \ {0} /\ NSteps(p) \in Nat
  BY RunningOk
<1>3. Steps \in Nat /\ Depth \in Nat
  BY DEF Configuration
<1>4. NSteps(q) = NSteps(p) /\ Slice(q) = Slice(p) /\ Running(q)
  BY DEF NSteps, Slice, Running
<1>5. CASE q.done # NSteps(p)
  <2>1. r = q
    BY <1>4, <1>5 DEF ProxyNext
  <2>2. Progressing(q)
    <3>0. OnGrid(p, q.posted) /\ OnGrid(p, q.done)
      BY DEF Progressing
    <3>1. OnGrid(q, q.posted) /\ OnGrid(q, q.done)
      BY <3>0, GridKept
    <3>2. q.posted < q.done + Depth + Slice(q) /\ q.posted <= q.done + Steps
      <4>0. /\ p.posted \in Nat /\ p.done \in Nat /\ q.done \in Nat /\ p.done < q.done
            /\ Slice(p) \in Nat /\ Depth \in Nat /\ Steps \in Nat
            /\ p.posted < p.done + Depth + Slice(p) /\ p.posted <= p.done + Steps
        BY <1>1, <1>2, <1>3
      <4>1. p.posted < q.done + Depth + Slice(p) /\ p.posted <= q.done + Steps
        BY <4>0
      <4> QED BY <1>4, <4>1
    <3>3. /\ q.op <= Len(Ops) + 1 /\ q.done <= q.transmitted /\ q.transmitted <= q.posted
          /\ Running(q) /\ q.posted <= NSteps(q)
      BY <1>1, <1>4
    <3> QED BY <3>1, <3>2, <3>3 DEF Progressing
  <2>3. ASSUME NEW m \in Nat
        PROVE  InWindow(q, m) <=> (InWindow(p, m) /\ From(m) >= p.base + q.done)
    <3>1. From(m) \in Nat
      BY PlanNumbers
    <3> QED BY <1>1, <3>1 DEF InWindow
  <2>4. q.done < NSteps(p)
    BY <1>1, <1>2, <1>5
  <2> QED BY <1>1, <2>1, <2>2, <2>3, <2>4
<1>6. CASE q.done = NSteps(p)
  <2> DEFINE s == Start(p.op + 1, p.base + NSteps(p))
  <2>1. p.transmitted = NSteps(p) /\ p.posted = NSteps(p)
    BY <1>1, <1>2, <1>6
  <2>2. r = Proxy(p.op + 1, p.base + NSteps(p))
    BY <1>4, <1>6 DEF ProxyNext
  <2>3. PICK e \in Nat : At(e, p.op, NSteps(p), p.base)
    BY <2>1 DEF Progressing, OnGrid
  <2>4. ASSUME NEW n \in Nat, At(n, p.op, NSteps(p), p.base)
        PROVE  s \in Nat /\ s >= p.base + NSteps(p) /\ At(n, p.op + 1, 0, s) /\ From(n) = s
    <3>1. At(n, p.op, Ops[p.op].nsteps, p.base)
      BY <2>4 DEF NSteps
    <3> DEFINE u == Start(p.op + 1, p.base + Ops[p.op].nsteps)
    <3>2. /\ u \in Nat /\ u >= p.base + Ops[p.op].nsteps /\ At(n, p.op + 1, 0, u)
          /\ From(n) = u
      <4>1. p.op \in 1 .. Len(Ops) /\ p.base \in Nat
        BY <1>1, <1>2
      <4> QED BY <3>1, <4>1, AtWrap
    <3> QED BY <3>2 DEF NSteps
  <2>5. s \in Nat /\ s >= p.base + NSteps(p) /\ At(e, p.op + 1, 0, s)
    BY <2>3, <2>4
  <2>6. r = [op |-> p.op + 1, posted |-> 0, received |-> 0, transmitted |-> 0, done |-> 0,
             writes |-> <<>>, base |-> s]
    BY <2>2 DEF Proxy, Start
  <2> HIDE DEF s
  <2>7. /\ r.op = p.op + 1 /\ r.base = s /\ r.posted = 0 /\ r.received = 0
        /\ r.transmitted = 0 /\ r.done = 0 /\ r.writes = <<>>
    BY <2>6
  <2>8. r \in ProxyRecords
    BY <1>1, <2>5, <2>6 DEF ProxyRecords
  <2>9. Progressing(r)
    <3>1. OnGrid(r, 0)
      BY <2>5, <2>7 DEF OnGrid
    <3>2. Running(r) => NSteps(r) \in Nat
      BY <1>1, <2>7, OpsOk DEF Running, NSteps
    <3>3. IF Running(r) THEN r.posted <= NSteps(r) ELSE r.posted = 0
      BY <2>7, <3>2
    <3> QED BY <1>1, <1>3, <2>7, <2>8, <3>1, <3>3 DEF Progressing
  <2>10. ASSUME NEW m \in Nat
         PROVE  /\ From(m) >= r.base + r.done <=> From(m) >= p.base + q.done
                /\ InWindow(r, m) <=> (InWindow(p, m) /\ From(m) >= p.base + q.done)
    <3>1. From(m) \in Nat
      BY PlanNumbers
    <3>2. From(m) >= p.base + NSteps(p) => From(m) >= s
      <4>1. /\ m >= e => From(m) >= s + 0
            /\ m < e => From(m) < p.base + NSteps(p)
        BY <1>1, <1>2, <2>3, <2>5, AtCut
      <4> QED BY <1>1, <1>2, <2>5, <3>1, <4>1
    <3>3. From(m) >= s + 0 <=> From(m) >= p.base + NSteps(p)
      BY <1>1, <1>2, <2>5, <3>1, <3>2
    <3>4. ~InWindow(r, m)
      BY <2>5, <2>7, <3>1 DEF InWindow
    <3>5. ~(InWindow(p, m) /\ From(m) >= p.base + q.done)
      BY <1>1, <1>6, <2>1, <3>1 DEF InWindow
    <3> QED BY <1>6, <2>7, <3>3, <3>4, <3>5
  <2>11. p.base + q.done <= r.base + r.done
    BY <1>1, <1>6, <2>5, <2>7
  <2>12. \A n \in Nat : At(n, p.op, p.posted, p.base) => At(n, r.op, 0, r.base) /\ From(n) = r.base
    BY <2>1, <2>4, <2>7
  <2> QED BY <1>6, <2>1, <2>2, <2>5, <2>7, <2>9, <2>10, <2>11, <2>12 DEF s
<1> QED BY <1>5, <1>6

-----------------------------------------------------------------------------
(* The first state, and what steps of the other end leave alone.           *)
LEMMA SendKept ==
    ASSUME SendInv, UNCHANGED <<sender, sbuf>>,
           calls'.written = calls.written, calls'.send = calls.send
    PROVE  SendInv'
<1>1. /\ sgpu' = sgpu /\ sproxy' = sproxy /\ shead' = shead /\ stail' = stail /\ sfifo' = sfifo
      /\ sreq' = sreq /\ sbuf' = sbuf
  BY DEF sender
<1>2. SendKernelInv'
  BY <1>1 DEF SendInv, SendKernelInv, Running
<1>3. SendProxyInv'
  BY <1>1 DEF SendInv, SendProxyInv, Running, Progressing, OnGrid, NSteps, Slice
<1>4. SendMemoryInv'
  BY <1>1 DEF SendInv, SendMemoryInv, InWindow
<1>5. SendRequestsInv'
  BY <1>1 DEF SendInv, SendRequestsInv
<1> QED BY <1>2, <1>3, <1>4, <1>5 DEF SendInv

\* What the receiving end knows does not change with the sending end.
LEMMA RecvKept ==
    ASSUME RecvInv, UNCHANGED <<receiver, rbuf, landing, rreq>>, calls'.recv = calls.recv
    PROVE  RecvInv'
<1>1. /\ rgpu' = rgpu /\ rproxy' = rproxy /\ rhead' = rhead /\ rtail' = rtail
      /\ roffset' = roffset /\ got' = got /\ rbuf' = rbuf /\ landing' = landing /\ rreq' = rreq
  BY DEF receiver
<1>2. RecvKernelInv'
  BY <1>1 DEF RecvInv, RecvKernelInv, Running
<1>3. RecvProxyInv'
  BY <1>1 DEF RecvInv, RecvProxyInv, Running, Progressing, OnGrid, NSteps, Slice
<1>4. RecvMemoryInv'
  BY <1>1 DEF RecvInv, RecvMemoryInv, InWindow, Stage, Requested, Flushing, Arrived, Landed
<1>5. RecvRequestsInv'
  BY <1>1 DEF RecvInv, RecvRequestsInv, InWindow
<1> QED BY <1>2, <1>3, <1>4, <1>5 DEF RecvInv

\* At the start nothing is under way at either end.
LEMMA PipeInit ==
    ASSUME Configuration, Init
    PROVE  PipeInv
<1>1. Steps \in Nat \ {0} /\ Depth \in Nat \ {0} /\ Len(Ops) \in Nat
  BY OpsLength DEF Configuration
<1>2. Start(1, 0) \in Nat
  BY StartOk
<1>3. Plan[0] = [op |-> 1, off |-> 0, step |-> Start(1, 0)]
  BY PlanExists DEF IsPlan, FirstSlice
<1>4. /\ sgpu = [op |-> 1, done |-> 0, at |-> "wait", where |-> {}, saw |-> 0, step |-> Start(1, 0)]
      /\ rgpu = [op |-> 1, done |-> 0, at |-> "start", where |-> {}, saw |-> 0,
                 step |-> Start(1, 0)]
  BY DEF Init, Kernel, Start, Torn
<1>5. /\ sproxy = [op |-> 1, posted |-> 0, received |-> 0, transmitted |-> 0, done |-> 0,
                   writes |-> <<>>, base |-> Start(1, 0)]
      /\ rproxy = sproxy
  BY DEF Init, Proxy, Start
<1>6. sgpu \in KernelRecords /\ rgpu \in KernelRecords /\ sproxy \in ProxyRecords
  BY <1>2, <1>4, <1>5 DEF KernelRecords, ProxyRecords
<1>7. calls = [written |-> 0, send |-> 0, recv |-> 0] /\ got = <<>>
  BY DEF Init
<1>8. At(0, 1, 0, Start(1, 0))
  BY <1>2, <1>3 DEF At
<1>9. Progressing(sproxy)
  <2>1. OnGrid(sproxy, 0)
    BY <1>5, <1>8 DEF OnGrid
  <2>2. Running(sproxy) => NSteps(sproxy) \in Nat
    BY <1>1, <1>5, OpsOk DEF Running, NSteps
  <2> QED BY <1>1, <1>5, <1>6, <2>1, <2>2 DEF Progressing
<1>10. \A n \in Nat : ~InWindow(sproxy, n)
  BY <1>2, <1>5, PlanNumbers DEF InWindow
<1>11. SendInv
  <2>1. SendKernelInv
    BY <1>1, <1>2, <1>3, <1>4, <1>6, <1>7 DEF SendKernelInv, Init
  <2>2. SendProxyInv
    BY <1>1, <1>2, <1>5, <1>7, <1>8, <1>9 DEF SendProxyInv, Init
  <2>3. SendMemoryInv
    <3>1. sfifo \in [Slots -> [full : BOOLEAN, offset : Nat]]
      BY DEF Init, Slots
    <3>2. sbuf \in [Slots -> Nat]
      BY DEF Init, Torn
    <3>3. \A n \in Nat : ~(n < calls.written)
      BY <1>7
    <3> QED BY <1>10, <3>1, <3>2, <3>3 DEF SendMemoryInv
  <2>4. SendRequestsInv
    BY DEF SendRequestsInv, Init, Requests, NoReq
  <2> QED BY <2>1, <2>2, <2>3, <2>4 DEF SendInv
<1>12. RecvInv
  <2>1. RecvKernelInv
    BY <1>3, <1>4, <1>6, <1>7 DEF RecvKernelInv, Init
  <2>2. RecvProxyInv
    BY <1>2, <1>4, <1>5, <1>7, <1>8, <1>9 DEF RecvProxyInv, Progressing, Init
  <2>3. RecvMemoryInv
    <3>1. roffset \in [Slots -> Nat]
      BY DEF Init, Slots
    <3>2. rbuf \in [Slots -> Nat]
      BY DEF Init, Torn
    <3>3. landing \in [Slots -> Nat \cup {None}] /\ \A b \in Slots : landing[b] = None
      BY DEF Init
    <3>4. \A n \in Nat : ~InWindow(rproxy, n)
      BY <1>5, <1>10
    <3> QED BY <3>1, <3>2, <3>3, <3>4 DEF RecvMemoryInv
  <2>4. RecvRequestsInv
    BY DEF RecvRequestsInv, Init, Requests, NoReq
  <2> QED BY <2>1, <2>2, <2>3, <2>4 DEF RecvInv
<1>13. CallsOk
  BY <1>7 DEF CallsOk
<1> QED BY <1>11, <1>12, <1>13 DEF PipeInv

\* A kernel that has posted slice n is at the next.
LEMMA KernelNextOk ==
    ASSUME Configuration, NEW g \in KernelRecords, Running(g), NEW n \in Nat,
           Plan[n] = [op |-> g.op, off |-> g.done, step |-> g.step],
           NEW first \in {"start", "wait"}
    PROVE  LET h == KernelNext(g, first)
           IN  /\ h \in KernelRecords /\ h.at \in {first, "wait"}
               /\ h.at # "wait" => h.op = g.op + 1
               /\ h.step >= To(n) /\ h.step = From(n + 1)
               /\ Plan[n + 1] = [op |-> h.op, off |-> h.done, step |-> h.step]
<1> DEFINE h == KernelNext(g, first)
           z == Slice(g)
<1>1. /\ g.op \in 1 .. Len(Ops) /\ g.done \in Nat /\ g.step \in Nat /\ Len(Ops) \in Nat
  BY OpsLength DEF KernelRecords, Running
<1>2. z \in Nat \ {0} /\ NSteps(g) \in Nat
  BY <1>1, OpsOk DEF Slice, NSteps
<1>3. Plan[n].op = g.op /\ Plan[n].off = g.done /\ Plan[n].step = g.step
  OBVIOUS
<1>4. Size(Plan[n]) = z /\ To(n) = g.step + z
  BY <1>1, <1>3 DEF Size, Slice, To
<1>5. Plan[n + 1] = NextSlice(Plan[n])
  BY PlanExists DEF IsPlan
<1>6. CASE g.done + z = NSteps(g)
  <2> DEFINE t == Start(g.op + 1, g.step + z)
  <2>1. t \in Nat /\ t >= g.step + z
    <3>1. g.op + 1 \in Nat \ {0} /\ g.step + z \in Nat
      BY <1>1, <1>2
    <3> QED BY <3>1, StartOk
  <2>2. h = [op |-> g.op + 1, done |-> 0, at |-> first, where |-> {}, saw |-> Torn, step |-> t]
    BY <1>6 DEF KernelNext, Kernel, Start
  <2>3. Plan[n + 1] = [op |-> g.op + 1, off |-> 0, step |-> t]
    BY <1>1, <1>3, <1>4, <1>5, <1>6 DEF NextSlice, NSteps
  <2> HIDE DEF t, h, z
  <2>4. h \in KernelRecords /\ h.step = t /\ h.op = g.op + 1 /\ h.done = 0 /\ h.at = first
    BY <1>1, <2>1, <2>2 DEF KernelRecords, Torn
  <2> QED BY <1>4, <2>1, <2>3, <2>4 DEF From, h
<1>7. CASE ~(g.done + z = NSteps(g))
  <2>1. h = [g EXCEPT !.done = g.done + z, !.step = g.step + z, !.at = "wait"]
    BY <1>7 DEF KernelNext
  <2>2. Plan[n + 1] = [op |-> g.op, off |-> g.done + z, step |-> g.step + z]
    BY <1>3, <1>4, <1>5, <1>7 DEF NextSlice, NSteps
  <2> HIDE DEF h, z
  <2>3. /\ h \in KernelRecords /\ h.step = g.step + z /\ h.op = g.op /\ h.done = g.done + z
        /\ h.at = "wait"
    <3>1. g.done + z \in Nat /\ g.step + z \in Nat
      BY <1>1, <1>2
    <3> DEFINE u == g.done + z
               v == g.step + z
    <3>2. u \in Nat /\ v \in Nat /\ h = [g EXCEPT !.done = u, !.step = v, !.at = "wait"]
      BY <2>1, <3>1
    <3> HIDE DEF u, v
    <3>3. /\ h \in KernelRecords /\ h.step = v /\ h.op = g.op /\ h.done = u /\ h.at = "wait"
      BY <3>2 DEF KernelRecords
    <3> QED BY <3>3 DEF u, v
  <2> QED BY <1>1, <1>2, <1>4, <2>2, <2>3 DEF From, h
<1> QED BY <1>6, <1>7

-----------------------------------------------------------------------------
(* The sending kernel.                                                     *)

\* The next slice has buffers of its own as soon as there is room for it.
LEMMA WrittenApart ==
    ASSUME Configuration, CallsOk, SendKernelInv, SendProxyInv,
           To(calls.written) <= shead + Steps
    PROVE  /\ Shared => InWindow(sproxy, calls.written)
           /\ \A m \in Nat : m < calls.written /\ From(m) >= sproxy.base + sproxy.done =>
                 Place(m) \cap Place(calls.written) = {}
<1> DEFINE n == calls.written
<1>1. n \in Nat /\ calls.send \in Nat
  BY DEF CallsOk
<1> HIDE DEF n
<1>2. From(n) \in Nat /\ To(n) \in Nat /\ From(n) < To(n)
  BY <1>1, PlanNumbers
<1>3. /\ Progressing(sproxy) /\ sproxy.base \in Nat /\ sproxy.done \in Nat /\ sproxy.posted \in Nat
      /\ sproxy.transmitted \in Nat /\ sproxy.done <= sproxy.transmitted
  BY DEF SendProxyInv, Progressing, ProxyRecords
<1>4. Steps \in Nat /\ shead \in Int /\ To(n) <= shead + Steps
  BY DEF Configuration, SendKernelInv, n
<1>5. /\ Shared => shead <= sproxy.base + sproxy.posted - Steps
      /\ ~Shared => shead <= sproxy.base + sproxy.done
      /\ calls.send <= n /\ At(calls.send, sproxy.op, sproxy.transmitted, sproxy.base)
  BY DEF SendProxyInv, n
<1>6. From(n) >= sproxy.base + sproxy.transmitted
  BY <1>1, <1>3, <1>5, AtCut
<1>7. Shared => InWindow(sproxy, n)
  BY <1>2, <1>3, <1>4, <1>5, <1>6 DEF InWindow
<1>8. ASSUME NEW m \in Nat, m < n, From(m) >= sproxy.base + sproxy.done
      PROVE  Place(m) \cap Place(n) = {}
  <2>1. From(m) < From(n) /\ From(m) \in Nat
    BY <1>1, <1>8, Ascending, PlanNumbers
  <2>2. CASE Shared
    <3>1. InWindow(sproxy, m)
      BY <1>2, <1>3, <1>7, <1>8, <2>1, <2>2 DEF InWindow
    <3> QED BY <1>1, <1>3, <1>7, <1>8, <2>2, <3>1, WindowApart
  <2>3. CASE ~Shared
    <3>1. To(n) <= From(m) + Steps
      BY <1>2, <1>3, <1>4, <1>5, <1>8, <2>1, <2>3
    <3> QED BY <1>1, <1>8, <2>3, <3>1, RingApart
  <2> QED BY <2>2, <2>3
<1> QED BY <1>7, <1>8 DEF n

\* The slice a running kernel is at.
LEMMA SendSlice ==
    ASSUME Configuration, CallsOk, SendKernelInv, Running(sgpu)
    PROVE  /\ sgpu.op \in 1 .. Len(Ops)
           /\ Slice(sgpu) \in Nat \ {0} /\ NSteps(sgpu) \in Nat
           /\ Plan[calls.written].off = sgpu.done
           /\ Size(Plan[calls.written]) = Slice(sgpu) /\ From(calls.written) = sgpu.step
           /\ To(calls.written) = sgpu.step + Slice(sgpu)
<1>1. calls.written \in Nat
  BY DEF CallsOk
<1>2. sgpu.op \in 1 .. Len(Ops)
  BY OpsLength DEF SendKernelInv, KernelRecords, Running
<1>3. Slice(sgpu) \in Nat \ {0} /\ NSteps(sgpu) \in Nat
  BY <1>2, OpsOk DEF Slice, NSteps
<1>4. Plan[calls.written] = [op |-> sgpu.op, off |-> sgpu.done, step |-> sgpu.step]
  BY DEF SendKernelInv
<1>5. /\ Plan[calls.written].op = sgpu.op /\ Plan[calls.written].off = sgpu.done
      /\ Plan[calls.written].step = sgpu.step
  BY <1>4
<1>6. Size(Plan[calls.written]) = Slice(sgpu)
  BY <1>2, <1>5, OpsLength DEF Size, Slice
<1> QED BY <1>2, <1>3, <1>5, <1>6 DEF From, To

\* The kernel has seen room for the next slice: its buffers hold none still to be sent.
LEMMA SendWaitInv ==
    ASSUME Configuration, CallsOk, SendInv, SendWait
    PROVE  SendInv'
<1> DEFINE n == calls.written
           place == IF Shared THEN {sfifo[sgpu.step % Steps].offset}
                    ELSE SliceAt(sgpu.step, Slice(sgpu))
<1>1. /\ SendKernelInv /\ SendProxyInv /\ SendMemoryInv /\ SendRequestsInv
  BY DEF SendInv
<1>2. /\ Running(sgpu) /\ shead + Steps >= sgpu.step + Slice(sgpu)
      /\ sfifo' = [sfifo EXCEPT ![sgpu.step % Steps].full = TRUE]
      /\ sbuf' = Fill(sbuf, place, Torn)
      /\ sgpu' = [sgpu EXCEPT !.at = "copy", !.where = place]
      /\ sproxy' = sproxy /\ shead' = shead /\ stail' = stail /\ sreq' = sreq /\ calls' = calls
  BY DEF SendWait
<1>3. /\ Slice(sgpu) \in Nat \ {0} /\ Size(Plan[n]) = Slice(sgpu) /\ From(n) = sgpu.step
      /\ To(n) = sgpu.step + Slice(sgpu)
  BY <1>1, <1>2, SendSlice
<1>4. n \in Nat /\ From(n) \in Nat /\ shead \in Int /\ Steps \in Nat \ {0}
  BY <1>1, PlanNumbers DEF CallsOk, SendKernelInv, Configuration
<1>5. To(n) <= shead + Steps
  BY <1>2, <1>3, <1>4
<1>6. /\ Shared => InWindow(sproxy, n)
      /\ \A m \in Nat : m < n /\ From(m) >= sproxy.base + sproxy.done => Place(m) \cap Place(n) = {}
  BY <1>1, <1>5, WrittenApart
<1>7. place = Place(n)
  <2>1. CASE Shared
    <3>1. sfifo[From(n) % Steps].offset = Plan[n].off % Depth
      BY <1>1, <1>4, <1>6, <2>1 DEF SendMemoryInv
    <3> QED BY <1>3, <2>1, <3>1 DEF Place
  <2>2. CASE ~Shared
    BY <1>3, <2>2 DEF Place
  <2> QED BY <2>1, <2>2
<1>8. Place(n) \in SUBSET Slots
  BY <1>4, PlaceOk
<1> HIDE DEF n, place
<1>9. SendKernelInv'
  <2>1. /\ sgpu \in KernelRecords /\ stail \in Int /\ shead \in Int
        /\ Plan[calls.written] = [op |-> sgpu.op, off |-> sgpu.done, step |-> sgpu.step]
        /\ stail <= sgpu.step
        /\ \A m \in Nat : m < calls.written => To(m) <= shead + Steps
    BY <1>1 DEF SendKernelInv
  <2>2. /\ sgpu' \in KernelRecords /\ sgpu'.op = sgpu.op /\ sgpu'.done = sgpu.done
        /\ sgpu'.step = sgpu.step /\ sgpu'.where = Place(n)
    BY <1>2, <1>7, <1>8, <2>1 DEF KernelRecords
  <2>3. Running(sgpu')
    BY <1>2, <2>2 DEF Running
  <2> QED BY <1>2, <1>5, <2>1, <2>2, <2>3 DEF SendKernelInv, Running, n
<1>10. SendProxyInv'
  BY <1>1, <1>2 DEF SendProxyInv, Progressing, OnGrid, Running, NSteps, Slice
<1>11. SendMemoryInv'
  <2>1. /\ sfifo \in [Slots -> [full : BOOLEAN, offset : Nat]] /\ sbuf \in [Slots -> Nat]
    BY <1>1 DEF SendMemoryInv
  <2>2. /\ sfifo' \in [Slots -> [full : BOOLEAN, offset : Nat]]
        /\ \A s \in Slots : sfifo'[s].offset = sfifo[s].offset
    BY <1>2, <2>1
  <2>3. sbuf' \in [Slots -> Nat]
    BY <1>2, <2>1 DEF Fill, Torn
  <2>4. Shared => \A m \in Nat : InWindow(sproxy, m) =>
            sfifo'[From(m) % Steps].offset = Plan[m].off % Depth
    <3> SUFFICES ASSUME Shared, NEW m \in Nat, InWindow(sproxy, m)
                 PROVE  sfifo'[From(m) % Steps].offset = Plan[m].off % Depth
      OBVIOUS
    <3>1. From(m) % Steps \in Slots
      BY <1>4, PlanNumbers, Remainder DEF Slots
    <3> QED BY <1>1, <2>2, <3>1 DEF SendMemoryInv
  <2>5. \A m \in Nat : m < n /\ From(m) >= sproxy.base + sproxy.done =>
            \A b \in Place(m) : sbuf'[b] = m + 1
    <3> SUFFICES ASSUME NEW m \in Nat, m < n, From(m) >= sproxy.base + sproxy.done,
                        NEW b \in Place(m)
                 PROVE  sbuf'[b] = m + 1
      OBVIOUS
    <3>1. b \in Slots /\ b \notin Place(n)
      BY <1>6, PlaceOk
    <3>2. sbuf[b] = m + 1
      BY <1>1 DEF SendMemoryInv, n
    <3> QED BY <1>2, <1>7, <3>1, <3>2 DEF Fill
  <2> QED BY <1>2, <2>2, <2>3, <2>4, <2>5 DEF SendMemoryInv, InWindow, n
<1>12. SendRequestsInv'
  BY <1>1, <1>2 DEF SendRequestsInv
<1> QED BY <1>9, <1>10, <1>11, <1>12 DEF SendInv

\* A slice the kernel writes goes to its own buffers and is counted next.
LEMMA SendPostInv ==
    ASSUME Configuration, CallsOk, SendInv, SendPost
    PROVE  SendInv' /\ CallsOk' /\ calls'.recv = calls.recv
<1> DEFINE n == calls.written
<1>1. /\ SendKernelInv /\ SendProxyInv /\ SendMemoryInv /\ SendRequestsInv
  BY DEF SendInv
<1>2. /\ Running(sgpu) /\ sgpu.at = "copy"
      /\ sbuf' = Fill(sbuf, sgpu.where, n + 1)
      /\ stail' = sgpu.step + Slice(sgpu)
      /\ calls' = [calls EXCEPT !.written = calls.written + 1]
      /\ sgpu' = KernelNext(sgpu, "wait")
      /\ sproxy' = sproxy /\ shead' = shead /\ sfifo' = sfifo /\ sreq' = sreq
  BY DEF SendPost
<1>3. /\ sgpu.op \in 1 .. Len(Ops) /\ Slice(sgpu) \in Nat \ {0} /\ NSteps(sgpu) \in Nat
      /\ Plan[n].off = sgpu.done
      /\ Size(Plan[n]) = Slice(sgpu) /\ From(n) = sgpu.step /\ To(n) = sgpu.step + Slice(sgpu)
  BY <1>1, <1>2, SendSlice
<1>4. n \in Nat /\ From(n) \in Nat /\ To(n) \in Nat /\ Steps \in Nat \ {0}
  BY PlanNumbers DEF CallsOk, Configuration
<1>5. To(n) <= shead + Steps /\ sgpu.where = Place(n)
  BY <1>1, <1>2 DEF SendKernelInv
<1>6. \A m \in Nat : m < n /\ From(m) >= sproxy.base + sproxy.done => Place(m) \cap Place(n) = {}
  BY <1>1, <1>5, WrittenApart
<1>7. /\ CallsOk' /\ calls'.written = n + 1 /\ calls'.send = calls.send /\ calls'.recv = calls.recv
  BY <1>2 DEF CallsOk
<1> HIDE DEF n
<1>8. /\ sgpu \in KernelRecords /\ stail \in Int /\ shead \in Int
      /\ Plan[n] = [op |-> sgpu.op, off |-> sgpu.done, step |-> sgpu.step]
      /\ stail <= sgpu.step
      /\ \A m \in Nat : m < n => To(m) <= shead + Steps
  BY <1>1 DEF SendKernelInv, n
<1>9. /\ sgpu' \in KernelRecords /\ sgpu'.at = "wait" /\ sgpu'.step >= To(n)
      /\ Plan[n + 1] = [op |-> sgpu'.op, off |-> sgpu'.done, step |-> sgpu'.step]
  BY <1>2, <1>3, <1>4, <1>8, KernelNextOk
<1>10. SendKernelInv'
  <2>1. \A m \in Nat : m < n + 1 => To(m) <= shead + Steps
    BY <1>4, <1>5, <1>8
  <2>2. stail' \in Int /\ stail' <= sgpu'.step
    BY <1>2, <1>3, <1>4, <1>9
  <2> QED BY <1>2, <1>7, <1>8, <1>9, <2>1, <2>2 DEF SendKernelInv
<1>11. SendProxyInv'
  <2>1. calls.send \in Nat /\ calls.send <= n + 1
    BY <1>1, <1>4 DEF SendProxyInv, CallsOk, n
  <2> QED BY <1>1, <1>2, <1>7, <2>1
          DEF SendProxyInv, Progressing, OnGrid, Running, NSteps, Slice
<1>12. SendMemoryInv'
  <2>1. sbuf' \in [Slots -> Nat]
    BY <1>1, <1>2, <1>4 DEF Fill, SendMemoryInv
  <2>2. \A m \in Nat : m < n + 1 /\ From(m) >= sproxy.base + sproxy.done =>
            \A b \in Place(m) : sbuf'[b] = m + 1
    <3> SUFFICES ASSUME NEW m \in Nat, m < n + 1, From(m) >= sproxy.base + sproxy.done,
                        NEW b \in Place(m)
                 PROVE  sbuf'[b] = m + 1
      OBVIOUS
    <3>0. b \in Slots
      BY PlaceOk
    <3>1. CASE m = n
      BY <1>2, <1>5, <3>0, <3>1 DEF Fill
    <3>2. CASE m < n
      <4>1. b \notin Place(n)
        BY <1>6, <3>2
      <4>2. sbuf[b] = m + 1
        BY <1>1, <3>2 DEF SendMemoryInv, n
      <4> QED BY <1>2, <1>5, <3>0, <4>1, <4>2 DEF Fill
    <3> QED BY <1>4, <3>1, <3>2
  <2> QED BY <1>1, <1>2, <1>7, <2>1, <2>2 DEF SendMemoryInv, InWindow
<1>13. SendRequestsInv'
  BY <1>1, <1>2, <1>7 DEF SendRequestsInv
<1> QED BY <1>7, <1>10, <1>11, <1>12, <1>13 DEF SendInv

\* More room does no harm.
LEMMA HeadGrows ==
    ASSUME Configuration, CallsOk, SendKernelInv, sgpu' = sgpu, stail' = stail, calls' = calls,
           shead \in Int, shead' \in Int, shead <= shead'
    PROVE  SendKernelInv'
<1>1. calls.written \in Nat /\ Steps \in Nat
  BY DEF CallsOk, Configuration
<1>2. ASSUME NEW n \in Nat, To(n) <= shead + Steps PROVE To(n) <= shead' + Steps
  <2>1. To(n) \in Nat
    BY PlanNumbers
  <2> QED BY <1>1, <1>2, <2>1
<1> QED BY <1>1, <1>2 DEF SendKernelInv, Running

-----------------------------------------------------------------------------
(* The sending proxy.                                                      *)
LEMMA SendProxyPostInv ==
    ASSUME Configuration, CallsOk, SendInv, SendProxyPost
    PROVE  SendInv'
<1> DEFINE p == sproxy
           q == [p EXCEPT !.posted = p.posted + Slice(p)]
<1>1. /\ SendKernelInv /\ SendProxyInv /\ SendMemoryInv /\ SendRequestsInv
  BY DEF SendInv
<1>2. /\ MayPost(p) /\ p.writes = <<>> /\ sproxy' = q
      /\ Shared => /\ sfifo' = [sfifo EXCEPT ![(p.base + p.posted) % Steps].offset =
                                    p.posted % Depth]
                   /\ shead' = p.base + (p.posted + Slice(p)) - Steps
      /\ ~Shared => sfifo' = sfifo /\ shead' = shead
      /\ sgpu' = sgpu /\ stail' = stail /\ sreq' = sreq /\ sbuf' = sbuf /\ calls' = calls
  BY DEF SendProxyPost
<1>3. /\ Progressing(p) /\ p \in ProxyRecords /\ p.base \in Nat /\ p.done \in Nat
      /\ p.posted \in Nat /\ p.transmitted \in Nat
  BY <1>1 DEF SendProxyInv, Progressing, ProxyRecords
<1>4. PICK n \in Nat : At(n, p.op, p.posted, p.base)
  BY <1>3 DEF Progressing, OnGrid
<1>5. /\ Progressing(q) /\ Running(q) /\ q.posted = p.posted + Slice(p) /\ InWindow(q, n)
      /\ Plan[n].off = p.posted /\ From(n) = p.base + p.posted
      /\ \A m \in Nat : InWindow(q, m) <=> (m = n \/ InWindow(p, m))
  <2>1. q = [p EXCEPT !.posted = p.posted + Slice(p)] /\ MayPost(p) /\ Progressing(p)
    BY <1>2, <1>3
  <2> HIDE DEF p, q
  <2>2. p \in ProxyRecords /\ Running(p)
    BY <2>1 DEF Progressing, MayPost
  <2>3. Slice(p) \in Nat
    BY <2>1, <2>2, RunningOk
  <2>4. /\ q \in ProxyRecords /\ q.op = p.op /\ q.base = p.base /\ q.done = p.done
        /\ q.transmitted = p.transmitted /\ q.posted = p.posted + Slice(p)
    BY <2>1, <2>2, <2>3, PostRecord
  <2>5. MayPost(p) /\ Progressing(p)
    BY <2>1
  <2> QED BY <1>4, <2>4, <2>5, ProxyPosts
<1>6. /\ q.op = p.op /\ q.base = p.base /\ q.done = p.done /\ q.transmitted = p.transmitted
      /\ q.writes = p.writes
  BY <1>3 DEF ProxyRecords
<1>7. Slice(p) \in Nat \ {0}
  BY <1>2, <1>3, RunningOk DEF MayPost
<1>8. Steps \in Nat \ {0} /\ Depth \in Nat \ {0}
  BY DEF Configuration
<1>9. shead \in Int /\ shead' \in Int /\ shead <= shead'
  <2>1. shead \in Int /\ (Shared => shead <= p.base + p.posted - Steps)
    BY <1>1 DEF SendKernelInv, SendProxyInv
  <2>2. CASE Shared
    BY <1>2, <1>3, <1>7, <1>8, <2>1, <2>2
  <2>3. CASE ~Shared
    BY <1>2, <2>1, <2>3
  <2> QED BY <2>2, <2>3
<1> HIDE DEF q
<1>10. SendKernelInv'
  BY <1>1, <1>2, <1>9, HeadGrows
<1>11. SendProxyInv'
  <2>1. shead' <= IF Shared THEN q.base + q.posted - Steps ELSE q.base + q.done
    BY <1>1, <1>2, <1>3, <1>5, <1>6, <1>7, <1>8 DEF SendProxyInv
  <2>2. At(calls.send, q.op, q.transmitted, q.base) /\ calls.send <= calls.written
    BY <1>1, <1>6 DEF SendProxyInv
  <2>3. q.writes = <<>>
    BY <1>2, <1>6
  <2>4. Progressing(sproxy')
    BY <1>2, <1>5
  <2> QED BY <1>2, <2>1, <2>2, <2>3, <2>4
          DEF SendProxyInv, Progressing, OnGrid, Running, NSteps, Slice
<1>12. SendMemoryInv'
  <2>1. /\ sfifo \in [Slots -> [full : BOOLEAN, offset : Nat]] /\ sbuf \in [Slots -> Nat]
    BY <1>1 DEF SendMemoryInv
  <2>2. p.posted % Depth \in Nat
    BY <1>3, <1>8, Remainder
  <2>3. sfifo' \in [Slots -> [full : BOOLEAN, offset : Nat]]
    <3>1. CASE Shared
      BY <1>2, <2>1, <2>2, <3>1
    <3>2. CASE ~Shared
      BY <1>2, <2>1, <3>2
    <3> QED BY <3>1, <3>2
  <2>4. ASSUME Shared, NEW m \in Nat, InWindow(q, m)
        PROVE  sfifo'[From(m) % Steps].offset = Plan[m].off % Depth
    <3>1. From(m) % Steps \in Slots
      BY <1>8, PlanNumbers, Remainder DEF Slots
    <3>2. CASE m = n
      BY <1>2, <1>5, <2>1, <2>4, <3>1, <3>2
    <3>3. CASE m # n
      <4>1. From(m) % Steps # (p.base + p.posted) % Steps
        BY <1>5, <2>4, <3>3, WindowApart
      <4>2. sfifo[From(m) % Steps].offset = Plan[m].off % Depth
        BY <1>1, <1>5, <2>4, <3>3 DEF SendMemoryInv
      <4> QED BY <1>2, <2>1, <2>4, <3>1, <4>1, <4>2
    <3> QED BY <3>2, <3>3
  <2> QED BY <1>1, <1>2, <1>6, <2>3, <2>4 DEF SendMemoryInv, InWindow
<1>13. SendRequestsInv'
  BY <1>1, <1>2, <1>6 DEF SendRequestsInv
<1> QED BY <1>10, <1>11, <1>12, <1>13 DEF SendInv

\* The send request the proxy makes is for the next slice, which is written.
LEMMA SendProxyTransmitInv ==
    ASSUME Configuration, CallsOk, SendInv, SendProxyTransmit
    PROVE  SendInv' /\ CallsOk' /\ calls'.recv = calls.recv
<1> DEFINE p == sproxy
           n == calls.send
           slot == (p.base + p.transmitted) % Steps
           place == IF Shared THEN {sfifo[slot].offset}
                    ELSE SliceAt(p.base + p.transmitted, Slice(p))
           q == [p EXCEPT !.transmitted = p.transmitted + Slice(p)]
<1>1. /\ SendKernelInv /\ SendProxyInv /\ SendMemoryInv /\ SendRequestsInv
  BY DEF SendInv
<1>2. /\ Running(p) /\ p.writes = <<>> /\ p.transmitted < p.posted
      /\ stail > p.base + p.transmitted
      /\ sreq' = [sreq EXCEPT ![slot] = Request("send", n + 1, place)]
      /\ calls' = [calls EXCEPT !.send = n + 1]
      /\ sproxy' = q
      /\ sgpu' = sgpu /\ shead' = shead /\ stail' = stail /\ sfifo' = sfifo /\ sbuf' = sbuf
  BY DEF SendProxyTransmit
<1>3. /\ Progressing(p) /\ p \in ProxyRecords /\ p.base \in Nat /\ p.done \in Nat
      /\ p.posted \in Nat /\ p.transmitted \in Nat /\ p.done <= p.transmitted
      /\ p.posted <= NSteps(p)
  BY <1>1, <1>2 DEF SendProxyInv, Progressing, ProxyRecords
<1>4. /\ n \in Nat /\ calls.written \in Nat /\ At(n, p.op, p.transmitted, p.base)
  BY <1>1 DEF SendProxyInv, CallsOk
<1>5. /\ p.op \in 1 .. Len(Ops) /\ Slice(p) \in Nat \ {0} /\ NSteps(p) \in Nat
  BY <1>2, <1>3, RunningOk
<1>6. Steps \in Nat \ {0}
  BY DEF Configuration
<1>7. p.transmitted < NSteps(p)
  BY <1>2, <1>3, <1>5
<1>8. Plan[n] = [op |-> p.op, off |-> p.transmitted, step |-> p.base + p.transmitted]
  BY <1>3, <1>4, <1>5, <1>7, AtSlice DEF NSteps
<1>9. From(n) = p.base + p.transmitted /\ Plan[n].off = p.transmitted
  BY <1>8 DEF From
<1>10. InWindow(p, n)
  BY <1>2, <1>3, <1>9 DEF InWindow
<1>11. p.transmitted + Slice(p) <= p.posted /\ Size(Plan[n]) = Slice(p)
  BY <1>3, <1>4, <1>9, <1>10, WindowOk
<1>12. n < calls.written
  <2>1. From(calls.written) = sgpu.step /\ stail <= sgpu.step /\ sgpu.step \in Nat /\ stail \in Int
    BY <1>1 DEF SendKernelInv, From, KernelRecords
  <2>2. From(n) < From(calls.written)
    BY <1>2, <1>3, <1>9, <2>1
  <2>3. calls.written <= n => From(calls.written) <= From(n)
    BY <1>4, Ascending
  <2> QED BY <1>3, <1>4, <1>9, <2>1, <2>2, <2>3
<1>13. place = Place(n) /\ Place(n) \in SUBSET Slots
  <2>1. CASE Shared
    <3>1. sfifo[From(n) % Steps].offset = Plan[n].off % Depth
      BY <1>1, <1>4, <1>10, <2>1 DEF SendMemoryInv
    <3> QED BY <1>4, <1>9, <2>1, <3>1, PlaceOk DEF Place
  <2>2. CASE ~Shared
    BY <1>4, <1>9, <1>11, <2>2, PlaceOk DEF Place
  <2> QED BY <2>1, <2>2
<1>14. At(n + 1, p.op, p.transmitted + Slice(p), p.base)
  BY <1>3, <1>4, <1>5, <1>7, AtNext DEF Slice, NSteps
<1>15. /\ q \in ProxyRecords /\ q.op = p.op /\ q.base = p.base /\ q.done = p.done
       /\ q.posted = p.posted /\ q.writes = p.writes /\ q.transmitted = p.transmitted + Slice(p)
  BY <1>3, <1>5 DEF ProxyRecords
<1>16. /\ CallsOk' /\ calls'.send = n + 1 /\ calls'.written = calls.written
       /\ calls'.recv = calls.recv
  BY <1>2, <1>4 DEF CallsOk
<1>17. slot \in Slots /\ slot = From(n) % Steps
  BY <1>3, <1>6, <1>9, Remainder DEF Slots
<1> HIDE DEF q, slot, place, n
<1>18. SendKernelInv'
  BY <1>1, <1>2, <1>16 DEF SendKernelInv, Running
<1>19. SendProxyInv'
  <2>1. Progressing(q)
    <3>1. NSteps(q) = NSteps(p) /\ Slice(q) = Slice(p) /\ Running(q)
      BY <1>2, <1>15 DEF NSteps, Slice, Running
    <3>2. q.done <= q.transmitted /\ q.transmitted <= q.posted
      BY <1>3, <1>5, <1>11, <1>15
    <3> QED BY <1>2, <1>3, <1>15, <3>1, <3>2 DEF Progressing, OnGrid
  <2>2. n + 1 <= calls.written
    BY <1>4, <1>12
  <2>3. q.writes = <<>>
    BY <1>2, <1>15
  <2>4. At(n + 1, q.op, q.transmitted, q.base)
    BY <1>14, <1>15
  <2>5. Progressing(sproxy')
    BY <1>2, <2>1
  <2> QED BY <1>1, <1>2, <1>15, <1>16, <2>2, <2>3, <2>4, <2>5
          DEF SendProxyInv, Progressing, OnGrid, Running, NSteps, Slice
<1>20. SendMemoryInv'
  BY <1>1, <1>2, <1>15, <1>16 DEF SendMemoryInv, InWindow
<1>21. SendRequestsInv'
  <2>1. sreq \in [Slots -> Requests]
    BY <1>1 DEF SendRequestsInv
  <2> DEFINE r == Request("send", n + 1, place)
  <2>2. r \in Requests /\ r.kind = "send" /\ r.n = n + 1 /\ r.where = Place(n)
    BY <1>4, <1>13 DEF Request, Requests
  <2> HIDE DEF r
  <2>3. sreq' = [sreq EXCEPT ![slot] = r]
    BY <1>2 DEF r
  <2>4. sreq' \in [Slots -> Requests]
    BY <2>1, <2>2, <2>3
  <2>5. ASSUME NEW i \in Slots, sreq'[i].kind = "send"
        PROVE  \E m \in Nat : /\ m < n + 1 /\ From(m) >= q.base + q.done
                              /\ i = From(m) % Steps
                              /\ sreq'[i].n = m + 1 /\ sreq'[i].where = Place(m)
    <3>1. CASE i = slot
      <4>1. sreq'[i] = r
        BY <1>17, <2>1, <2>3, <3>1
      <4>2. n \in Nat /\ n < n + 1 /\ From(n) >= q.base + q.done /\ i = From(n) % Steps
        BY <1>3, <1>4, <1>9, <1>15, <1>17, <3>1
      <4> QED BY <2>2, <4>1, <4>2
    <3>2. CASE i # slot
      <4>1. sreq'[i] = sreq[i]
        BY <2>1, <2>3, <3>2
      <4>2. PICK m \in Nat : /\ m < n /\ From(m) >= p.base + p.done /\ i = From(m) % Steps
                             /\ sreq[i].n = m + 1 /\ sreq[i].where = Place(m)
        BY <1>1, <2>5, <4>1 DEF SendRequestsInv, n
      <4>3. m < n + 1
        BY <1>4, <4>2
      <4> QED BY <1>15, <4>1, <4>2, <4>3
    <3> QED BY <3>1, <3>2
  <2> QED BY <1>2, <1>16, <2>4, <2>5 DEF SendRequestsInv
<1> QED BY <1>16, <1>18, <1>19, <1>20, <1>21 DEF SendInv, n

\* A completed send is at the end of the window.
LEMMA SendProxyDoneInv ==
    ASSUME Configuration, CallsOk, SendInv, SendProxyDone
    PROVE  SendInv'
<1> DEFINE p == sproxy
           slot == (p.base + p.done) % Steps
           q == [p EXCEPT !.writes = DoneWrites]
<1>1. /\ SendKernelInv /\ SendProxyInv /\ SendMemoryInv /\ SendRequestsInv
  BY DEF SendInv
<1>2. /\ Running(p) /\ p.done < p.transmitted
      /\ sreq' = [sreq EXCEPT ![slot] = NoReq]
      /\ sproxy' = q
      /\ sgpu' = sgpu /\ shead' = shead /\ stail' = stail /\ sfifo' = sfifo /\ sbuf' = sbuf
      /\ calls' = calls
  BY DEF SendProxyDone
<1>3. /\ Progressing(p) /\ p \in ProxyRecords /\ p.base \in Nat /\ p.done \in Nat
  BY <1>1 DEF SendProxyInv, Progressing, ProxyRecords
<1>4. /\ DoneWrites \in {<<>>, <<"size">>, <<"size", "head">>, <<"head">>}
      /\ Shared => DoneWrites = <<"size">>
      /\ ~Shared => DoneWrites = <<"size", "head">>
  BY DEF DoneWrites
<1>5. /\ q \in ProxyRecords /\ q.op = p.op /\ q.base = p.base /\ q.done = p.done
      /\ q.posted = p.posted /\ q.writes = DoneWrites /\ q.transmitted = p.transmitted
  BY <1>3, <1>4 DEF ProxyRecords
<1>6. slot \in Slots
  BY <1>3, Remainder DEF Slots, Configuration
<1>7. sreq \in [Slots -> Requests]
  BY <1>1 DEF SendRequestsInv
<1> HIDE DEF q, slot
<1>8. sreq' \in [Slots -> Requests] /\ sreq'[slot].kind = "none"
  BY <1>2, <1>6, <1>7 DEF Requests, NoReq
<1>9. SendKernelInv'
  BY <1>1, <1>2 DEF SendKernelInv, Running
<1>10. SendProxyInv'
  <2>1. Running(sproxy') /\ sproxy'.done < sproxy'.transmitted
    BY <1>2, <1>5 DEF Running
  <2>2. Progressing(sproxy')
    BY <1>2, <1>3, <1>5 DEF Progressing, OnGrid, Running, NSteps, Slice
  <2>3. sreq'[(sproxy'.base + sproxy'.done) % Steps].kind # "send"
    BY <1>2, <1>5, <1>8 DEF slot
  <2>4. ~Shared => sproxy'.writes # <<"size">>
    <3>1. <<"size", "head">> # <<"size">>
      OBVIOUS
    <3> QED BY <1>2, <1>4, <1>5, <3>1
  <2>5. Shared => sproxy'.writes \in {<<>>, <<"size">>}
    BY <1>2, <1>4, <1>5
  <2>6. /\ shead <= (IF Shared THEN sproxy'.base + sproxy'.posted - Steps
                     ELSE sproxy'.base + sproxy'.done)
        /\ calls.send <= calls.written
        /\ At(calls.send, sproxy'.op, sproxy'.transmitted, sproxy'.base)
    BY <1>1, <1>2, <1>5 DEF SendProxyInv
  <2> QED BY <1>2, <2>1, <2>2, <2>3, <2>4, <2>5, <2>6
          DEF SendProxyInv, Progressing, OnGrid, Running, NSteps, Slice
<1>11. SendMemoryInv'
  BY <1>1, <1>2, <1>5 DEF SendMemoryInv, InWindow
<1>12. SendRequestsInv'
  <2>1. ASSUME NEW i \in Slots, sreq'[i].kind = "send"
        PROVE  sreq[i] = sreq'[i]
    BY <1>2, <1>7, <1>8, <2>1
  <2> QED BY <1>1, <1>2, <1>5, <1>8, <2>1 DEF SendRequestsInv
<1> QED BY <1>9, <1>10, <1>11, <1>12 DEF SendInv

\* The writes to the kernel's memory that wait, one by one.
LEMMA Written ==
    /\ Head(<<"size">>) = "size" /\ Tail(<<"size">>) = <<>>
    /\ Head(<<"head">>) = "head" /\ Tail(<<"head">>) = <<>>
    /\ Head(<<"size", "head">>) = "size" /\ Tail(<<"size", "head">>) = <<"head">>
    /\ <<"size">> # <<>> /\ <<"head">> # <<>> /\ <<"size", "head">> # <<>>
OBVIOUS

\* After the last write of a slice the proxy is done with it.
LEMMA SendProxyEndInv ==
    ASSUME Configuration, CallsOk, SendInv, sproxy.writes # <<>>,
           sproxy' = ProxyNext([sproxy EXCEPT !.writes = <<>>,
                                              !.done = sproxy.done + Slice(sproxy)]),
           sfifo' \in [Slots -> [full : BOOLEAN, offset : Nat]],
           \A b \in Slots : sfifo'[b].offset = sfifo[b].offset,
           shead' = IF Shared THEN shead ELSE sproxy.base + (sproxy.done + Slice(sproxy)),
           sgpu' = sgpu, stail' = stail, sreq' = sreq, sbuf' = sbuf, calls' = calls
    PROVE  SendInv'
<1> DEFINE p == sproxy
           d == p.done + Slice(p)
           q == [p EXCEPT !.writes = <<>>, !.done = d]
           r == ProxyNext(q)
<1>1. /\ SendKernelInv /\ SendProxyInv /\ SendMemoryInv /\ SendRequestsInv
  BY DEF SendInv
<1>2. /\ Running(p) /\ p.done < p.transmitted
      /\ sreq[(p.base + p.done) % Steps].kind # "send"
  BY <1>1 DEF SendProxyInv
<1>3. /\ Progressing(p) /\ p \in ProxyRecords /\ p.base \in Nat /\ p.done \in Nat
      /\ p.posted \in Nat /\ p.transmitted \in Nat /\ p.done <= p.transmitted
      /\ p.transmitted <= p.posted /\ p.posted <= NSteps(p)
  BY <1>1, <1>2 DEF SendProxyInv, Progressing, ProxyRecords
<1>4. /\ p.op \in 1 .. Len(Ops) /\ Slice(p) \in Nat \ {0} /\ NSteps(p) \in Nat
      /\ Steps \in Nat \ {0}
  BY <1>2, <1>3, RunningOk DEF Configuration
<1>5. PICK e \in Nat : At(e, p.op, p.done, p.base)
  BY <1>3 DEF Progressing, OnGrid
<1>6. p.done < NSteps(p)
  BY <1>2, <1>3, <1>4
<1>7. /\ Plan[e] = [op |-> p.op, off |-> p.done, step |-> p.base + p.done]
      /\ Size(Plan[e]) = Slice(p) /\ At(e + 1, p.op, d, p.base)
  BY <1>3, <1>4, <1>5, <1>6, AtSlice, AtNext DEF Slice, NSteps
<1>8. From(e) = p.base + p.done /\ To(e) = p.base + d
  BY <1>3, <1>4, <1>7 DEF From, To
<1>9. calls.send \in Nat /\ At(calls.send, p.op, p.transmitted, p.base)
  BY <1>1 DEF SendProxyInv, CallsOk
<1>10. d \in Nat /\ p.done < d
  BY <1>3, <1>4
<1>11. d <= p.transmitted
  <2>1. /\ e >= calls.send => From(e) >= p.base + p.transmitted
        /\ e < calls.send => To(e) <= p.base + p.transmitted
    BY <1>3, <1>9, AtCut
  <2>2. e < calls.send
    BY <1>2, <1>3, <1>5, <1>8, <1>9, <2>1
  <2> QED BY <1>3, <1>8, <1>10, <2>1, <2>2
<1>12. /\ q \in ProxyRecords /\ q.op = p.op /\ q.base = p.base /\ q.done = d
       /\ q.posted = p.posted /\ q.writes = <<>> /\ q.transmitted = p.transmitted
  <2> HIDE DEF d
  <2> QED BY <1>3, <1>10 DEF ProxyRecords
<1>13. sproxy' = r
  OBVIOUS
<1> HIDE DEF d, q, r
<1>14. OnGrid(p, q.done)
  BY <1>5, <1>7, <1>12 DEF OnGrid
<1>15. /\ Progressing(r) /\ p.base + d <= r.base + r.done
       /\ \A m \in Nat : From(m) >= r.base + r.done <=> From(m) >= p.base + d
       /\ \A m \in Nat : InWindow(r, m) <=> (InWindow(p, m) /\ From(m) >= p.base + d)
       /\ \/ r = q
          \/ /\ p.transmitted = NSteps(p) /\ p.posted = NSteps(p)
             /\ r.base >= p.base + NSteps(p)
             /\ r.posted = 0 /\ r.transmitted = 0 /\ r.writes = <<>>
             /\ \A n \in Nat : At(n, p.op, p.posted, p.base) =>
                   At(n, r.op, 0, r.base) /\ From(n) = r.base
  <2>1. r = ProxyNext(q) /\ p.done < q.done /\ q.done <= p.transmitted
    BY <1>10, <1>11, <1>12 DEF r
  <2> HIDE DEF p
  <2> QED BY <1>2, <1>3, <1>12, <1>14, <2>1, ProxyEnds
<1>16. r.writes = <<>> /\ At(calls.send, r.op, r.transmitted, r.base)
  <2>1. CASE r = q
    BY <1>9, <1>12, <2>1
  <2>2. CASE /\ p.transmitted = NSteps(p) /\ p.posted = NSteps(p)
             /\ r.transmitted = 0 /\ r.writes = <<>>
             /\ \A n \in Nat : At(n, p.op, p.posted, p.base) => At(n, r.op, 0, r.base)
    BY <1>9, <2>2
  <2> QED BY <1>15, <2>1, <2>2
<1>17. /\ r.base \in Nat /\ r.done \in Nat /\ r.posted \in Nat
  BY <1>15 DEF Progressing, ProxyRecords
<1>18. Shared => shead <= r.base + r.posted - Steps
  <2> SUFFICES ASSUME Shared PROVE shead <= r.base + r.posted - Steps
    OBVIOUS
  <2>1. shead \in Int /\ shead <= p.base + p.posted - Steps
    BY <1>1 DEF SendProxyInv, SendKernelInv
  <2>2. CASE r = q
    BY <1>12, <2>1, <2>2
  <2>3. CASE p.posted = NSteps(p) /\ r.base >= p.base + NSteps(p) /\ r.posted = 0
    BY <1>3, <1>4, <1>17, <2>1, <2>3
  <2> QED BY <1>15, <2>2, <2>3
<1>19. shead \in Int /\ shead' \in Int /\ shead <= shead'
  <2>1. shead \in Int /\ (~Shared => shead <= p.base + p.done)
    BY <1>1 DEF SendProxyInv, SendKernelInv
  <2>2. shead' = IF Shared THEN shead ELSE p.base + d
    BY DEF d
  <2> QED BY <1>3, <1>10, <2>1, <2>2
<1>20. SendKernelInv'
  BY <1>1, <1>19, HeadGrows
<1>21. SendProxyInv'
  <2>1. shead' <= IF Shared THEN r.base + r.posted - Steps ELSE r.base + r.done
    <3>1. shead' = IF Shared THEN shead ELSE p.base + d
      BY DEF d
    <3> QED BY <1>15, <1>18, <3>1
  <2>2. Progressing(sproxy')
    BY <1>13, <1>15
  <2>3. calls.send <= calls.written
    BY <1>1 DEF SendProxyInv
  <2> QED BY <1>13, <1>16, <2>1, <2>2, <2>3
          DEF SendProxyInv, Progressing, OnGrid, Running, NSteps, Slice
<1>22. SendMemoryInv'
  <2>1. ASSUME Shared, NEW m \in Nat, InWindow(r, m)
        PROVE  sfifo'[From(m) % Steps].offset = Plan[m].off % Depth
    <3>1. From(m) % Steps \in Slots
      BY <1>4, PlanNumbers, Remainder DEF Slots
    <3>2. sfifo[From(m) % Steps].offset = Plan[m].off % Depth
      BY <1>1, <1>15, <2>1 DEF SendMemoryInv
    <3> QED BY <3>1, <3>2
  <2>2. ASSUME NEW m \in Nat, m < calls.written, From(m) >= r.base + r.done, NEW b \in Place(m)
        PROVE  sbuf[b] = m + 1
    <3>1. From(m) >= p.base + d /\ From(m) \in Nat
      BY <1>15, <2>2, PlanNumbers
    <3>2. From(m) >= p.base + p.done
      BY <1>3, <1>10, <3>1
    <3> QED BY <1>1, <2>2, <3>2 DEF SendMemoryInv
  <2>3. sbuf \in [Slots -> Nat]
    BY <1>1 DEF SendMemoryInv
  <2> QED BY <1>13, <2>1, <2>2, <2>3 DEF SendMemoryInv, InWindow
<1>23. SendRequestsInv'
  <2>1. sreq \in [Slots -> Requests]
    BY <1>1 DEF SendRequestsInv
  <2>2. ASSUME NEW i \in Slots, sreq[i].kind = "send"
        PROVE  \E m \in Nat : /\ m < calls.send /\ From(m) >= r.base + r.done
                              /\ i = From(m) % Steps
                              /\ sreq[i].n = m + 1 /\ sreq[i].where = Place(m)
    <3>1. PICK m \in Nat : /\ m < calls.send /\ From(m) >= p.base + p.done
                           /\ i = From(m) % Steps
                           /\ sreq[i].n = m + 1 /\ sreq[i].where = Place(m)
      BY <1>1, <2>2 DEF SendRequestsInv
    <3>2. m # e
      BY <1>2, <1>8, <2>2, <3>1
    <3>3. /\ From(m) \in Nat /\ (m < e => From(m) < From(e)) /\ (e < m => To(e) <= From(m))
      BY <1>5, Ascending, PlanNumbers
    <3>4. From(m) >= p.base + d
      BY <1>3, <1>5, <1>8, <1>10, <3>1, <3>2, <3>3
    <3> QED BY <1>15, <3>1, <3>4
  <2> QED BY <1>13, <2>1, <2>2 DEF SendRequestsInv
<1> QED BY <1>20, <1>21, <1>22, <1>23 DEF SendInv

\* A write that reaches the kernel's memory gives room for what was sent only.
LEMMA SendProxyWriteInv ==
    ASSUME Configuration, CallsOk, SendInv, SendProxyWrite
    PROVE  SendInv'
<1> DEFINE p == sproxy
           slot == (p.base + p.done) % Steps
           d == p.done + Slice(p)
           rest == Tail(p.writes)
<1>1. /\ SendKernelInv /\ SendProxyInv /\ SendMemoryInv /\ SendRequestsInv
  BY DEF SendInv
<1>2. /\ p.writes # <<>>
      /\ IF Head(p.writes) = "size"
         THEN sfifo' = [sfifo EXCEPT ![slot].full = FALSE] /\ shead' = shead
         ELSE shead' = p.base + d /\ sfifo' = sfifo
      /\ sproxy' = IF rest # <<>> THEN [p EXCEPT !.writes = rest]
                   ELSE ProxyNext([p EXCEPT !.writes = <<>>, !.done = d])
      /\ sgpu' = sgpu /\ stail' = stail /\ sreq' = sreq /\ sbuf' = sbuf /\ calls' = calls
  BY DEF SendProxyWrite
<1>3. /\ p \in ProxyRecords /\ Progressing(p)
      /\ Shared => p.writes \in {<<>>, <<"size">>}
      /\ ~Shared => p.writes # <<"size">>
  BY <1>1, <1>2 DEF SendProxyInv, Progressing
<1>4. sfifo \in [Slots -> [full : BOOLEAN, offset : Nat]]
  BY <1>1 DEF SendMemoryInv
<1> HIDE DEF slot, rest
<1>5. /\ sfifo' \in [Slots -> [full : BOOLEAN, offset : Nat]]
      /\ \A b \in Slots : sfifo'[b].offset = sfifo[b].offset
  <2>1. CASE Head(p.writes) = "size"
    <3>1. sfifo' = [sfifo EXCEPT ![slot].full = FALSE]
      BY <1>2, <2>1
    <3> QED BY <1>4, <3>1
  <2>2. CASE Head(p.writes) # "size"
    <3>1. sfifo' = sfifo
      BY <1>2, <2>2
    <3> QED BY <1>4, <3>1
  <2> QED BY <2>1, <2>2
<1>6. p.writes \in {<<"size">>, <<"size", "head">>, <<"head">>}
  BY <1>2, <1>3 DEF ProxyRecords
<1>7. CASE p.writes = <<"size">>
  <2>1. Shared /\ rest = <<>> /\ shead' = shead
    BY <1>2, <1>3, <1>7, Written DEF rest
  <2> QED BY <1>2, <1>5, <2>1, SendProxyEndInv
<1>8. CASE p.writes = <<"head">>
  <2>1. "head" # "size" /\ <<"head">> # <<"size">>
    OBVIOUS
  <2>2. ~Shared /\ rest = <<>> /\ shead' = p.base + d
    BY <1>2, <1>3, <1>8, <2>1, Written DEF rest
  <2> QED BY <1>2, <1>5, <2>2, SendProxyEndInv
<1>9. CASE p.writes = <<"size", "head">>
  <2> DEFINE q == [p EXCEPT !.writes = <<"head">>]
  <2>1. /\ rest = <<"head">> /\ shead' = shead /\ sproxy' = q
    BY <1>2, <1>9, Written DEF rest
  <2>2. ~Shared /\ <<"head">> # <<"size">>
    <3>1. <<"size", "head">> # <<"size">> /\ <<"head">> # <<"size">>
      OBVIOUS
    <3> QED BY <1>2, <1>3, <1>9, <3>1
  <2>3. /\ q \in ProxyRecords /\ q.op = p.op /\ q.base = p.base /\ q.done = p.done
        /\ q.posted = p.posted /\ q.writes = <<"head">> /\ q.transmitted = p.transmitted
    BY <1>3 DEF ProxyRecords
  <2> HIDE DEF q
  <2>4. SendKernelInv'
    BY <1>1, <1>2, <2>1 DEF SendKernelInv, Running
  <2>5. SendProxyInv'
    <3>1. Progressing(sproxy')
      BY <1>3, <2>1, <2>3 DEF Progressing, OnGrid, Running, NSteps, Slice
    <3>2. /\ Running(p) /\ p.done < p.transmitted
          /\ sreq[(p.base + p.done) % Steps].kind # "send"
          /\ calls.send <= calls.written /\ At(calls.send, p.op, p.transmitted, p.base)
          /\ shead <= p.base + p.done
      BY <1>1, <1>2, <2>2 DEF SendProxyInv
    <3>3. Running(sproxy')
      BY <2>1, <2>3, <3>2 DEF Running
    <3> QED BY <1>2, <2>1, <2>2, <2>3, <3>1, <3>2, <3>3
            DEF SendProxyInv, Progressing, OnGrid, Running, NSteps, Slice
  <2>6. SendMemoryInv'
    <3>1. ASSUME Shared PROVE FALSE
      BY <2>2, <3>1
    <3>2. \A m \in Nat : m < calls.written /\ From(m) >= p.base + p.done =>
              \A b \in Place(m) : sbuf[b] = m + 1
      BY <1>1 DEF SendMemoryInv
    <3>3. sbuf \in [Slots -> Nat]
      BY <1>1 DEF SendMemoryInv
    <3> QED BY <1>2, <1>5, <2>1, <2>3, <3>1, <3>2, <3>3 DEF SendMemoryInv
  <2>7. SendRequestsInv'
    BY <1>1, <1>2, <2>1, <2>3 DEF SendRequestsInv
  <2> QED BY <2>4, <2>5, <2>6, <2>7 DEF SendInv
<1> QED BY <1>6, <1>7, <1>8, <1>9

-----------------------------------------------------------------------------
(* The receiving proxy.                                                    *)

\* What a proxy's record says, as numbers.
LEMMA RecvNumbers ==
    ASSUME RecvProxyInv
    PROVE  /\ Progressing(rproxy) /\ rproxy \in ProxyRecords
           /\ rproxy.base \in Nat /\ rproxy.done \in Nat /\ rproxy.posted \in Nat
           /\ rproxy.transmitted \in Nat /\ rproxy.received \in Nat
           /\ rproxy.done <= rproxy.transmitted /\ rproxy.transmitted <= rproxy.received
           /\ rproxy.received <= rproxy.posted
BY DEF RecvProxyInv, Progressing, ProxyRecords

\* A receive is posted into buffers of no other slice under way.
LEMMA RecvProxyPostInv ==
    ASSUME Configuration, CallsOk, RecvInv, RecvProxyPost
    PROVE  /\ RecvInv' /\ CallsOk'
           /\ calls'.written = calls.written /\ calls'.send = calls.send
<1> DEFINE p == rproxy
           n == calls.recv
           q == [p EXCEPT !.posted = p.posted + Slice(p)]
           slot == (p.base + p.posted) % Steps
           place == IF Shared THEN {p.posted % Depth}
                    ELSE SliceAt(p.base + p.posted, Slice(p))
           i == p.posted % Steps
           req == Request("recv", n + 1, place)
<1>1. /\ RecvKernelInv /\ RecvProxyInv /\ RecvMemoryInv /\ RecvRequestsInv
  BY DEF RecvInv
<1>2. /\ MayPost(p)
      /\ roffset' = IF Shared THEN [roffset EXCEPT ![slot] = p.posted % Depth] ELSE roffset
      /\ rreq' = [rreq EXCEPT ![i] = req]
      /\ calls' = [calls EXCEPT !.recv = n + 1]
      /\ rproxy' = q
      /\ rgpu' = rgpu /\ rhead' = rhead /\ rtail' = rtail /\ got' = got
      /\ rbuf' = rbuf /\ landing' = landing
  BY DEF RecvProxyPost
<1>3. /\ Progressing(p) /\ p \in ProxyRecords
      /\ p.base \in Nat /\ p.done \in Nat /\ p.posted \in Nat
      /\ p.transmitted \in Nat /\ p.received \in Nat
      /\ p.transmitted <= p.received /\ p.received <= p.posted
  BY <1>1, RecvNumbers
<1>4. n \in Nat /\ At(n, p.op, p.posted, p.base)
  BY <1>1 DEF RecvProxyInv, CallsOk
<1>5. /\ Progressing(q) /\ Running(q) /\ q.posted = p.posted + Slice(p)
      /\ At(n + 1, p.op, q.posted, p.base) /\ InWindow(q, n)
      /\ Plan[n].op = p.op /\ Plan[n].off = p.posted /\ From(n) = p.base + p.posted
      /\ Size(Plan[n]) = Slice(p)
      /\ \A m \in Nat : InWindow(q, m) <=> (m = n \/ InWindow(p, m))
  <2>1. q = [p EXCEPT !.posted = p.posted + Slice(p)] /\ MayPost(p) /\ Progressing(p)
    BY <1>2, <1>3
  <2> HIDE DEF p, q, n
  <2>2. p \in ProxyRecords /\ Running(p)
    BY <2>1 DEF Progressing, MayPost
  <2>3. Slice(p) \in Nat
    BY <2>1, <2>2, RunningOk
  <2>4. /\ q \in ProxyRecords /\ q.op = p.op /\ q.base = p.base /\ q.done = p.done
        /\ q.transmitted = p.transmitted /\ q.posted = p.posted + Slice(p)
    BY <2>1, <2>2, <2>3, PostRecord
  <2>5. MayPost(p) /\ Progressing(p)
    BY <2>1
  <2> QED BY <1>4, <2>4, <2>5, ProxyPosts
<1>6. /\ q.op = p.op /\ q.base = p.base /\ q.done = p.done /\ q.transmitted = p.transmitted
      /\ q.received = p.received
  BY <1>3 DEF ProxyRecords
<1>7. Steps \in Nat \ {0} /\ Depth \in Nat \ {0} /\ Slice(p) \in Nat \ {0}
  BY <1>2, <1>3, RunningOk DEF MayPost, Configuration
<1>8. place = Place(n) /\ Place(n) \in SUBSET Slots
  BY <1>4, <1>5, PlaceOk DEF Place
<1>9. req \in Requests /\ req.kind = "recv" /\ req.n = n + 1 /\ req.where = Place(n)
  BY <1>4, <1>8 DEF Request, Requests
<1>10. /\ CallsOk' /\ calls'.recv = n + 1 /\ calls'.written = calls.written
       /\ calls'.send = calls.send
  BY <1>2, <1>4 DEF CallsOk
<1>11. i \in Slots /\ slot \in Slots /\ p.posted % Depth \in Nat
  <2>1. i \in Slots
    BY <1>3, <1>7, Remainder DEF Slots
  <2>2. p.base + p.posted \in Nat
    BY <1>3
  <2>3. slot \in Slots
    BY <1>7, <2>2, Remainder DEF Slots
  <2>4. p.posted % Depth \in Nat
    <3>1. p.posted % Depth \in 0 .. Depth - 1
      BY <1>3, <1>7, Remainder
    <3> QED BY <1>7, <3>1
  <2> QED BY <2>1, <2>3, <2>4
<1>12. Plan[n].off % Steps = i /\ From(n) % Steps = slot
  BY <1>5
<1> HIDE DEF q, n, req, i, slot, place
<1>13. RecvKernelInv'
  BY <1>1, <1>2 DEF RecvKernelInv, Running
<1>14. RecvProxyInv'
  <2>1. q.received <= q.posted
    BY <1>3, <1>5, <1>6, <1>7
  <2>2. OnGrid(q, q.received) /\ OnGrid(q, q.transmitted)
    BY <1>1, <1>6 DEF RecvProxyInv, OnGrid
  <2>3. Progressing(rproxy')
    BY <1>2, <1>5
  <2>4. /\ rtail \in Nat /\ rtail <= p.base + p.transmitted /\ p.base + p.done <= rgpu.step
    BY <1>1 DEF RecvProxyInv
  <2> QED BY <1>2, <1>3, <1>5, <1>6, <1>10, <2>1, <2>2, <2>3, <2>4
          DEF RecvProxyInv, Progressing, OnGrid, Running, NSteps, Slice
<1>15. rreq \in [Slots -> Requests] /\ rreq' \in [Slots -> Requests] /\ rreq'[i] = req
  BY <1>1, <1>2, <1>9, <1>11 DEF RecvRequestsInv
<1>16. RecvMemoryInv'
  <2>1. /\ roffset \in [Slots -> Nat] /\ rbuf \in [Slots -> Nat]
        /\ landing \in [Slots -> Nat \cup {None}]
        /\ ~Late => \A b \in Slots : landing[b] = None
    BY <1>1 DEF RecvMemoryInv
  <2>2. roffset' \in [Slots -> Nat]
    BY <1>2, <1>11, <2>1
  <2>3. ASSUME Shared, NEW m \in Nat, InWindow(q, m)
        PROVE  roffset'[From(m) % Steps] = Plan[m].off % Depth
    <3>1. From(m) % Steps \in Slots
      BY <1>7, PlanNumbers, Remainder DEF Slots
    <3>2. CASE m = n
      BY <1>2, <1>5, <1>12, <2>1, <2>3, <3>1, <3>2
    <3>3. CASE m # n
      <4>1. From(m) % Steps # slot
        BY <1>4, <1>5, <1>12, <2>3, <3>3, WindowApart
      <4>2. roffset[From(m) % Steps] = Plan[m].off % Depth
        BY <1>1, <1>5, <2>3, <3>3 DEF RecvMemoryInv
      <4> QED BY <1>2, <2>1, <2>3, <3>1, <4>1, <4>2
    <3> QED BY <3>2, <3>3
  <2>4. ASSUME NEW m \in Nat, InWindow(q, m) PROVE Stage(m)'
    <3>1. CASE m = n
      <4>1. Plan[m].off >= p.received /\ Plan[m].off >= p.transmitted /\ Plan[m].off \in Nat
        BY <1>3, <1>5, <3>1
      <4>2. Requested(m)'
        <5>1. rreq'[Plan[m].off % Steps] = req
          BY <1>12, <1>15, <3>1
        <5>2. "recv" # "complete"
          OBVIOUS
        <5> QED BY <1>9, <3>1, <5>1, <5>2 DEF Requested
      <4>3. ~(Plan[m].off < p.received) /\ ~(Plan[m].off < p.transmitted)
        BY <1>3, <4>1
      <4> QED BY <1>2, <1>6, <4>1, <4>2, <4>3 DEF Stage
    <3>2. CASE m # n
      <4>1. Stage(m)
        BY <1>1, <1>5, <2>4, <3>2 DEF RecvMemoryInv
      <4>2. Plan[m].off % Steps # i
        BY <1>4, <1>5, <1>12, <2>4, <3>2, WindowApart
      <4>3. rreq'[Plan[m].off % Steps] = rreq[Plan[m].off % Steps]
        BY <1>2, <1>15, <4>2
      <4> QED BY <1>2, <1>6, <4>1, <4>3 DEF Stage, Requested, Flushing, Arrived, Landed
    <3> QED BY <3>1, <3>2
  <2>5. \A m \in Nat : InWindow(rproxy', m) <=> InWindow(q, m)
    BY <1>2
  <2> QED BY <1>2, <2>1, <2>2, <2>3, <2>4, <2>5 DEF RecvMemoryInv, InWindow
<1>17. RecvRequestsInv'
  <2>1. ASSUME NEW j \in Slots, rreq'[j].kind = "recv"
        PROVE  \E m \in Nat : /\ InWindow(q, m) /\ Plan[m].off >= q.received
                              /\ j = Plan[m].off % Steps
    <3>1. CASE j = i
      <4>1. Plan[n].off >= q.received
        BY <1>3, <1>5, <1>6
      <4> QED BY <1>4, <1>5, <1>12, <3>1, <4>1
    <3>2. CASE j # i
      <4>1. rreq[j].kind = "recv"
        BY <1>2, <1>15, <2>1, <3>2
      <4>2. PICK m \in Nat : InWindow(p, m) /\ Plan[m].off >= p.received /\ j = Plan[m].off % Steps
        BY <1>1, <4>1 DEF RecvRequestsInv
      <4> QED BY <1>5, <1>6, <4>2
    <3> QED BY <3>1, <3>2
  <2> QED BY <1>2, <1>15, <2>1 DEF RecvRequestsInv, InWindow
<1> QED BY <1>10, <1>13, <1>14, <1>16, <1>17 DEF RecvInv

\* The slice at the place from which a proxy goes on, and the others under way.
LEMMA SliceUnderWay ==
    ASSUME Configuration, NEW p, Progressing(p), NEW off \in Nat, OnGrid(p, off),
           p.done <= off, off < p.posted
    PROVE  \E n \in Nat :
              /\ InWindow(p, n) /\ Plan[n].off = off /\ From(n) = p.base + off
              /\ Slice(p) \in Nat \ {0} /\ off + Slice(p) <= p.posted
              /\ At(n + 1, p.op, off + Slice(p), p.base)
              /\ \A m \in Nat : InWindow(p, m) /\ m # n =>
                    /\ Plan[m].off \in Nat /\ Plan[m].off # off
                    /\ Plan[m].off < off + Slice(p) => Plan[m].off < off
                    /\ Plan[m].off % Steps # off % Steps
<1>1. /\ p.base \in Nat /\ p.done \in Nat /\ p.posted \in Nat
  BY DEF Progressing, ProxyRecords
<1>2. Running(p) /\ p.posted <= NSteps(p)
  BY <1>1 DEF Progressing
<1>3. /\ p.op \in 1 .. Len(Ops) /\ Slice(p) \in Nat \ {0} /\ NSteps(p) \in Nat
  BY <1>2, RunningOk
<1>4. PICK n \in Nat : At(n, p.op, off, p.base)
  BY DEF OnGrid
<1>5. off < NSteps(p)
  BY <1>1, <1>2, <1>3
<1>6. /\ Plan[n] = [op |-> p.op, off |-> off, step |-> p.base + off]
      /\ At(n + 1, p.op, off + Slice(p), p.base)
  BY <1>1, <1>3, <1>4, <1>5, AtSlice, AtNext DEF Slice, NSteps
<1>7. Plan[n].off = off /\ From(n) = p.base + off
  BY <1>6 DEF From
<1>8. InWindow(p, n)
  BY <1>1, <1>7 DEF InWindow
<1>9. off + Slice(p) <= p.posted /\ To(n) = From(n) + Slice(p)
  BY <1>7, <1>8, WindowOk
<1>10. ASSUME NEW m \in Nat, InWindow(p, m), m # n
       PROVE  /\ Plan[m].off \in Nat /\ Plan[m].off # off
              /\ Plan[m].off < off + Slice(p) => Plan[m].off < off
              /\ Plan[m].off % Steps # off % Steps
  <2>1. Plan[m].off \in Nat /\ From(m) = p.base + Plan[m].off
    BY <1>10, WindowOk
  <2>2. Plan[m].off # off /\ Plan[m].off % Steps # off % Steps
    BY <1>7, <1>8, <1>10, WindowApart
  <2>3. n < m => To(n) <= From(m)
    BY Ascending
  <2>4. m < n => From(m) < From(n)
    BY Ascending
  <2>5. Plan[m].off < off + Slice(p) => Plan[m].off < off
    BY <1>1, <1>3, <1>7, <1>9, <1>10, <2>1, <2>3, <2>4
  <2> QED BY <2>1, <2>2, <2>5
<1> QED BY <1>3, <1>6, <1>7, <1>8, <1>9, <1>10

\* A completed receive has brought its slice, perhaps not yet into view.
LEMMA RecvProxyReceiveInv ==
    ASSUME Configuration, CallsOk, RecvInv, RecvProxyReceive
    PROVE  RecvInv'
<1> DEFINE p == rproxy
           i == p.received % Steps
           req == IF Late THEN Iflush(rreq[i]) ELSE NoReq
           q == [p EXCEPT !.received = p.received + Slice(p)]
<1>1. /\ RecvKernelInv /\ RecvProxyInv /\ RecvMemoryInv /\ RecvRequestsInv
  BY DEF RecvInv
<1>2. /\ Running(p) /\ p.posted > p.received /\ rreq[i].kind = "complete"
      /\ rreq' = [rreq EXCEPT ![i] = req]
      /\ rproxy' = q
      /\ rgpu' = rgpu /\ rhead' = rhead /\ rtail' = rtail /\ got' = got /\ roffset' = roffset
      /\ rbuf' = rbuf /\ landing' = landing /\ calls' = calls
  BY DEF RecvProxyReceive, Received
<1>3. /\ Progressing(p) /\ p \in ProxyRecords
      /\ p.base \in Nat /\ p.done \in Nat /\ p.posted \in Nat
      /\ p.transmitted \in Nat /\ p.received \in Nat
      /\ p.done <= p.transmitted /\ p.transmitted <= p.received /\ p.received <= p.posted
  BY <1>1, RecvNumbers
<1>4. PICK n \in Nat :
         /\ InWindow(p, n) /\ Plan[n].off = p.received
         /\ Slice(p) \in Nat \ {0} /\ p.received + Slice(p) <= p.posted
         /\ At(n + 1, p.op, p.received + Slice(p), p.base)
         /\ \A m \in Nat : InWindow(p, m) /\ m # n =>
               /\ Plan[m].off \in Nat /\ Plan[m].off # p.received
               /\ Plan[m].off < p.received + Slice(p) => Plan[m].off < p.received
               /\ Plan[m].off % Steps # i
  <2>1. OnGrid(p, p.received) /\ p.done <= p.received /\ p.received < p.posted
    BY <1>1, <1>2, <1>3 DEF RecvProxyInv
  <2> QED BY <1>3, <2>1, SliceUnderWay
<1>5. Requested(n)
  <2>1. Stage(n)
    BY <1>1, <1>4 DEF RecvMemoryInv
  <2> QED BY <1>3, <1>4, <2>1 DEF Stage
<1>6. rreq[i].where = Place(n) /\ Arrived(n) /\ rreq[i].n = n + 1
  BY <1>2, <1>4, <1>5 DEF Requested
<1>7. i \in Slots /\ Plan[n].off % Steps = i
  BY <1>3, <1>4, Remainder DEF Slots, Configuration
<1>8. /\ req \in Requests /\ req.kind \in {"none", "flush"} /\ req.kind # "recv"
      /\ IF Late THEN req.kind = "flush" /\ req.where = Place(n) ELSE req.kind = "none"
  <2>1. CASE Late
    <3>1. rreq[i] \in [kind : {"send", "recv", "flush", "complete"}, n : Nat, where : SUBSET Slots]
      BY <1>1, <1>2, <1>7 DEF RecvRequestsInv, Requests, NoReq
    <3>2. req = [rreq[i] EXCEPT !.kind = "flush"]
      BY <2>1 DEF Iflush, Configuration
    <3> HIDE DEF req
    <3> QED BY <1>6, <2>1, <3>1, <3>2 DEF Requests
  <2>2. CASE ~Late
    BY <2>2 DEF Requests, NoReq
  <2> QED BY <2>1, <2>2
<1>9. /\ q \in ProxyRecords /\ q.op = p.op /\ q.base = p.base /\ q.done = p.done
      /\ q.posted = p.posted /\ q.transmitted = p.transmitted
      /\ q.received = p.received + Slice(p)
  BY <1>3, <1>4 DEF ProxyRecords
<1>10. rreq \in [Slots -> Requests] /\ rreq' \in [Slots -> Requests] /\ rreq'[i] = req
  BY <1>1, <1>2, <1>7, <1>8 DEF RecvRequestsInv
<1> HIDE DEF q, i, req
<1>11. RecvKernelInv'
  BY <1>1, <1>2 DEF RecvKernelInv, Running
<1>12. RecvProxyInv'
  <2>1. q.transmitted <= q.received /\ q.received <= q.posted
    BY <1>3, <1>4, <1>9
  <2>2. OnGrid(q, q.received) /\ OnGrid(q, q.transmitted)
    BY <1>1, <1>4, <1>9 DEF RecvProxyInv, OnGrid
  <2>3. Progressing(rproxy')
    BY <1>2, <1>3, <1>9 DEF Progressing, OnGrid, Running, NSteps, Slice
  <2>4. /\ rtail \in Nat /\ rtail <= p.base + p.transmitted /\ p.base + p.done <= rgpu.step
        /\ At(calls.recv, p.op, p.posted, p.base)
    BY <1>1 DEF RecvProxyInv
  <2> QED BY <1>2, <1>9, <2>1, <2>2, <2>3, <2>4
          DEF RecvProxyInv, Progressing, OnGrid, Running, NSteps, Slice
<1>13. RecvMemoryInv'
  <2>1. ASSUME NEW m \in Nat, InWindow(p, m) PROVE Stage(m)'
    <3>1. CASE m = n
      <4>1. /\ Plan[m].off = p.received /\ p.received < q.received
            /\ ~(p.received < p.transmitted) /\ ~(p.received >= q.received)
        BY <1>3, <1>4, <1>9, <3>1
      <4>2. Arrived(m)'
        BY <1>2, <1>6, <3>1 DEF Arrived
      <4>3. Flushing(m)'
        <5>1. rreq'[Plan[m].off % Steps] = req
          BY <1>7, <1>10, <3>1
        <5>2. "flush" # "complete"
          OBVIOUS
        <5> QED BY <1>8, <3>1, <5>1, <5>2 DEF Flushing
      <4> QED BY <1>2, <1>9, <4>1, <4>2, <4>3 DEF Stage
    <3>2. CASE m # n
      <4>1. Stage(m)
        BY <1>1, <2>1 DEF RecvMemoryInv
      <4>2. /\ Plan[m].off \in Nat /\ Plan[m].off % Steps # i
            /\ Plan[m].off < q.received => Plan[m].off < p.received
            /\ Plan[m].off >= q.received => Plan[m].off >= p.received
        BY <1>3, <1>4, <1>9, <2>1, <3>2
      <4>3. rreq'[Plan[m].off % Steps] = rreq[Plan[m].off % Steps]
        BY <1>2, <1>10, <4>2
      <4> QED BY <1>2, <1>9, <4>1, <4>2, <4>3 DEF Stage, Requested, Flushing, Arrived, Landed
    <3> QED BY <3>1, <3>2
  <2> QED BY <1>1, <1>2, <1>9, <2>1 DEF RecvMemoryInv, InWindow
<1>14. RecvRequestsInv'
  <2>1. ASSUME NEW j \in Slots, rreq'[j].kind = "recv"
        PROVE  \E m \in Nat : /\ InWindow(p, m) /\ Plan[m].off >= q.received
                              /\ j = Plan[m].off % Steps
    <3>1. j # i /\ rreq[j].kind = "recv"
      BY <1>2, <1>8, <1>10, <2>1
    <3>2. PICK m \in Nat : InWindow(p, m) /\ Plan[m].off >= p.received /\ j = Plan[m].off % Steps
      BY <1>1, <3>1 DEF RecvRequestsInv
    <3>3. m # n
      BY <1>7, <3>1, <3>2
    <3>4. Plan[m].off >= q.received
      BY <1>3, <1>4, <1>9, <3>2, <3>3
    <3> QED BY <3>2, <3>4
  <2> QED BY <1>2, <1>9, <1>10, <2>1 DEF RecvRequestsInv, InWindow
<1> QED BY <1>11, <1>12, <1>13, <1>14 DEF RecvInv

\* What is counted as transmitted has landed: its flush has completed.
LEMMA RecvProxyTransmitInv ==
    ASSUME Configuration, CallsOk, RecvInv, RecvProxyTransmit
    PROVE  RecvInv'
<1> DEFINE p == rproxy
           i == p.transmitted % Steps
           q == [p EXCEPT !.transmitted = p.transmitted + Slice(p)]
<1>1. /\ RecvKernelInv /\ RecvProxyInv /\ RecvMemoryInv /\ RecvRequestsInv
  BY DEF RecvInv
<1>2. /\ Running(p) /\ p.received > p.transmitted /\ rreq[i].kind \in {"none", "complete"}
      /\ rreq' = [rreq EXCEPT ![i] = NoReq]
      /\ rtail' = p.base + p.transmitted + Slice(p)
      /\ rproxy' = q
      /\ rgpu' = rgpu /\ rhead' = rhead /\ got' = got /\ roffset' = roffset
      /\ rbuf' = rbuf /\ landing' = landing /\ calls' = calls
  BY DEF RecvProxyTransmit, Flushed
<1>3. /\ Progressing(p) /\ p \in ProxyRecords
      /\ p.base \in Nat /\ p.done \in Nat /\ p.posted \in Nat
      /\ p.transmitted \in Nat /\ p.received \in Nat
      /\ p.done <= p.transmitted /\ p.transmitted <= p.received /\ p.received <= p.posted
  BY <1>1, RecvNumbers
<1>4. PICK n \in Nat :
         /\ InWindow(p, n) /\ Plan[n].off = p.transmitted /\ From(n) = p.base + p.transmitted
         /\ Slice(p) \in Nat \ {0} /\ p.transmitted + Slice(p) <= p.posted
         /\ At(n + 1, p.op, p.transmitted + Slice(p), p.base)
         /\ \A m \in Nat : InWindow(p, m) /\ m # n =>
               /\ Plan[m].off \in Nat /\ Plan[m].off # p.transmitted
               /\ Plan[m].off < p.transmitted + Slice(p) => Plan[m].off < p.transmitted
               /\ Plan[m].off % Steps # i
  <2>1. OnGrid(p, p.transmitted) /\ p.transmitted < p.posted
    BY <1>1, <1>2, <1>3 DEF RecvProxyInv
  <2> QED BY <1>3, <2>1, SliceUnderWay
<1>5. Landed(n)
  <2>1. Stage(n)
    BY <1>1, <1>4 DEF RecvMemoryInv
  <2>2. Arrived(n) /\ Flushing(n)
    BY <1>2, <1>3, <1>4, <2>1 DEF Stage
  <2>3. CASE Late
    <3>1. "none" \notin {"flush", "complete"}
      OBVIOUS
    <3> QED BY <1>2, <1>4, <2>2, <2>3, <3>1 DEF Flushing
  <2>4. CASE ~Late
    <3>1. \A b \in Slots : landing[b] = None
      BY <1>1, <2>4 DEF RecvMemoryInv
    <3>2. Place(n) \in SUBSET Slots
      BY PlaceOk
    <3>3. None # n + 1
      BY DEF None
    <3> QED BY <2>2, <3>1, <3>2, <3>3 DEF Arrived, Landed
  <2> QED BY <2>3, <2>4
<1>6. p.transmitted + Slice(p) <= p.received
  <2>1. PICK e \in Nat : At(e, p.op, p.received, p.base)
    BY <1>1 DEF RecvProxyInv, OnGrid
  <2>2. /\ n >= e => From(n) >= p.base + p.received
        /\ n < e => To(n) <= p.base + p.received
    BY <1>3, <2>1, AtCut
  <2>3. To(n) = From(n) + Slice(p)
    BY <1>3, <1>4, WindowOk
  <2> QED BY <1>2, <1>3, <1>4, <2>2, <2>3
<1>7. i \in Slots /\ Plan[n].off % Steps = i
  BY <1>3, <1>4, Remainder DEF Slots, Configuration
<1>8. NoReq \in Requests /\ NoReq.kind # "recv"
  BY DEF Requests, NoReq
<1>9. /\ q \in ProxyRecords /\ q.op = p.op /\ q.base = p.base /\ q.done = p.done
      /\ q.posted = p.posted /\ q.received = p.received
      /\ q.transmitted = p.transmitted + Slice(p)
  <2>1. p \in ProxyRecords /\ p.transmitted + Slice(p) \in Nat
    BY <1>3, <1>4
  <2> QED BY <2>1, TransmitRecord
<1>10. rreq \in [Slots -> Requests] /\ rreq' \in [Slots -> Requests] /\ rreq'[i] = NoReq
  BY <1>1, <1>2, <1>7, <1>8 DEF RecvRequestsInv
<1> HIDE DEF q, i
<1>11. /\ rtail \in Nat /\ rtail <= p.base + p.transmitted
       /\ rtail' \in Nat /\ rtail <= rtail' /\ rtail' <= q.base + q.transmitted
  <2>1. rtail \in Nat /\ rtail <= p.base + p.transmitted
    BY <1>1 DEF RecvProxyInv
  <2> QED BY <1>2, <1>3, <1>4, <1>9, <2>1
<1>12. RecvKernelInv'
  <2>1. Len(got) \in Nat
    BY <1>1 DEF RecvKernelInv
  <2>2. To(Len(got)) \in Nat
    BY <2>1, PlanNumbers
  <2>3. To(Len(got)) <= rtail => To(Len(got)) <= rtail'
    BY <1>11, <2>2
  <2> QED BY <1>1, <1>2, <2>3 DEF RecvKernelInv, Running
<1>13. RecvProxyInv'
  <2>1. q.transmitted <= q.received /\ q.received <= q.posted /\ q.done <= q.transmitted
        /\ q.transmitted <= q.posted
    BY <1>3, <1>4, <1>6, <1>9
  <2>2. OnGrid(q, q.received) /\ OnGrid(q, q.transmitted)
    BY <1>1, <1>4, <1>9 DEF RecvProxyInv, OnGrid
  <2>3. Progressing(rproxy')
    BY <1>2, <1>3, <1>9, <2>1 DEF Progressing, OnGrid, Running, NSteps, Slice
  <2>4. /\ p.base + p.done <= rgpu.step /\ At(calls.recv, p.op, p.posted, p.base)
    BY <1>1 DEF RecvProxyInv
  <2> QED BY <1>2, <1>9, <1>11, <2>1, <2>2, <2>3, <2>4
          DEF RecvProxyInv, Progressing, OnGrid, Running, NSteps, Slice
<1>14. RecvMemoryInv'
  <2>1. ASSUME NEW m \in Nat, InWindow(p, m) PROVE Stage(m)'
    <3>0. Stage(m)
      BY <1>1, <2>1 DEF RecvMemoryInv
    <3>1. CASE m = n
      <4>1. /\ Plan[m].off = p.transmitted /\ p.transmitted < q.transmitted
            /\ p.transmitted < q.received
            /\ ~(p.transmitted >= q.transmitted) /\ ~(p.transmitted >= q.received)
        BY <1>2, <1>3, <1>4, <1>9, <3>1
      <4>2. Landed(m)' /\ Arrived(m)'
        BY <1>2, <1>5, <3>1 DEF Landed, Arrived
      <4> QED BY <1>2, <1>9, <4>1, <4>2 DEF Stage
    <3>2. CASE m # n
      <4>2. /\ Plan[m].off \in Nat /\ Plan[m].off % Steps # i
            /\ Plan[m].off < q.transmitted => Plan[m].off < p.transmitted
            /\ Plan[m].off >= q.transmitted => Plan[m].off >= p.transmitted
        BY <1>3, <1>4, <1>9, <2>1, <3>2
      <4>3. rreq'[Plan[m].off % Steps] = rreq[Plan[m].off % Steps]
        BY <1>2, <1>10, <4>2
      <4> QED BY <1>2, <1>9, <3>0, <4>2, <4>3 DEF Stage, Requested, Flushing, Arrived, Landed
    <3> QED BY <3>1, <3>2
  <2> QED BY <1>1, <1>2, <1>9, <2>1 DEF RecvMemoryInv, InWindow
<1>15. RecvRequestsInv'
  <2>1. ASSUME NEW j \in Slots, rreq'[j].kind = "recv"
        PROVE  \E m \in Nat : /\ InWindow(p, m) /\ Plan[m].off >= q.received
                              /\ j = Plan[m].off % Steps
    <3>1. rreq[j].kind = "recv"
      BY <1>2, <1>8, <1>10, <2>1
    <3> QED BY <1>1, <1>9, <3>1 DEF RecvRequestsInv
  <2> QED BY <1>2, <1>9, <1>10, <2>1 DEF RecvRequestsInv, InWindow
<1> QED BY <1>12, <1>13, <1>14, <1>15 DEF RecvInv

\* What the kernel has read below what was transmitted ends a slice of the
\* proxy's operation, or is where the kernel waits to read on.
LEMMA RecvReadPlace ==
    ASSUME Configuration, RecvKernelInv, RecvProxyInv, Running(rproxy),
           NEW read \in Int, read = rhead - rproxy.base, read > rproxy.done
    PROVE  LET d == IF read < rproxy.transmitted THEN read ELSE rproxy.transmitted
           IN  d = rproxy.transmitted \/ OnGrid(rproxy, d)
<1> DEFINE p == rproxy
           n == Len(got)
<1>1. /\ Progressing(p) /\ p \in ProxyRecords
      /\ p.base \in Nat /\ p.done \in Nat /\ p.posted \in Nat
      /\ p.transmitted \in Nat /\ p.received \in Nat
      /\ p.done <= p.transmitted /\ p.transmitted <= p.received /\ p.received <= p.posted
  BY RecvNumbers
<1>2. p.op \in 1 .. Len(Ops) /\ NSteps(p) \in Nat /\ p.posted <= NSteps(p)
  BY <1>1, RunningOk DEF Progressing
<1>3. n \in Nat /\ rhead \in Nat /\ Plan[n] = [op |-> rgpu.op, off |-> rgpu.done, step |-> rgpu.step]
  BY DEF RecvKernelInv
<1>4. PICK e \in Nat : At(e, p.op, p.done, p.base)
  BY <1>1 DEF Progressing, OnGrid
<1> SUFFICES ASSUME read < p.transmitted PROVE OnGrid(p, read)
  OBVIOUS
<1>5. p.base <= rhead /\ rhead < p.base + NSteps(p) /\ rhead = p.base + read /\ read \in Nat
      /\ rhead > p.base + p.done
  <2>1. read < p.transmitted /\ read > p.done /\ read = rhead - p.base /\ read \in Int
    OBVIOUS
  <2> DEFINE a == p.base
             b == p.done
             t == p.transmitted
             s == NSteps(p)
  <2>2. t <= s
    BY <1>1, <1>2
  <2>3. a \in Nat /\ b \in Nat /\ t \in Nat /\ s \in Nat /\ rhead \in Nat /\ read = rhead - a
        /\ read < t /\ read > b
    BY <1>1, <1>2, <1>3, <2>1
  <2> HIDE DEF a, b, t, s
  <2>4. a <= rhead /\ rhead < a + s /\ rhead = a + read /\ read \in Nat /\ rhead > a + b
    BY <2>2, <2>3
  <2> QED BY <2>4 DEF a, b, s
<1>6. CASE rgpu.at # "start"
  <2>1. rhead = From(n)
    BY <1>3, <1>6 DEF RecvKernelInv, From
  <2>2. Plan[n] = [op |-> p.op, off |-> From(n) - p.base, step |-> From(n)]
    <3>1. p.base <= From(n) /\ From(n) < p.base + Ops[p.op].nsteps
      BY <1>5, <2>1 DEF NSteps
    <3>2. p.base \in Nat /\ p.done \in Nat
      BY <1>1
    <3> HIDE DEF p, n
    <3> QED BY <1>2, <1>3, <1>4, <3>1, <3>2, InOperation
  <2>3. From(n) - p.base = read
    BY <1>1, <1>5, <2>1
  <2>4. Plan[n] = [op |-> p.op, off |-> read, step |-> p.base + read]
    BY <1>5, <2>1, <2>2, <2>3
  <2> QED BY <1>3, <2>4 DEF OnGrid, At
<1>7. CASE rgpu.at = "start"
  <2>1. n > 0 /\ rhead = To(n - 1) /\ Plan[n - 1].op < rgpu.op
    <3>1. rhead # 0
      <4>1. p.base \in Nat /\ p.done \in Nat /\ rhead > p.base + p.done
        BY <1>1, <1>5
      <4> QED BY <4>1
    <3> QED BY <1>7, <3>1 DEF RecvKernelInv
  <2>2. n - 1 \in Nat /\ (n - 1) + 1 = n
    BY <1>3, <2>1
  <2> DEFINE m == n - 1
  <2>3. m \in Nat /\ rhead = To(m) /\ Plan[m].op < rgpu.op /\ Plan[m + 1].op = rgpu.op
    BY <1>3, <2>1, <2>2
  <2> HIDE DEF m, n
  <2>4. From(m) \in Nat /\ To(m) \in Nat /\ From(m) < To(m) /\ Plan[m].op \in Nat
    BY <2>3, PlanNumbers
  <2>5. From(m) >= p.base + p.done
    <3>1. m < e => To(m) <= p.base + p.done
      BY <1>1, <1>4, <2>3, AtCut
    <3>2. m >= e => From(m) >= p.base + p.done
      BY <1>1, <1>4, <2>3, AtCut
    <3> QED BY <1>1, <1>4, <1>5, <2>3, <2>4, <3>1, <3>2
  <2>6. p.base <= From(m) /\ From(m) < p.base + Ops[p.op].nsteps
    <3>1. p.base \in Nat /\ p.done \in Nat /\ NSteps(p) \in Nat
      BY <1>1, <1>2
    <3>2. From(m) < To(m) /\ To(m) < p.base + NSteps(p)
      BY <1>5, <2>3, <2>4
    <3>3. p.base <= From(m) /\ From(m) < p.base + NSteps(p)
      BY <2>4, <2>5, <3>1, <3>2
    <3> QED BY <3>3 DEF NSteps
  <2>7. /\ Plan[m] = [op |-> p.op, off |-> From(m) - p.base, step |-> From(m)]
        /\ Size(Plan[m]) = Ops[p.op].slice /\ To(m) = From(m) + Ops[p.op].slice
    <3>1. p.op \in 1 .. Len(Ops) /\ p.done \in Nat /\ p.base \in Nat /\ e \in Nat
      BY <1>1, <1>2, <1>4
    <3>2. At(e, p.op, p.done, p.base) /\ m \in Nat
      BY <1>4, <2>3
    <3> QED BY <2>6, <3>1, <3>2, InOperation
  <2>8. Plan[m].op = p.op /\ Plan[m].off = From(m) - p.base
    BY <2>7
  <2>9. Plan[m].off + Size(Plan[m]) = NSteps(p)
    <3>1. Follows(Plan[m], Plan[m + 1])
      BY <2>3, PlanOk
    <3>2. Plan[m + 1].op # Plan[m].op
      BY <2>3, <2>4
    <3>3. Plan[m].off + Size(Plan[m]) = Ops[Plan[m].op].nsteps
      BY <3>1, <3>2 DEF Follows
    <3> QED BY <2>8, <3>3 DEF NSteps
  <2>10. Ops[p.op].slice \in Nat
    BY <1>2, OpsOk
  <2>11. To(m) = p.base + NSteps(p)
    <3>1. Size(Plan[m]) = Ops[p.op].slice /\ To(m) = From(m) + Ops[p.op].slice
      BY <2>7
    <3>2. (From(m) - p.base) + Ops[p.op].slice = NSteps(p)
      BY <2>8, <2>9, <3>1
    <3>3. p.base \in Nat /\ NSteps(p) \in Nat
      BY <1>1, <1>2
    <3> QED BY <2>4, <2>10, <3>1, <3>2, <3>3
  <2> QED BY <1>2, <1>1, <1>5, <2>3, <2>11
<1> QED BY <1>6, <1>7

\* The proxy is done with slices the kernel has read.
LEMMA RecvProxyDoneInv ==
    ASSUME Configuration, CallsOk, RecvInv, RecvProxyDone
    PROVE  RecvInv'
<1> DEFINE p == rproxy
           read == rhead - p.base
           d == IF read < p.transmitted THEN read ELSE p.transmitted
           q == [p EXCEPT !.done = d]
           r == ProxyNext(q)
<1>1. /\ RecvKernelInv /\ RecvProxyInv /\ RecvMemoryInv /\ RecvRequestsInv
  BY DEF RecvInv
<1>2. /\ Running(p) /\ p.transmitted > p.done /\ read > p.done
      /\ rproxy' = r
      /\ rgpu' = rgpu /\ rhead' = rhead /\ rtail' = rtail /\ got' = got /\ roffset' = roffset
      /\ rbuf' = rbuf /\ landing' = landing /\ calls' = calls /\ rreq' = rreq
  BY DEF RecvProxyDone
<1>3. /\ Progressing(p) /\ p \in ProxyRecords
      /\ p.base \in Nat /\ p.done \in Nat /\ p.posted \in Nat
      /\ p.transmitted \in Nat /\ p.received \in Nat
      /\ p.done <= p.transmitted /\ p.transmitted <= p.received /\ p.received <= p.posted
  BY <1>1, RecvNumbers
<1>4. /\ Len(got) \in Nat /\ rhead \in Nat /\ rgpu.step \in Nat
      /\ From(Len(got)) = rgpu.step
  BY <1>1 DEF RecvKernelInv, KernelRecords, From
<1>5. read \in Int
  BY <1>3, <1>4
<1>6. d \in Nat /\ p.done < d /\ d <= p.transmitted /\ d <= read
  BY <1>2, <1>3, <1>5
<1>7. OnGrid(p, d)
  <2>1. OnGrid(p, p.transmitted)
    BY <1>1 DEF RecvProxyInv
  <2> QED BY <1>1, <1>2, <1>5, <2>1, RecvReadPlace
<1>8. rhead <= rgpu.step
  <2>1. CASE rgpu.at = "start"
    <3>1. CASE Len(got) = 0 /\ rhead = 0
      BY <1>4, <3>1
    <3>2. CASE Len(got) > 0 /\ rhead = To(Len(got) - 1)
      <4>1. Len(got) - 1 \in Nat /\ Len(got) - 1 < Len(got)
        BY <1>4, <3>2
      <4>2. To(Len(got) - 1) <= From(Len(got))
        BY <1>4, <4>1, Ascending
      <4> QED BY <1>4, <3>2, <4>2
    <3> QED BY <1>1, <2>1, <3>1, <3>2 DEF RecvKernelInv
  <2>2. CASE rgpu.at # "start"
    BY <1>1, <1>4, <2>2 DEF RecvKernelInv
  <2> QED BY <2>1, <2>2
<1>9. p.base + d <= rgpu.step
  BY <1>3, <1>4, <1>6, <1>8
<1>10. /\ q \in ProxyRecords /\ q.op = p.op /\ q.base = p.base /\ q.done = d
       /\ q.posted = p.posted /\ q.received = p.received /\ q.transmitted = p.transmitted
  <2> HIDE DEF d
  <2> QED BY <1>3, <1>6 DEF ProxyRecords
<1> HIDE DEF d, q, r, read
<1>11. /\ Progressing(r)
       /\ \A m \in Nat : InWindow(r, m) <=> (InWindow(p, m) /\ From(m) >= p.base + d)
       /\ \/ r = q
          \/ /\ d = NSteps(p) /\ p.transmitted = NSteps(p) /\ p.posted = NSteps(p)
             /\ r.base >= p.base + NSteps(p)
             /\ r.posted = 0 /\ r.received = 0 /\ r.transmitted = 0 /\ r.done = 0
             /\ \A n \in Nat : At(n, p.op, p.posted, p.base) =>
                   At(n, r.op, 0, r.base) /\ From(n) = r.base
  <2>1. r = ProxyNext(q) /\ p.done < q.done /\ q.done <= p.transmitted /\ OnGrid(p, q.done)
    BY <1>6, <1>7, <1>10 DEF r
  <2> HIDE DEF p
  <2> QED BY <1>2, <1>3, <1>10, <2>1, ProxyEnds
<1>12. At(calls.recv, p.op, p.posted, p.base) /\ calls.recv \in Nat
  BY <1>1 DEF RecvProxyInv, CallsOk
<1>13. RecvKernelInv'
  BY <1>1, <1>2 DEF RecvKernelInv, Running
<1>14. rtail \in Nat /\ rtail <= p.base + p.transmitted
  BY <1>1 DEF RecvProxyInv
<1>15. CASE r = q
  <2>1. RecvProxyInv'
    <3>1. OnGrid(q, q.received) /\ OnGrid(q, q.transmitted)
      BY <1>1, <1>10 DEF RecvProxyInv, OnGrid
    <3>2. Progressing(rproxy')
      BY <1>2, <1>11
    <3> QED BY <1>2, <1>3, <1>9, <1>10, <1>12, <1>14, <1>15, <3>1, <3>2
            DEF RecvProxyInv, Progressing, OnGrid, Running, NSteps, Slice
  <2>2. RecvMemoryInv'
    <3>1. ASSUME NEW m \in Nat, InWindow(r, m) PROVE InWindow(p, m) /\ Stage(m)'
      <4>1. InWindow(p, m)
        BY <1>11, <3>1
      <4>2. Stage(m)
        BY <1>1, <4>1 DEF RecvMemoryInv
      <4> QED BY <1>2, <1>10, <1>15, <4>1, <4>2
              DEF Stage, Requested, Flushing, Arrived, Landed
    <3> QED BY <1>1, <1>2, <3>1 DEF RecvMemoryInv, InWindow
  <2>3. RecvRequestsInv'
    <3>1. ASSUME NEW j \in Slots, rreq[j].kind = "recv"
          PROVE  \E m \in Nat : /\ InWindow(r, m) /\ Plan[m].off >= r.received
                                /\ j = Plan[m].off % Steps
      <4>1. PICK m \in Nat : InWindow(p, m) /\ Plan[m].off >= p.received /\ j = Plan[m].off % Steps
        BY <1>1, <3>1 DEF RecvRequestsInv
      <4>2. From(m) = p.base + Plan[m].off /\ Plan[m].off \in Nat
        BY <1>3, <4>1, WindowOk
      <4>3. From(m) >= p.base + d
        BY <1>3, <1>6, <4>1, <4>2
      <4> QED BY <1>10, <1>11, <1>15, <4>1, <4>3
    <3> QED BY <1>1, <1>2, <3>1 DEF RecvRequestsInv, InWindow
  <2> QED BY <1>13, <2>1, <2>2, <2>3 DEF RecvInv
<1>16. CASE /\ d = NSteps(p) /\ p.transmitted = NSteps(p) /\ p.posted = NSteps(p)
            /\ r.base >= p.base + NSteps(p)
            /\ r.posted = 0 /\ r.received = 0 /\ r.transmitted = 0 /\ r.done = 0
            /\ \A n \in Nat : At(n, p.op, p.posted, p.base) =>
                  At(n, r.op, 0, r.base) /\ From(n) = r.base
  <2>0. r.base \in Nat /\ NSteps(p) \in Nat
    BY <1>3, <1>11, <1>16 DEF Progressing, ProxyRecords
  <2>1. At(calls.recv, r.op, 0, r.base) /\ From(calls.recv) = r.base
    BY <1>12, <1>16
  <2>2. RecvProxyInv'
    <3>1. r.base <= rgpu.step
      <4>1. Len(got) < calls.recv => From(Len(got)) < p.base + p.posted
        BY <1>3, <1>4, <1>12, AtCut
      <4>2. calls.recv <= Len(got)
        BY <1>3, <1>4, <1>9, <1>12, <1>16, <4>1
      <4>3. From(calls.recv) <= From(Len(got))
        BY <1>4, <1>12, <4>2, Ascending
      <4> QED BY <1>4, <2>1, <4>3
    <3>2. OnGrid(r, 0)
      BY <1>12, <2>1 DEF OnGrid
    <3>3. rtail <= r.base + r.transmitted /\ r.base + r.done <= rgpu.step
      BY <1>3, <1>14, <1>16, <2>0, <3>1
    <3>4. Progressing(rproxy')
      BY <1>2, <1>11
    <3> QED BY <1>2, <1>14, <1>16, <2>1, <3>2, <3>3, <3>4
            DEF RecvProxyInv, Progressing, OnGrid, Running, NSteps, Slice
  <2>3. \A m \in Nat : ~InWindow(r, m) /\ ~(InWindow(p, m) /\ From(m) >= p.base + d)
    <3> TAKE m \in Nat
    <3>1. From(m) \in Nat
      BY PlanNumbers
    <3> QED BY <1>3, <1>11, <1>16, <2>0, <3>1 DEF InWindow
  <2>4. RecvMemoryInv'
    BY <1>1, <1>2, <2>3 DEF RecvMemoryInv, InWindow
  <2>5. RecvRequestsInv'
    <3>1. \A j \in Slots : rreq[j].kind # "recv"
      <4> SUFFICES ASSUME NEW j \in Slots, rreq[j].kind = "recv" PROVE FALSE
        OBVIOUS
      <4>1. PICK m \in Nat : InWindow(p, m) /\ Plan[m].off >= p.received
        BY <1>1 DEF RecvRequestsInv
      <4>2. Plan[m].off \in Nat /\ Plan[m].off < p.posted
        BY <1>3, <4>1, WindowOk
      <4> QED BY <1>3, <1>16, <2>0, <4>1, <4>2
    <3> QED BY <1>1, <1>2, <3>1 DEF RecvRequestsInv
  <2> QED BY <1>13, <2>2, <2>4, <2>5 DEF RecvInv
<1> QED BY <1>11, <1>15, <1>16

-----------------------------------------------------------------------------
(* The receiving kernel.                                                   *)
LEMMA RecvSlice ==
    ASSUME Configuration, RecvKernelInv, Running(rgpu)
    PROVE  /\ Len(got) \in Nat /\ Slice(rgpu) \in Nat \ {0}
           /\ Size(Plan[Len(got)]) = Slice(rgpu) /\ From(Len(got)) = rgpu.step
           /\ To(Len(got)) = rgpu.step + Slice(rgpu)
<1> DEFINE n == Len(got)
<1>1. n \in Nat /\ Plan[n] = [op |-> rgpu.op, off |-> rgpu.done, step |-> rgpu.step]
  BY DEF RecvKernelInv
<1>2. rgpu.op \in 1 .. Len(Ops)
  BY OpsLength DEF RecvKernelInv, KernelRecords, Running
<1>3. Slice(rgpu) \in Nat \ {0}
  BY <1>2, OpsOk DEF Slice
<1> HIDE DEF n
<1>4. Plan[n].op = rgpu.op /\ Plan[n].step = rgpu.step
  BY <1>1
<1>5. Size(Plan[n]) = Slice(rgpu)
  BY <1>2, <1>4, OpsLength DEF Size, Slice
<1> QED BY <1>1, <1>3, <1>4, <1>5 DEF From, To, n

\* What the kernel was told of is in the GPU's memory, and its buffers are not
\* posted again before it has given room.
LEMMA ToldIsLanded ==
    ASSUME Configuration, RecvInv, To(Len(got)) <= rtail
    PROVE  InWindow(rproxy, Len(got)) /\ Landed(Len(got))
<1> DEFINE n == Len(got)
           p == rproxy
<1>1. /\ RecvKernelInv /\ RecvProxyInv /\ RecvMemoryInv
  BY DEF RecvInv
<1>2. n \in Nat /\ From(n) = rgpu.step
  BY <1>1 DEF RecvKernelInv, From
<1>3. From(n) \in Nat /\ To(n) \in Nat /\ From(n) < To(n)
  BY <1>2, PlanNumbers
<1>4. /\ Progressing(p) /\ p.base \in Nat /\ p.done \in Nat /\ p.posted \in Nat
      /\ p.transmitted \in Nat /\ p.received \in Nat
      /\ p.transmitted <= p.received /\ p.received <= p.posted
  BY <1>1, RecvNumbers
<1>5. rtail \in Nat /\ rtail <= p.base + p.transmitted /\ p.base + p.done <= rgpu.step
  BY <1>1 DEF RecvProxyInv
<1> HIDE DEF n, p
<1>6. To(n) <= rtail
  BY DEF n
<1>7. InWindow(p, n)
  BY <1>2, <1>3, <1>4, <1>5, <1>6 DEF InWindow
<1>8. Plan[n].off \in Nat /\ From(n) = p.base + Plan[n].off
  BY <1>2, <1>4, <1>7, WindowOk
<1>9. Plan[n].off < p.transmitted
  BY <1>3, <1>4, <1>5, <1>6, <1>8
<1>10. Stage(n)
  BY <1>1, <1>2, <1>7 DEF RecvMemoryInv, p
<1> QED BY <1>7, <1>9, <1>10 DEF Stage, n, p

\* An operation of the kernel starts at the step its proxy starts it at.
LEMMA RecvStartInv ==
    ASSUME Configuration, RecvInv, RecvStart
    PROVE  RecvInv'
<1>1. /\ RecvKernelInv /\ RecvProxyInv /\ RecvMemoryInv /\ RecvRequestsInv
  BY DEF RecvInv
<1>2. /\ rhead' = rgpu.step /\ rgpu' = [rgpu EXCEPT !.at = "wait"]
      /\ rproxy' = rproxy /\ rtail' = rtail /\ got' = got /\ roffset' = roffset
      /\ rbuf' = rbuf /\ landing' = landing /\ calls' = calls /\ rreq' = rreq
  BY DEF RecvStart
<1>3. rgpu \in KernelRecords
  BY <1>1 DEF RecvKernelInv
<1>4. /\ rgpu' \in KernelRecords /\ rgpu'.op = rgpu.op /\ rgpu'.done = rgpu.done
      /\ rgpu'.step = rgpu.step /\ rgpu'.at = "wait" /\ rgpu.step \in Nat
  BY <1>2, <1>3 DEF KernelRecords
<1>5. RecvKernelInv'
  <2>1. "wait" # "start" /\ "wait" # "copy"
    OBVIOUS
  <2> QED BY <1>1, <1>2, <1>4, <2>1 DEF RecvKernelInv
<1>6. RecvProxyInv'
  BY <1>1, <1>2, <1>4 DEF RecvProxyInv, Progressing, OnGrid, Running, NSteps, Slice
<1>7. RecvMemoryInv'
  BY <1>1, <1>2 DEF RecvMemoryInv, InWindow, Stage, Requested, Flushing, Arrived, Landed
<1>8. RecvRequestsInv'
  BY <1>1, <1>2 DEF RecvRequestsInv, InWindow
<1> QED BY <1>5, <1>6, <1>7, <1>8 DEF RecvInv

\* The kernel that sees a slice counted finds it, whole, in its buffers.
LEMMA RecvWaitInv ==
    ASSUME Configuration, RecvInv, RecvWait
    PROVE  RecvInv'
<1> DEFINE n == Len(got)
           place == IF Shared THEN {roffset[rgpu.step % Steps]}
                    ELSE SliceAt(rgpu.step, Slice(rgpu))
           saw == Content(rbuf, place)
<1>1. /\ RecvKernelInv /\ RecvProxyInv /\ RecvMemoryInv /\ RecvRequestsInv
  BY DEF RecvInv
<1>2. /\ Running(rgpu) /\ rgpu.at = "wait" /\ rtail >= rgpu.step + Slice(rgpu)
      /\ rgpu' = [rgpu EXCEPT !.at = "copy", !.where = place, !.saw = saw]
      /\ rproxy' = rproxy /\ rhead' = rhead /\ rtail' = rtail /\ got' = got /\ roffset' = roffset
      /\ rbuf' = rbuf /\ landing' = landing /\ calls' = calls /\ rreq' = rreq
  BY DEF RecvWait
<1>3. /\ n \in Nat /\ Slice(rgpu) \in Nat \ {0} /\ Size(Plan[n]) = Slice(rgpu)
      /\ From(n) = rgpu.step /\ To(n) = rgpu.step + Slice(rgpu)
  BY <1>1, <1>2, RecvSlice
<1>4. rgpu \in KernelRecords /\ rgpu.step \in Nat /\ rtail \in Nat /\ rhead = rgpu.step
  BY <1>1, <1>2 DEF RecvKernelInv, RecvProxyInv, KernelRecords
<1>5. To(n) <= rtail
  BY <1>2, <1>3, <1>4
<1>6. InWindow(rproxy, n) /\ Landed(n)
  BY <1>5, ToldIsLanded
<1>7. place = Place(n)
  <2>1. CASE Shared
    <3>1. roffset[From(n) % Steps] = Plan[n].off % Depth
      BY <1>1, <1>3, <1>6, <2>1 DEF RecvMemoryInv
    <3> QED BY <1>3, <2>1, <3>1 DEF Place
  <2>2. CASE ~Shared
    BY <1>3, <2>2 DEF Place
  <2> QED BY <2>1, <2>2
<1>8. saw = n + 1
  <2>1. \A b \in Place(n) : rbuf[b] = n + 1
    BY <1>6 DEF Landed
  <2> HIDE DEF place, n
  <2> QED BY <1>3, <1>7, <2>1, ContentOf
<1>9. Place(n) \in SUBSET Slots
  BY <1>3, PlaceOk
<1> HIDE DEF n, place, saw
<1>10. /\ rgpu' \in KernelRecords /\ rgpu'.op = rgpu.op /\ rgpu'.done = rgpu.done
       /\ rgpu'.step = rgpu.step /\ rgpu'.at = "copy" /\ rgpu'.where = Place(n)
       /\ rgpu'.saw = n + 1
  <2> DEFINE w == Place(n)
             s == n + 1
  <2>1. /\ w \in SUBSET Slots /\ s \in Nat /\ rgpu \in KernelRecords
        /\ rgpu' = [rgpu EXCEPT !.at = "copy", !.where = w, !.saw = s]
    BY <1>2, <1>3, <1>4, <1>7, <1>8, <1>9
  <2> HIDE DEF w, s
  <2>2. /\ rgpu'.op = rgpu.op /\ rgpu'.done = rgpu.done /\ rgpu'.step = rgpu.step
        /\ rgpu'.at = "copy" /\ rgpu'.where = w /\ rgpu'.saw = s
    BY <2>1 DEF KernelRecords
  <2>3. rgpu' \in KernelRecords
    BY <2>1 DEF KernelRecords
  <2> QED BY <2>2, <2>3 DEF w, s
<1>11. RecvKernelInv'
  <2>1. "copy" # "start"
    OBVIOUS
  <2>2. Running(rgpu')
    BY <1>2, <1>10 DEF Running
  <2> QED BY <1>1, <1>2, <1>4, <1>5, <1>10, <2>1, <2>2 DEF RecvKernelInv, Running, n
<1>12. RecvProxyInv'
  BY <1>1, <1>2, <1>10 DEF RecvProxyInv, Progressing, OnGrid, Running, NSteps, Slice
<1>13. RecvMemoryInv'
  BY <1>1, <1>2 DEF RecvMemoryInv, InWindow, Stage, Requested, Flushing, Arrived, Landed
<1>14. RecvRequestsInv'
  BY <1>1, <1>2 DEF RecvRequestsInv, InWindow
<1> QED BY <1>11, <1>12, <1>13, <1>14 DEF RecvInv

\* What the kernel has read it makes room for.
LEMMA RecvPostInv ==
    ASSUME Configuration, RecvInv, RecvPost
    PROVE  RecvInv'
<1> DEFINE n == Len(got)
           read == Content(rbuf, rgpu.where)
           v == IF read = rgpu.saw THEN read ELSE Torn
<1>1. /\ RecvKernelInv /\ RecvProxyInv /\ RecvMemoryInv /\ RecvRequestsInv
  BY DEF RecvInv
<1>2. /\ Running(rgpu) /\ rgpu.at = "copy"
      /\ got' = Append(got, v)
      /\ rhead' = rgpu.step + Slice(rgpu)
      /\ rgpu' = KernelNext(rgpu, "start")
      /\ rproxy' = rproxy /\ rtail' = rtail /\ roffset' = roffset
      /\ rbuf' = rbuf /\ landing' = landing /\ calls' = calls /\ rreq' = rreq
  BY DEF RecvPost
<1>3. /\ n \in Nat /\ Slice(rgpu) \in Nat \ {0} /\ Size(Plan[n]) = Slice(rgpu)
      /\ From(n) = rgpu.step /\ To(n) = rgpu.step + Slice(rgpu)
  BY <1>1, <1>2, RecvSlice
<1>4. /\ rgpu \in KernelRecords /\ rgpu.step \in Nat /\ rgpu.where = Place(n) /\ rgpu.saw = n + 1
      /\ To(n) <= rtail /\ got \in Seq(Nat) /\ \A i \in 1 .. n : got[i] = i
      /\ Plan[n] = [op |-> rgpu.op, off |-> rgpu.done, step |-> rgpu.step]
  BY <1>1, <1>2 DEF RecvKernelInv, KernelRecords
<1>5. v = n + 1
  <2>1. \A b \in Place(n) : rbuf[b] = n + 1
    BY <1>4, ToldIsLanded DEF Landed
  <2> HIDE DEF n
  <2>2. Content(rbuf, Place(n)) = n + 1
    BY <1>3, <2>1, ContentOf
  <2> QED BY <1>4, <2>2
<1> HIDE DEF v, read
<1>6. got' \in Seq(Nat) /\ Len(got') = n + 1 /\ \A i \in 1 .. Len(got') : got'[i] = i
  BY <1>2, <1>3, <1>4, <1>5
<1> HIDE DEF n
<1>7. /\ rgpu' \in KernelRecords /\ rgpu'.at \in {"start", "wait"}
      /\ rgpu'.at # "wait" => rgpu'.op = rgpu.op + 1
      /\ rgpu'.step >= To(n)
      /\ Plan[n + 1] = [op |-> rgpu'.op, off |-> rgpu'.done, step |-> rgpu'.step]
  BY <1>2, <1>3, <1>4, KernelNextOk
<1>8. RecvKernelInv'
  <2>1. rhead' = To(n) /\ rhead' \in Nat
    BY <1>2, <1>3, <1>4
  <2>2. rgpu'.at = "start" => /\ Len(got') > 0 /\ rhead' = To(Len(got') - 1)
                              /\ Plan[Len(got') - 1].op < rgpu'.op
    <3> SUFFICES ASSUME rgpu'.at = "start"
                 PROVE  /\ Len(got') > 0 /\ rhead' = To(Len(got') - 1)
                        /\ Plan[Len(got') - 1].op < rgpu'.op
      OBVIOUS
    <3>1. Len(got') > 0 /\ Len(got') - 1 = n
      BY <1>3, <1>6
    <3>2. Plan[n].op = rgpu.op /\ rgpu.op \in Nat /\ rgpu'.op = rgpu.op + 1
      BY <1>4, <1>7 DEF KernelRecords
    <3> QED BY <2>1, <3>1, <3>2
  <2>3. rgpu'.at # "start" => rhead' = rgpu'.step
    <3> SUFFICES ASSUME rgpu'.at # "start" PROVE rhead' = rgpu'.step
      OBVIOUS
    <3>1. rgpu' = [rgpu EXCEPT !.done = rgpu.done + Slice(rgpu),
                               !.step = rgpu.step + Slice(rgpu), !.at = "wait"]
      <4>1. CASE rgpu.done + Slice(rgpu) = NSteps(rgpu)
        BY <1>2, <4>1 DEF KernelNext, Kernel
      <4>2. CASE ~(rgpu.done + Slice(rgpu) = NSteps(rgpu))
        BY <1>2, <4>2 DEF KernelNext
      <4> QED BY <4>1, <4>2
    <3> QED BY <1>2, <1>4, <3>1 DEF KernelRecords
  <2>4. rgpu'.at # "copy"
    BY <1>7
  <2> QED BY <1>6, <1>7, <2>1, <2>2, <2>3, <2>4 DEF RecvKernelInv
<1>9. RecvProxyInv'
  <2>1. /\ rproxy.base + rproxy.done <= rgpu.step
        /\ rproxy.base \in Nat /\ rproxy.done \in Nat
    BY <1>1, RecvNumbers DEF RecvProxyInv
  <2>2. rgpu'.step \in Nat
    BY <1>7 DEF KernelRecords
  <2>3. rproxy.base + rproxy.done <= rgpu'.step
    BY <1>3, <1>4, <1>7, <2>1, <2>2
  <2> QED BY <1>1, <1>2, <2>3 DEF RecvProxyInv, Progressing, OnGrid, Running, NSteps, Slice
<1>10. RecvMemoryInv'
  BY <1>1, <1>2 DEF RecvMemoryInv, InWindow, Stage, Requested, Flushing, Arrived, Landed
<1>11. RecvRequestsInv'
  BY <1>1, <1>2 DEF RecvRequestsInv, InWindow
<1> QED BY <1>8, <1>9, <1>10, <1>11 DEF RecvInv

-----------------------------------------------------------------------------
(* The network.                                                            *)

\* The send that matches a receive has the slice the receive is for.
LEMMA DeliverInv ==
    ASSUME Configuration, CallsOk, SendInv, RecvInv, NEW i \in Slots, NEW j \in Slots,
           Deliver(i, j)
    PROVE  SendInv' /\ RecvInv'
<1> DEFINE data == Content(sbuf, sreq[i].where)
           Req == [kind : {"send", "recv", "flush", "complete"}, n : Nat, where : SUBSET Slots]
<1>1. /\ SendKernelInv /\ SendProxyInv /\ SendMemoryInv /\ SendRequestsInv
      /\ RecvKernelInv /\ RecvProxyInv /\ RecvMemoryInv /\ RecvRequestsInv
  BY DEF SendInv, RecvInv
<1>2. /\ sreq[i].kind = "send" /\ rreq[j].kind = "recv" /\ sreq[i].n = rreq[j].n
      /\ sreq' = [sreq EXCEPT ![i].kind = "complete"]
      /\ rreq' = [rreq EXCEPT ![j].kind = "complete"]
      /\ Late => landing' = Fill(landing, rreq[j].where, data) /\ rbuf' = rbuf
      /\ ~Late => rbuf' = Fill(rbuf, rreq[j].where, data) /\ landing' = landing
      /\ sgpu' = sgpu /\ sproxy' = sproxy /\ shead' = shead /\ stail' = stail /\ sfifo' = sfifo
      /\ sbuf' = sbuf /\ calls' = calls
      /\ rproxy' = rproxy /\ rgpu' = rgpu /\ rhead' = rhead /\ rtail' = rtail
      /\ roffset' = roffset /\ got' = got
  BY DEF Deliver, receiver
<1>3. PICK n \in Nat : /\ n < calls.send /\ From(n) >= sproxy.base + sproxy.done
                       /\ sreq[i].n = n + 1 /\ sreq[i].where = Place(n)
  BY <1>1, <1>2 DEF SendRequestsInv
<1>4. PICK m \in Nat : /\ InWindow(rproxy, m) /\ Plan[m].off >= rproxy.received
                       /\ j = Plan[m].off % Steps
  BY <1>1, <1>2 DEF RecvRequestsInv
<1>5. Requested(m)
  BY <1>1, <1>4 DEF RecvMemoryInv, Stage
<1>6. rreq[j].n = m + 1 /\ rreq[j].where = Place(m)
  BY <1>4, <1>5 DEF Requested
<1>7. m = n
  <2>1. n + 1 = m + 1
    BY <1>2, <1>3, <1>6
  <2> QED BY <2>1
<1>8. data = m + 1
  <2>1. calls.send \in Nat /\ calls.written \in Nat /\ calls.send <= calls.written
    BY <1>1 DEF SendProxyInv, CallsOk
  <2>2. \A b \in Place(n) : sbuf[b] = n + 1
    BY <1>1, <1>3, <2>1 DEF SendMemoryInv
  <2>3. Content(sbuf, Place(n)) = n + 1
    BY <2>2, ContentOf
  <2> QED BY <1>3, <1>7, <2>3
<1>9. Place(m) \in SUBSET Slots
  BY PlaceOk
<1>10. /\ sreq \in [Slots -> Requests] /\ rreq \in [Slots -> Requests]
       /\ sreq[i] \in Req /\ rreq[j] \in Req
  BY <1>1, <1>2 DEF SendRequestsInv, RecvRequestsInv, Requests, NoReq
<1> HIDE DEF data
<1>11. /\ sreq' \in [Slots -> Requests] /\ sreq'[i].kind = "complete"
       /\ \A k \in Slots : k # i => sreq'[k] = sreq[k]
  BY <1>2, <1>10 DEF Requests
<1>12. /\ rreq' \in [Slots -> Requests] /\ rreq'[j].kind = "complete"
       /\ rreq'[j].n = m + 1 /\ rreq'[j].where = Place(m)
       /\ \A k \in Slots : k # j => rreq'[k] = rreq[k]
  BY <1>2, <1>6, <1>10 DEF Requests
<1>13. SendInv'
  <2>1. SendKernelInv'
    BY <1>1, <1>2 DEF SendKernelInv, Running
  <2>2. SendProxyInv'
    <3>1. \A k \in Slots : sreq[k].kind # "send" => sreq'[k].kind # "send"
      BY <1>11
    <3>2. (sproxy.base + sproxy.done) % Steps \in Slots
      <4>1. sproxy.base + sproxy.done \in Nat
        BY <1>1 DEF SendProxyInv, Progressing, ProxyRecords
      <4> QED BY <4>1, Remainder DEF Slots, Configuration
    <3> QED BY <1>1, <1>2, <3>1, <3>2
            DEF SendProxyInv, Progressing, OnGrid, Running, NSteps, Slice
  <2>3. SendMemoryInv'
    BY <1>1, <1>2 DEF SendMemoryInv, InWindow
  <2>4. SendRequestsInv'
    <3>1. ASSUME NEW k \in Slots, sreq'[k].kind = "send"
          PROVE  sreq[k] = sreq'[k]
      <4>1. k # i
        BY <1>11, <3>1
      <4> QED BY <1>11, <4>1
    <3> QED BY <1>1, <1>2, <1>11, <3>1 DEF SendRequestsInv
  <2> QED BY <2>1, <2>2, <2>3, <2>4 DEF SendInv
<1>14. RecvInv'
  <2>1. RecvKernelInv'
    BY <1>1, <1>2 DEF RecvKernelInv, Running
  <2>2. RecvProxyInv'
    BY <1>1, <1>2 DEF RecvProxyInv, Progressing, OnGrid, Running, NSteps, Slice
  <2>3. RecvMemoryInv'
    <3>1. /\ roffset \in [Slots -> Nat] /\ rbuf \in [Slots -> Nat]
          /\ landing \in [Slots -> Nat \cup {None}]
          /\ ~Late => \A b \in Slots : landing[b] = None
          /\ Shared => \A x \in Nat : InWindow(rproxy, x) =>
                roffset[From(x) % Steps] = Plan[x].off % Depth
      BY <1>1 DEF RecvMemoryInv
    <3>2. /\ rbuf' \in [Slots -> Nat] /\ landing' \in [Slots -> Nat \cup {None}]
          /\ ~Late => \A b \in Slots : landing'[b] = None
      <4>1. CASE Late
        BY <1>2, <1>8, <3>1, <4>1 DEF Fill
      <4>2. CASE ~Late
        BY <1>2, <1>8, <3>1, <4>2 DEF Fill
      <4> QED BY <4>1, <4>2
    <3>3. \A b \in Slots \ Place(m) : rbuf'[b] = rbuf[b] /\ landing'[b] = landing[b]
      <4>1. CASE Late
        BY <1>2, <1>6, <3>1, <4>1 DEF Fill
      <4>2. CASE ~Late
        BY <1>2, <1>6, <3>1, <4>2 DEF Fill
      <4> QED BY <4>1, <4>2
    <3>4. Arrived(m)'
      <4>1. CASE Late
        BY <1>2, <1>6, <1>8, <1>9, <4>1 DEF Fill, Arrived
      <4>2. CASE ~Late
        <5>1. \A b \in Place(m) : landing'[b] = None /\ rbuf'[b] = m + 1
          BY <1>2, <1>6, <1>8, <1>9, <3>1, <4>2 DEF Fill
        <5> QED BY <5>1 DEF Arrived
      <4> QED BY <4>1, <4>2
    <3>5. ASSUME NEW x \in Nat, InWindow(rproxy, x) PROVE Stage(x)'
      <4>1. CASE x = m
        <5>1. Requested(x)'
          BY <1>4, <1>12, <3>4, <4>1 DEF Requested
        <5>2. ~(Plan[x].off < rproxy.transmitted) /\ ~(Plan[x].off < rproxy.received)
          <6>1. rproxy.transmitted <= rproxy.received /\ rproxy.transmitted \in Nat
                /\ rproxy.received \in Nat
            BY <1>1, RecvNumbers
          <6>2. Plan[x].off \in Nat
            BY PlanNumbers
          <6> QED BY <1>4, <4>1, <6>1, <6>2
        <5> QED BY <1>2, <5>1, <5>2 DEF Stage
      <4>2. CASE x # m
        <5>1. Stage(x)
          BY <1>1, <3>5 DEF RecvMemoryInv
        <5>2. Progressing(rproxy)
          BY <1>1 DEF RecvProxyInv
        <5>3. Place(x) \cap Place(m) = {} /\ Plan[x].off % Steps # j
          BY <1>4, <3>5, <4>2, <5>2, WindowApart
        <5>4. Plan[x].off % Steps \in Slots
          BY PlanNumbers, Remainder DEF Slots, Configuration
        <5>5. rreq'[Plan[x].off % Steps] = rreq[Plan[x].off % Steps]
          BY <1>12, <5>3, <5>4
        <5>6. \A b \in Place(x) : rbuf'[b] = rbuf[b] /\ landing'[b] = landing[b]
          BY <3>3, <5>3, PlaceOk
        <5>7. (Arrived(x) => Arrived(x)') /\ (Landed(x) => Landed(x)')
          BY <5>6 DEF Arrived, Landed
        <5>8. (Requested(x) => Requested(x)') /\ (Flushing(x) => Flushing(x)')
          BY <5>5, <5>7 DEF Requested, Flushing
        <5> QED BY <1>2, <5>1, <5>7, <5>8 DEF Stage
      <4> QED BY <4>1, <4>2
    <3> QED BY <1>2, <3>1, <3>2, <3>5 DEF RecvMemoryInv, InWindow
  <2>4. RecvRequestsInv'
    <3>1. ASSUME NEW k \in Slots, rreq'[k].kind = "recv"
          PROVE  rreq[k].kind = "recv"
      <4>1. k # j
        BY <1>12, <3>1
      <4> QED BY <1>12, <3>1, <4>1
    <3> QED BY <1>1, <1>2, <1>12, <3>1 DEF RecvRequestsInv, InWindow
  <2> QED BY <2>1, <2>2, <2>3, <2>4 DEF RecvInv
<1> QED BY <1>13, <1>14

\* Data lands in the buffers of the slice it is of.
LEMMA LandInv ==
    ASSUME Configuration, RecvInv, NEW b \in Slots, Land(b)
    PROVE  RecvInv'
<1>1. /\ RecvKernelInv /\ RecvProxyInv /\ RecvMemoryInv /\ RecvRequestsInv
  BY DEF RecvInv
<1>2. /\ landing[b] # None
      /\ rbuf' = [rbuf EXCEPT ![b] = landing[b]] /\ landing' = [landing EXCEPT ![b] = None]
      /\ rproxy' = rproxy /\ rgpu' = rgpu /\ rhead' = rhead /\ rtail' = rtail
      /\ roffset' = roffset /\ got' = got /\ rreq' = rreq /\ calls' = calls
  BY DEF Land, receiver
<1>3. RecvKernelInv'
  BY <1>1, <1>2 DEF RecvKernelInv, Running
<1>4. RecvProxyInv'
  BY <1>1, <1>2 DEF RecvProxyInv, Progressing, OnGrid, Running, NSteps, Slice
<1>5. RecvMemoryInv'
  <2>1. /\ roffset \in [Slots -> Nat] /\ rbuf \in [Slots -> Nat]
        /\ landing \in [Slots -> Nat \cup {None}]
        /\ ~Late => \A c \in Slots : landing[c] = None
        /\ Shared => \A x \in Nat : InWindow(rproxy, x) =>
              roffset[From(x) % Steps] = Plan[x].off % Depth
    BY <1>1 DEF RecvMemoryInv
  <2>2. /\ rbuf' \in [Slots -> Nat] /\ landing' \in [Slots -> Nat \cup {None}]
        /\ ~Late => \A c \in Slots : landing'[c] = None
    BY <1>2, <2>1
  <2>3. ASSUME NEW x \in Nat PROVE (Arrived(x) => Arrived(x)') /\ (Landed(x) => Landed(x)')
    <3>1. Place(x) \in SUBSET Slots
      BY PlaceOk
    <3>2. Arrived(x) => Arrived(x)'
      BY <1>2, <2>1, <3>1 DEF Arrived
    <3>3. Landed(x) => Landed(x)'
      BY <1>2, <2>1, <3>1 DEF Landed
    <3> QED BY <3>2, <3>3
  <2>4. ASSUME NEW x \in Nat, InWindow(rproxy, x) PROVE Stage(x)'
    <3>1. Stage(x)
      BY <1>1, <2>4 DEF RecvMemoryInv
    <3>2. (Requested(x) => Requested(x)') /\ (Flushing(x) => Flushing(x)')
      BY <1>2, <2>3 DEF Requested, Flushing
    <3> QED BY <1>2, <2>3, <3>1, <3>2 DEF Stage
  <2> QED BY <1>2, <2>1, <2>2, <2>4 DEF RecvMemoryInv, InWindow
<1>6. RecvRequestsInv'
  BY <1>1, <1>2 DEF RecvRequestsInv, InWindow
<1> QED BY <1>3, <1>4, <1>5, <1>6 DEF RecvInv

\* A flush completes when what it was made for has landed.
LEMMA FlushDoneInv ==
    ASSUME Configuration, RecvInv, NEW j \in Slots, FlushDone(j)
    PROVE  RecvInv'
<1> DEFINE Req == [kind : {"send", "recv", "flush", "complete"}, n : Nat, where : SUBSET Slots]
<1>1. /\ RecvKernelInv /\ RecvProxyInv /\ RecvMemoryInv /\ RecvRequestsInv
  BY DEF RecvInv
<1>2. /\ rreq[j].kind = "flush" /\ \A b \in rreq[j].where : landing[b] = None
      /\ rreq' = [rreq EXCEPT ![j].kind = "complete"]
      /\ rproxy' = rproxy /\ rgpu' = rgpu /\ rhead' = rhead /\ rtail' = rtail
      /\ roffset' = roffset /\ got' = got /\ rbuf' = rbuf /\ landing' = landing /\ calls' = calls
  BY DEF FlushDone, receiver
<1>3. rreq \in [Slots -> Requests] /\ rreq[j] \in Req
  BY <1>1, <1>2 DEF RecvRequestsInv, Requests, NoReq
<1>4. /\ rreq' \in [Slots -> Requests] /\ rreq'[j].kind = "complete"
      /\ rreq'[j].where = rreq[j].where
      /\ \A k \in Slots : k # j => rreq'[k] = rreq[k]
  BY <1>2, <1>3 DEF Requests
<1>5. RecvKernelInv'
  BY <1>1, <1>2 DEF RecvKernelInv, Running
<1>6. RecvProxyInv'
  BY <1>1, <1>2 DEF RecvProxyInv, Progressing, OnGrid, Running, NSteps, Slice
<1>7. RecvMemoryInv'
  <2>1. ASSUME NEW x \in Nat, InWindow(rproxy, x) PROVE Stage(x)'
    <3>1. Stage(x)
      BY <1>1, <2>1 DEF RecvMemoryInv
    <3>2. (Arrived(x) => Arrived(x)') /\ (Landed(x) => Landed(x)')
      BY <1>2 DEF Arrived, Landed
    <3>3. Plan[x].off % Steps \in Slots
      BY PlanNumbers, Remainder DEF Slots, Configuration
    <3>4. CASE Plan[x].off % Steps # j
      <4>1. rreq'[Plan[x].off % Steps] = rreq[Plan[x].off % Steps]
        BY <1>4, <3>3, <3>4
      <4>2. (Requested(x) => Requested(x)') /\ (Flushing(x) => Flushing(x)')
        BY <3>2, <4>1 DEF Requested, Flushing
      <4> QED BY <1>2, <3>1, <3>2, <4>2 DEF Stage
    <3>5. CASE Plan[x].off % Steps = j
      <4>1. ~Requested(x)
        <5>1. "flush" \notin {"recv", "complete"}
          OBVIOUS
        <5> QED BY <1>2, <3>5, <5>1 DEF Requested
      <4>2. ASSUME Plan[x].off >= rproxy.transmitted, Plan[x].off < rproxy.received
            PROVE  Flushing(x)'
        <5>1. Flushing(x) /\ Arrived(x)
          BY <3>1, <4>2 DEF Stage
        <5>2. Late /\ rreq[j].where = Place(x)
          <6>1. "flush" # "none"
            OBVIOUS
          <6> QED BY <1>2, <3>5, <5>1, <6>1 DEF Flushing
        <5>3. Landed(x)
          <6>1. \A b \in Place(x) : landing[b] = None /\ None # x + 1
            BY <1>2, <5>2 DEF None
          <6> QED BY <5>1, <6>1 DEF Arrived, Landed
        <5> QED BY <1>4, <3>2, <3>5, <5>2, <5>3 DEF Flushing
      <4> QED BY <1>2, <3>1, <3>2, <4>1, <4>2 DEF Stage
    <3> QED BY <3>4, <3>5
  <2> QED BY <1>1, <1>2, <2>1 DEF RecvMemoryInv, InWindow
<1>8. RecvRequestsInv'
  <2>1. ASSUME NEW k \in Slots, rreq'[k].kind = "recv"
        PROVE  rreq[k].kind = "recv"
    BY <1>4, <2>1
  <2> QED BY <1>1, <1>2, <1>4, <2>1 DEF RecvRequestsInv, InWindow
<1> QED BY <1>5, <1>6, <1>7, <1>8 DEF RecvInv

-----------------------------------------------------------------------------
\* Every step keeps the invariant.
LEMMA PipeStep ==
    ASSUME Configuration, PipeInv, [Next]_vars
    PROVE  PipeInv'
<1>0. CallsOk /\ SendInv /\ RecvInv
  BY DEF PipeInv
<1>1. ASSUME calls' = calls PROVE CallsOk'
  BY <1>0, <1>1 DEF CallsOk
<1>2. CASE SendKernel \/ SendProxy
  <2>1. UNCHANGED <<receiver, rbuf, landing, rreq>>
    BY <1>2 DEF SendKernel, SendProxy, SendWait, SendPost, SendProxyPost, SendProxyTransmit,
                SendProxyDone, SendProxyWrite
  <2>2. SendInv' /\ CallsOk' /\ calls'.recv = calls.recv
    <3>1. CASE SendWait
      BY <1>0, <1>1, <3>1, SendWaitInv DEF SendWait
    <3>2. CASE SendPost
      BY <1>0, <3>2, SendPostInv
    <3>3. CASE SendProxyPost
      BY <1>0, <1>1, <3>3, SendProxyPostInv DEF SendProxyPost
    <3>4. CASE SendProxyTransmit
      BY <1>0, <3>4, SendProxyTransmitInv
    <3>5. CASE SendProxyDone
      BY <1>0, <1>1, <3>5, SendProxyDoneInv DEF SendProxyDone
    <3>6. CASE SendProxyWrite
      BY <1>0, <1>1, <3>6, SendProxyWriteInv DEF SendProxyWrite
    <3> QED BY <1>2, <3>1, <3>2, <3>3, <3>4, <3>5, <3>6 DEF SendKernel, SendProxy
  <2> QED BY <1>0, <2>1, <2>2, RecvKept DEF PipeInv
<1>3. CASE RecvProxy \/ RecvKernel
  <2>1. UNCHANGED <<sender, sbuf>>
    BY <1>3 DEF RecvProxy, RecvKernel, RecvProxyPost, RecvProxyReceive, RecvProxyTransmit,
                RecvProxyDone, RecvStart, RecvWait, RecvPost
  <2>2. RecvInv' /\ CallsOk' /\ calls'.written = calls.written /\ calls'.send = calls.send
    <3>1. CASE RecvProxyPost
      BY <1>0, <3>1, RecvProxyPostInv
    <3>2. CASE RecvProxyReceive
      BY <1>0, <1>1, <3>2, RecvProxyReceiveInv DEF RecvProxyReceive
    <3>3. CASE RecvProxyTransmit
      BY <1>0, <1>1, <3>3, RecvProxyTransmitInv DEF RecvProxyTransmit
    <3>4. CASE RecvProxyDone
      BY <1>0, <1>1, <3>4, RecvProxyDoneInv DEF RecvProxyDone
    <3>5. CASE RecvStart
      BY <1>0, <1>1, <3>5, RecvStartInv DEF RecvStart
    <3>6. CASE RecvWait
      BY <1>0, <1>1, <3>6, RecvWaitInv DEF RecvWait
    <3>7. CASE RecvPost
      BY <1>0, <1>1, <3>7, RecvPostInv DEF RecvPost
    <3> QED BY <1>3, <3>1, <3>2, <3>3, <3>4, <3>5, <3>6, <3>7 DEF RecvProxy, RecvKernel
  <2> QED BY <1>0, <2>1, <2>2, SendKept DEF PipeInv
<1>4. CASE Network
  <2>1. ASSUME NEW i \in Slots, NEW j \in Slots, Deliver(i, j) PROVE PipeInv'
    BY <1>0, <1>1, <2>1, DeliverInv DEF Deliver, PipeInv
  <2>2. ASSUME NEW b \in Slots, Land(b) PROVE PipeInv'
    <3>1. UNCHANGED <<sender, sbuf, calls>>
      BY <2>2 DEF Land
    <3> QED BY <1>0, <1>1, <2>2, <3>1, LandInv, SendKept DEF PipeInv
  <2>3. ASSUME NEW j \in Slots, FlushDone(j) PROVE PipeInv'
    <3>1. UNCHANGED <<sender, sbuf, calls>>
      BY <2>3 DEF FlushDone
    <3> QED BY <1>0, <1>1, <2>3, <3>1, FlushDoneInv, SendKept DEF PipeInv
  <2> QED BY <1>4, <2>1, <2>2, <2>3 DEF Network
<1>5. CASE UNCHANGED vars
  <2>1. UNCHANGED <<sender, sbuf>> /\ UNCHANGED <<receiver, rbuf, landing, rreq>> /\ calls' = calls
    BY <1>5 DEF vars
  <2> QED BY <1>0, <1>1, <2>1, SendKept, RecvKept DEF PipeInv
<1> QED BY <1>2, <1>3, <1>4, <1>5 DEF Next

(* Whatever the operations, the number of buffers and the depth, shared or  *)
(* not, and with data that lands late if a flush waits for it: the          *)
(* receiving kernel reads the slices in order, each once and complete.      *)
THEOREM PipeDelivers == ASSUME Configuration PROVE Spec => []ReadInOrder
<1>1. Init => PipeInv
  BY PipeInit
<1>2. PipeInv /\ [Next]_vars => PipeInv'
  BY PipeStep
<1>3. PipeInv => ReadInOrder
  BY DEF PipeInv, RecvInv, RecvKernelInv, ReadInOrder
<1> QED BY <1>1, <1>2, <1>3, PTL DEF Spec
=============================================================================
