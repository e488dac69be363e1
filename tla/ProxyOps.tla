------------------------------ MODULE ProxyOps ------------------------------
(***************************************************************************)
(* The pool through which the threads of the local ranks hand network      *)
(* operations to the progress thread of a proxy (proxy.cc).  Each rank     *)
(* owns a share of the pool's elements.  It fills free elements, chains    *)
(* them and posts the chain; the progress thread takes what is posted,     *)
(* turns the operations, a batch at a time, into arguments queued for each *)
(* connection, and gives the elements back.  The operations of one         *)
(* operation count on a shared connection go into one argument, which      *)
(* takes no more once it runs.                                             *)
(*                                                                         *)
(* Chains are sequences of elements; a free list is a set, because its     *)
(* order means nothing.  Operation counts grow within a rank: uploadProxy- *)
(* Ops numbers them so.  MaxOps and Batch stand for MAX_OPS_PER_PEER and   *)
(* NCCL_PROXY_APPEND_BATCH_SIZE; MaxOps exceeds the operations of one      *)
(* count, which is how NCCL computes it.  Total[r] bounds the operations   *)
(* of r.  The condition variable may wake up without a notify: the wait    *)
(* has no predicate.                                                       *)
(***************************************************************************)
EXTENDS Integers, FiniteSets, SequencesExt

CONSTANTS
    NRanks,     \* the local ranks are 0 .. NRanks - 1
    MaxOps,     \* elements of the pool for each rank
    Batch,
    Owner,      \* Owner[c]: the rank that posts operations on connection c
    Grouped,    \* the connections that share buffers
    Total

VARIABLES
    ops,        \* the operation in each element of the pool
    plan,       \* plan[r]: the chain rank r has not posted (proxyOps->nextOps)
    free,       \* free[r]: proxyOps->freeOp
    freed,      \* freed[r]: elements given back to r (pool->freeOps)
    issued,     \* issued[r]: operations so far, and the count of the last
    posted,     \* pool->nextOps
    thread,     \* the progress thread: where it is, and its local variables
    queue,      \* queue[c]: the arguments of connection c, the first one active
    stop

vars == <<ops, plan, free, freed, issued, posted, thread, queue, stop>>

Ranks == 0 .. NRanks - 1
Conns == DOMAIN Owner
Index == 0 .. NRanks * MaxOps - 1
RankOf(i) == i \div MaxOps
NoOp == [conn |-> "none", count |-> 0]
Idle == \A c \in Conns : queue[c] = <<>>

Places ==
    {"sweep", "get", "wait", "woken", "batch", "load", "swap", "loop", "gone", "broken"}

TypeOK ==
    /\ ops \in [Index -> [conn : Conns \cup {"none"}, count : Nat]]
    /\ \A r \in Ranks : plan[r] \in Seq(Index) /\ free[r] \cup freed[r] \subseteq Index
    /\ issued \in [Ranks -> [n : Nat, count : Nat]]
    /\ posted \in Seq(Index)
    /\ thread.at \in Places /\ thread.taken \in Seq(Index)
    /\ thread.back \in [Ranks -> SUBSET Index] /\ thread.old \subseteq Index
    /\ \A c \in Conns : queue[c] \in Seq([count : Nat, running : BOOLEAN])
    /\ stop \in BOOLEAN

Init ==
    /\ ops = [i \in Index |-> NoOp]
    /\ plan = [r \in Ranks |-> <<>>]
    /\ free = [r \in Ranks |-> {}]
    /\ freed = [r \in Ranks |-> {i \in Index : RankOf(i) = r}]
    /\ issued = [r \in Ranks |-> [n |-> 0, count |-> 1]]
    /\ posted = <<>>
    /\ thread = [at |-> "sweep", taken |-> <<>>, back |-> [r \in Ranks |-> {}], old |-> {}]
    /\ queue = [c \in Conns |-> <<>>]
    /\ stop = FALSE

-----------------------------------------------------------------------------
Notified == IF thread.at = "wait" THEN [thread EXCEPT !.at = "woken"] ELSE thread

\* Mutant: the thread is woken only if something was posted before.
Post_mutant(chain) ==
    /\ posted' = posted \o chain
    /\ thread' = IF posted # <<>> THEN Notified ELSE thread

\* ncclProxyPost.
Post(chain) ==
    /\ posted' = posted \o chain
    /\ thread' = IF posted = <<>> THEN Notified ELSE thread

\* ncclLocalOpAppend of an operation on c with count k; a rank whose own list
\* is empty waits for elements and takes all that were given back.
AppendOp(r, c, k) ==
    LET list == IF free[r] # {} THEN free[r] ELSE freed[r]
    IN \E i \in list :
        /\ \A j \in list : i <= j
        /\ ~stop /\ issued[r].n < Total[r] /\ Owner[c] = r /\ Len(plan[r]) < MaxOps
        /\ k = issued[r].count \/ (k = issued[r].count + 1 /\ plan[r] # <<>>)
        /\ Len(plan[r]) = MaxOps - 1 => ops[plan[r][1]].count # k
        /\ ops' = [ops EXCEPT ![i] = [conn |-> c, count |-> k]]
        /\ plan' = [plan EXCEPT ![r] = Append(@, i)]
        /\ free' = [free EXCEPT ![r] = list \ {i}]
        /\ freed' = IF free[r] = {} THEN [freed EXCEPT ![r] = {}] ELSE freed
        /\ issued' = [issued EXCEPT ![r] = [n |-> @.n + 1, count |-> k]]
        /\ UNCHANGED <<posted, thread, queue, stop>>

\* Mutant: all operations but the last are posted.
ToSend_mutant(chain) == Len(chain) - 1

\* The operations of other counts than the last one's.
ToSend(chain) ==
    Max({0} \cup {n \in DOMAIN chain : ops[chain[n]].count # ops[Last(chain)].count})

\* The rest of ncclLocalOpAppend: all elements are in use.
PostFull(r) ==
    /\ Len(plan[r]) = MaxOps
    /\ Post(SubSeq(plan[r], 1, ToSend(plan[r])))
    /\ plan' = [plan EXCEPT ![r] = SubSeq(@, ToSend(@) + 1, MaxOps)]
    /\ UNCHANGED <<ops, free, freed, issued, queue, stop>>

\* ncclProxyStart, for the pool of this proxy.
Start(r) ==
    /\ Len(plan[r]) \in 1 .. MaxOps - 1
    /\ Post(plan[r])
    /\ plan' = [plan EXCEPT ![r] = <<>>]
    /\ issued' = [issued EXCEPT ![r].count = @ + 1]
    /\ UNCHANGED <<ops, free, freed, queue, stop>>

\* ncclProxyProgressDestroy, when the connections have been closed.
Stop ==
    /\ ~stop /\ \A r \in Ranks : plan[r] = <<>>
    /\ stop' = TRUE
    /\ thread' = Notified
    /\ UNCHANGED <<ops, plan, free, freed, issued, posted, queue>>

-----------------------------------------------------------------------------
Goto(place) == thread' = [thread EXCEPT !.at = place]

\* progressOps: the active arguments run, those of done are finished.
Sweep(done) ==
    /\ thread.at = "sweep"
    /\ \A c \in done : queue[c] # <<>>
    /\ queue' = [c \in Conns |->
          IF c \in done THEN Tail(queue[c])
          ELSE IF queue[c] = <<>> THEN <<>> ELSE [queue[c] EXCEPT ![1].running = TRUE]]
    /\ \/ Goto("get")
       \/ (\E c \in Conns : queue'[c] # <<>>) /\ Goto("loop")
    /\ UNCHANGED <<ops, plan, free, freed, issued, posted, stop>>

\* An operation fails, or the communicator is aborted: the thread ends.
Break ==
    /\ (thread.at = "sweep" /\ ~Idle) \/ thread.at = "loop"
    /\ Goto("broken")
    /\ UNCHANGED <<ops, plan, free, freed, issued, posted, queue, stop>>

Take ==
    /\ thread' = [thread EXCEPT !.at = "batch", !.taken = posted]
    /\ posted' = <<>>
    /\ UNCHANGED <<ops, plan, free, freed, issued, queue, stop>>

\* ncclProxyGetPostedOps: the rest of what was taken comes first; the thread
\* waits only if there is nothing else to do.
GetPostedOps ==
    /\ thread.at = "get"
    /\ IF thread.taken = <<>> /\ (posted # <<>> \/ (Idle /\ stop))
       THEN Take
       ELSE /\ Goto(IF thread.taken # <<>> THEN "batch" ELSE IF Idle THEN "wait" ELSE "loop")
            /\ UNCHANGED <<ops, plan, free, freed, issued, posted, queue, stop>>

\* The mutex is not free.
TryLockFails ==
    /\ thread.at = "get" /\ thread.taken = <<>> /\ ~Idle
    /\ Goto("loop")
    /\ UNCHANGED <<ops, plan, free, freed, issued, posted, queue, stop>>

Wake == thread.at = "woken" /\ Take

\* The wait ends although nothing was posted and no stop was asked for.
SpuriousWake == thread.at = "wait" /\ Take

-----------------------------------------------------------------------------
\* How often the count or the rank changes in the first n operations.
Changes(chain, n) ==
    Cardinality({j \in 2 .. n :
        \/ ops[chain[j]].count # ops[chain[j - 1]].count
        \/ RankOf(chain[j]) # RankOf(chain[j - 1])})

\* Mutant: the batch is a number of operations.
BatchSize_mutant(chain) == IF Len(chain) > Batch THEN Batch ELSE Len(chain)

BatchSize(chain) == Max({0} \cup {n \in DOMAIN chain : Changes(chain, n) <= Batch})

\* ProxyAppend: a group grows, or there is one more argument for the connection.
ProxyAppend(all, i) ==
    LET q == all[ops[i].conn]
    IN IF q # <<>> /\ ops[i].conn \in Grouped /\ Last(q).count = ops[i].count
       THEN all
       ELSE [all EXCEPT ![ops[i].conn] =
                Append(@, [count |-> ops[i].count, running |-> FALSE])]

AppendBatch ==
    LET n == BatchSize(thread.taken)
        batch == SubSeq(thread.taken, 1, n)
    IN /\ thread.at = "batch"
       /\ queue' = FoldLeft(ProxyAppend, queue, batch)
       /\ ops' = [i \in Index |-> IF i \in Range(batch) THEN NoOp ELSE ops[i]]
       /\ thread' = [thread EXCEPT !.at = "load",
             !.taken = SubSeq(@, n + 1, Len(@)),
             !.back = [r \in Ranks |-> {i \in Range(batch) : RankOf(i) = r}]]
       /\ UNCHANGED <<plan, free, freed, issued, posted, stop>>

Returning == {r \in Ranks : thread.back[r] # {}}

\* The next rank with elements to be given back: the head of its list is read.
LoadFreed ==
    /\ thread.at = "load"
    /\ thread' = IF Returning = {} THEN [thread EXCEPT !.at = "loop"]
                 ELSE [thread EXCEPT !.at = "swap", !.old = freed[Min(Returning)]]
    /\ UNCHANGED <<ops, plan, free, freed, issued, posted, queue, stop>>

\* Mutant: the head is stored without comparing.
SwapFreed_mutant ==
    LET r == Min(Returning)
    IN /\ thread.at = "swap"
       /\ freed' = [freed EXCEPT ![r] = thread.old \cup thread.back[r]]
       /\ thread' = [thread EXCEPT !.at = "load", !.back[r] = {}, !.old = {}]
       /\ UNCHANGED <<ops, plan, free, issued, posted, queue, stop>>

\* The compare-and-exchange: it reads the head again if the rank took the list.
SwapFreed ==
    LET r == Min(Returning)
    IN /\ thread.at = "swap"
       /\ IF freed[r] = thread.old
          THEN /\ freed' = [freed EXCEPT ![r] = @ \cup thread.back[r]]
               /\ thread' = [thread EXCEPT !.at = "load", !.back[r] = {}, !.old = {}]
          ELSE thread' = [thread EXCEPT !.old = freed[r]] /\ UNCHANGED freed
       /\ UNCHANGED <<ops, plan, free, issued, posted, queue, stop>>

\* Mutant: the thread ends as soon as it is told to.
MayExit_mutant == stop

MayExit == stop /\ Idle

\* The condition of the loop in ncclProxyProgress.
Loop ==
    /\ thread.at = "loop"
    /\ Goto(IF MayExit THEN "gone" ELSE "sweep")
    /\ UNCHANGED <<ops, plan, free, freed, issued, posted, queue, stop>>

RankStep(r) ==
    \/ \E c \in Conns, k \in issued[r].count .. issued[r].count + 1 : AppendOp(r, c, k)
    \/ PostFull(r) \/ Start(r)

ThreadStep ==
    \/ \E done \in SUBSET Conns : Sweep(done)
    \/ GetPostedOps \/ Wake \/ AppendBatch \/ LoadFreed \/ SwapFreed \/ Loop

Next ==
    (\E r \in Ranks : RankStep(r)) \/ Stop \/ ThreadStep \/ SpuriousWake \/ TryLockFails \/ Break

Spec == Init /\ [][Next]_vars

\* An operation that runs is finished at some time.
Finishing == \E done \in SUBSET Conns : done # {} /\ Sweep(done)

\* No fairness of SpuriousWake: a notify that is missing is not made up for.
FairSpec == Spec /\ WF_vars(ThreadStep) /\ SF_vars(Finishing)

-----------------------------------------------------------------------------
(* Every element of a rank is in exactly one place: its free list, its     *)
(* chain, what is posted or taken, or on the way back.  The rank takes the *)
(* list of returned elements while the progress thread extends it.         *)
ElementsConserved ==
    \A r \in Ranks : \A i \in {j \in Index : RankOf(j) = r} :
        Cardinality({p \in 1 .. 6 :
            i \in CASE p = 1 -> free[r] [] p = 2 -> freed[r] [] p = 3 -> Range(plan[r])
                    [] p = 4 -> Range(posted) [] p = 5 -> Range(thread.taken)
                    [] p = 6 -> thread.back[r]}) = 1

(* An argument of a shared connection runs only when it has all operations *)
(* of its count, however chains were cut and batches split: ProxyAppend    *)
(* never meets a running argument of the same count.                       *)
RunningComplete ==
    \A c \in Grouped : \A a \in Range(queue[c]) :
        a.running => \A i \in Index : ops[i] # [conn |-> c, count |-> a.count]

(* A progress thread that was stopped has finished what it took: all       *)
(* arguments are done and all elements given back.  What it did not take   *)
(* may be left behind: after a wake-up without a notify it can meet the    *)
(* stop before it looks at what was posted.                                *)
StoppedFinishes ==
    thread.at = "gone" => Idle /\ thread.taken = <<>> /\ Returning = {}

(* What is posted runs to its end and the elements are given back, unless  *)
(* the thread ended, with an error or because it was stopped: no wake-up   *)
(* is lost.                                                                *)
PostedRuns ==
    posted # <<>> ~>
        \/ thread.at \in {"broken", "gone"}
        \/ Idle /\ posted = <<>> /\ thread.taken = <<>> /\ Returning = {}
=============================================================================
