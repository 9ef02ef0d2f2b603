---------------------------- MODULE WorkerProofs ----------------------------
(***************************************************************************)
(* Proofs about Worker, for every capacity and every number of jobs: the   *)
(* counters, what stop() leaves behind, and that the worker implements     *)
(* JobQueue; and about the command a job runs (ExecCommand), for every     *)
(* timeout, program and number of its processes.                           *)
(***************************************************************************)
EXTENDS Worker, ExecCommand, SequenceTheorems, TLAPS

-----------------------------------------------------------------------------
(* The queue as a sequence.                                                *)

\* push_back().
LEMMA QueuePost ==
    ASSUME NEW q \in Seq(Jobs), NEW j \in Jobs
    PROVE  /\ Append(q, j) \in Seq(Jobs)
           /\ Len(Append(q, j)) = Len(q) + 1
           /\ DOMAIN Append(q, j) = 1 .. Len(q) + 1
           /\ \A i \in 1 .. Len(q) : Append(q, j)[i] = q[i]
           /\ Append(q, j)[Len(q) + 1] = j
           /\ Range(Append(q, j)) = Range(q) \cup {j}
<1>1. /\ Append(q, j) \in Seq(Jobs)
      /\ Len(Append(q, j)) = Len(q) + 1
      /\ DOMAIN Append(q, j) = 1 .. Len(q) + 1
      /\ DOMAIN q = 1 .. Len(q) /\ Len(q) \in Nat
      /\ \A i \in 1 .. Len(q) : Append(q, j)[i] = q[i]
      /\ Append(q, j)[Len(q) + 1] = j
  OBVIOUS
<1>2. 1 .. Len(q) + 1 = 1 .. Len(q) \cup {Len(q) + 1}
  BY <1>1
<1>3. Range(Append(q, j)) = Range(q) \cup {j}
  <2> DEFINE a == Append(q, j)
             n == Len(q)
  <2>1. DOMAIN a = DOMAIN q \cup {n + 1} /\ a[n + 1] = j /\ \A i \in DOMAIN q : a[i] = q[i]
    BY <1>1, <1>2, Zenon
  <2> HIDE DEF a, n
  <2>2. Range(a) = Range(q) \cup {j}
    BY <2>1 DEF Range
  <2> QED
    BY <2>2, Zenon DEF a
<1> QED
  BY <1>1, <1>3, Zenon

\* front() and pop_front().
LEMMA QueueTake ==
    ASSUME NEW q \in Seq(Jobs), q # <<>>
    PROVE  /\ Tail(q) \in Seq(Jobs)
           /\ Len(Tail(q)) = Len(q) - 1 /\ Len(q) >= 1
           /\ DOMAIN q = 1 .. Len(q) /\ DOMAIN Tail(q) = 1 .. Len(q) - 1
           /\ Head(q) = q[1] /\ Head(q) \in Jobs
           /\ \A i \in 1 .. Len(q) - 1 : Tail(q)[i] = q[i + 1]
           /\ Range(q) = {Head(q)} \cup Range(Tail(q))
<1>1. /\ Tail(q) \in Seq(Jobs)
      /\ Len(Tail(q)) = Len(q) - 1
      /\ \A i \in 1 .. Len(Tail(q)) : Tail(q)[i] = q[i + 1]
      /\ Head(q) \in Jobs
  BY HeadTailProperties, Zenon
<1>2. Len(q) \in Nat /\ Len(q) >= 1 /\ Head(q) = q[1]
  BY EmptySeq
<1>3. DOMAIN q = 1 .. Len(q) /\ DOMAIN Tail(q) = 1 .. Len(q) - 1
  BY <1>1, LenProperties, Zenon
<1>4. Range(q) = {Head(q)} \cup Range(Tail(q))
  <2> DEFINE t == Tail(q)
             n == Len(q)
  <2>1. /\ DOMAIN q = 1 .. n /\ DOMAIN t = 1 .. n - 1 /\ n \in Nat /\ n >= 1
        /\ \A i \in 1 .. n - 1 : t[i] = q[i + 1]
    BY <1>1, <1>2, <1>3, Zenon
  <2> HIDE DEF t, n
  <2>2. ASSUME NEW x \in Range(q) PROVE x \in {q[1]} \cup Range(t)
    <3>1. PICK i \in 1 .. n : x = q[i]
      BY <2>1, Zenon DEF Range
    <3>2. CASE i = 1
      BY <3>1, <3>2, Zenon
    <3>3. CASE i # 1
      <4>1. i - 1 \in 1 .. n - 1 /\ t[i - 1] = q[i]
        BY <2>1, <3>3
      <4> QED
        BY <2>1, <3>1, <4>1, Zenon DEF Range
    <3> QED
      BY <3>2, <3>3, Zenon
  <2>3. q[1] \in Range(q)
    BY <2>1 DEF Range
  <2>4. ASSUME NEW x \in Range(t) PROVE x \in Range(q)
    <3>1. PICK i \in 1 .. n - 1 : x = t[i]
      BY <2>1, Zenon DEF Range
    <3>2. i + 1 \in 1 .. n /\ q[i + 1] = x
      BY <2>1, <3>1
    <3> QED
      BY <2>1, <3>2, Zenon DEF Range
  <2> QED
    BY <1>2, <2>2, <2>3, <2>4, SMTT(30) DEF t
<1> QED
  BY <1>1, <1>2, <1>3, <1>4, SMTT(30)

LEMMA QueueEmpty == Range(<<>>) = {} /\ Len(<<>>) = 0 /\ <<>> \in Seq(Jobs) /\ DOMAIN <<>> = {}
  BY EmptySeq DEF Range

-----------------------------------------------------------------------------
(* The inductive invariant.                                                *)

\* The job being run, if there is one.
InHand == {running} \ {0}

\* Where the two threads may be. What has not been started has nothing to do;
\* the stop raises stopping_ before it wakes the thread and joins it.
Places ==
    /\ running # 0 <=> thread = "job"
    /\ thread = "none" <=> ~started
    /\ ~started => queue = <<>> /\ accepted = {}
    /\ caller \in {"ticks", "grace", "blocked", "stop"} <=> ~stopping
    /\ caller \in {"grace", "blocked", "stop", "notify", "join"} => started
    /\ thread = "exited" => stopping /\ queue = <<>>
    /\ caller = "stopped" => thread \in {"none", "exited"}

\* Where the jobs are: the queue is in posting order, and what ran or runs was
\* posted before it; until a cancel, an accepted job is done, in hand or queued.
Order ==
    /\ \A j \in accepted : j <= posted
    /\ InHand \subseteq accepted \ done
    /\ Range(queue) \subseteq accepted
    /\ \A i \in DOMAIN queue : \A j \in done \cup InHand : j < queue[i]
    /\ \A i, k \in DOMAIN queue : i < k => queue[i] < queue[k]
    /\ ~cancel => accepted = done \cup InHand \cup Range(queue)

WorkerInv == TypeOK /\ Accounting /\ Places /\ Order

\* The worker as it starts.
LEMMA WorkerStart == WorkerAssumption /\ Init => WorkerInv
<1> SUFFICES ASSUME WorkerAssumption, Init PROVE WorkerInv
  BY Zenon
<1> USE DEF WorkerAssumption, Init
<1>1. TypeOK
  <2>1. queue \in Seq(Jobs) /\ Len(queue) <= capacity
    BY QueueEmpty
  <2>2. 0 \in 0 .. MaxJobs
    OBVIOUS
  <2> QED
    BY <2>1, <2>2, Zenon DEF TypeOK
<1>2. Accounting
  BY QueueEmpty DEF Accounting, busy
<1>3. Places
  BY Zenon DEF Places
<1>4. Order
  BY QueueEmpty, Zenon DEF Order, InHand
<1> QED
  BY <1>1, <1>2, <1>3, <1>4, Zenon DEF WorkerInv

\* The lengths and numbers the counters are made of.
LEMMA Numbers ==
    ASSUME WorkerAssumption, TypeOK
    PROVE  /\ MaxJobs \in Nat /\ capacity \in Nat
           /\ Len(queue) \in Nat /\ DOMAIN queue = 1 .. Len(queue)
           /\ completed \in Nat /\ dropped \in Nat /\ running \in Nat
           /\ posted \in Nat /\ posted <= MaxJobs
           /\ \A j \in accepted : j \in Nat /\ j # 0
           /\ \A i \in DOMAIN queue : queue[i] \in Nat /\ queue[i] # 0
<1>1. queue \in Seq(Jobs)
  BY Zenon DEF TypeOK
<1>2. Len(queue) \in Nat /\ DOMAIN queue = 1 .. Len(queue)
  BY <1>1, LenProperties, Zenon
<1>3. \A i \in DOMAIN queue : queue[i] \in Jobs
  BY <1>1, <1>2, ElementOfSeq, SMTT(30)
<1> QED
  BY <1>2, <1>3 DEF TypeOK, WorkerAssumption, Jobs

\* A step keeps the invariant: one step of the proof for each action.
LEMMA WorkerStep ==
    ASSUME WorkerAssumption, WorkerInv, [Next]_vars
    PROVE  WorkerInv'
<1> USE DEF WorkerInv
<1>n. /\ MaxJobs \in Nat /\ capacity \in Nat
      /\ Len(queue) \in Nat /\ DOMAIN queue = 1 .. Len(queue)
      /\ completed \in Nat /\ dropped \in Nat /\ running \in Nat
      /\ posted \in Nat /\ posted <= MaxJobs
      /\ \A j \in accepted : j \in Nat /\ j # 0
      /\ \A i \in DOMAIN queue : queue[i] \in Nat /\ queue[i] # 0
  BY Numbers, Zenon
<1>1. ASSUME PostRefused \/ ThreadNotStarted PROVE WorkerInv'
  <2>1. /\ posted' = posted + 1 /\ dropped' = dropped + 1 /\ posted < MaxJobs
        /\ UNCHANGED <<queue, stopping, started, cancel, completed, running, thread, caller, accepted, done>>
    BY <1>1, Zenon DEF PostRefused, ThreadNotStarted, Posting
  <2>2. Accounting'
    BY <1>n, <2>1 DEF Accounting, busy
  <2>3. TypeOK'
    BY <1>n, <2>1, <2>2 DEF TypeOK, Accounting, busy
  <2>4. Places'
    BY <2>1, Zenon DEF Places
  <2>5. Order'
    BY <1>n, <2>1, SMTT(30) DEF Order, InHand
  <2> QED
    BY <2>2, <2>3, <2>4, <2>5, SMTT(30)
<1>2. ASSUME Post PROVE WorkerInv'
  <2> DEFINE j == posted + 1
  <2>1. /\ posted' = j /\ posted < MaxJobs /\ ~stopping /\ Len(queue) < capacity
        /\ caller \in {"ticks", "stopped"}
        /\ started' = TRUE /\ queue' = Append(queue, j) /\ accepted' = accepted \cup {j}
        /\ thread' = IF started THEN Woken(thread) ELSE "awake"
        /\ UNCHANGED <<stopping, cancel, completed, dropped, running, caller, done>>
    BY <1>2, Zenon DEF Post, Posting
  <2>2. j \in Jobs /\ j \in Nat /\ j = posted + 1
    BY <1>n, <2>1 DEF Jobs
  <2> HIDE DEF j
  <2>3. queue \in Seq(Jobs)
    BY Zenon DEF TypeOK
  <2>4. /\ queue' \in Seq(Jobs)
        /\ Len(queue') = Len(queue) + 1
        /\ DOMAIN queue' = 1 .. Len(queue) + 1
        /\ \A i \in 1 .. Len(queue) : queue'[i] = queue[i]
        /\ queue'[Len(queue) + 1] = j
        /\ Range(queue') = Range(queue) \cup {j}
    BY <2>1, <2>2, <2>3, QueuePost, SMTT(30)
  <2>5. Accounting'
    BY <1>n, <2>1, <2>2, <2>4, SMTT(30) DEF Accounting, busy
  <2>6. TypeOK'
    <3>1. Len(queue') <= capacity /\ posted' \in 0 .. MaxJobs
      BY <1>n, <2>1, <2>2, <2>4
    <3>2. thread' \in {"none", "awake", "waiting", "job", "notify", "exited"}
      BY <2>1, Zenon DEF TypeOK, Woken
    <3> QED
      BY <2>1, <2>2, <2>4, <3>1, <3>2, SMTT(30) DEF TypeOK
  <2>7. Places'
    <3>1. caller = "ticks"
      BY <2>1, Zenon DEF Places
    <3>2. /\ thread # "exited" /\ (thread = "none" <=> ~started)
          /\ thread' # "none" /\ thread' # "exited"
          /\ thread' = "job" <=> thread = "job"
      BY <2>1, Zenon DEF Places, Woken
    <3> QED
      BY <2>1, <3>1, <3>2, Zenon DEF Places
  <2>8. Order'
    <3>1. /\ \A k \in accepted : k <= posted
          /\ done \subseteq accepted /\ InHand \subseteq accepted /\ Range(queue) \subseteq accepted
      BY Zenon DEF Order, TypeOK
    <3>2. InHand' = InHand
      BY <2>1, Zenon DEF InHand
    <3>3. \A k \in accepted' : k <= posted'
      BY <1>n, <2>1, <2>2, <3>1
    <3>4. InHand' \subseteq accepted' \ done'
      BY <2>1, <3>2, Zenon DEF Order
    <3>5. Range(queue') \subseteq accepted'
      BY <2>1, <2>4, <3>1, SMTT(30)
    <3>6. \A i \in DOMAIN queue' : \A k \in done' \cup InHand' : k < queue'[i]
      <4> SUFFICES ASSUME NEW i \in DOMAIN queue', NEW k \in done \cup InHand
                   PROVE  k < queue'[i]
        BY <2>1, <3>2, Zenon
      <4>1. CASE i \in 1 .. Len(queue)
        BY <1>n, <2>4, <4>1, SMTT(30) DEF Order
      <4>2. CASE i = Len(queue) + 1
        <5>1. k \in accepted /\ k <= posted /\ k \in Nat
          BY <1>n, <3>1, Zenon
        <5> QED
          BY <1>n, <2>2, <2>4, <4>2, <5>1, SMTT(30)
      <4> QED
        BY <1>n, <2>4, <4>1, <4>2, SMTT(30)
    <3>7. \A i, k \in DOMAIN queue' : i < k => queue'[i] < queue'[k]
      <4> SUFFICES ASSUME NEW i \in 1 .. Len(queue) + 1, NEW k \in 1 .. Len(queue) + 1, i < k
                   PROVE  queue'[i] < queue'[k]
        BY <2>4, Zenon
      <4>1. i \in 1 .. Len(queue) /\ queue'[i] = queue[i]
        BY <1>n, <2>4, SMTT(30)
      <4>2. CASE k \in 1 .. Len(queue)
        BY <1>n, <2>4, <4>1, <4>2, SMTT(30) DEF Order
      <4>3. CASE k = Len(queue) + 1
        <5>1. queue[i] \in Range(queue)
          BY <1>n, <4>1, Zenon DEF Range
        <5>2. queue[i] <= posted /\ queue[i] \in Nat
          BY <1>n, <3>1, <4>1, <5>1, SMTT(30)
        <5> QED
          BY <1>n, <2>2, <2>4, <4>1, <4>3, <5>2, SMTT(30)
      <4> QED
        BY <1>n, <4>2, <4>3
    <3>8. ~cancel' => accepted' = done' \cup InHand' \cup Range(queue')
      <4> HAVE ~cancel'
      <4>1. accepted = done \cup InHand \cup Range(queue)
        BY <2>1, SMTT(30) DEF Order
      <4> QED
        BY <2>1, <2>4, <3>2, <4>1, SMTT(30)
    <3> QED
      BY <3>3, <3>4, <3>5, <3>6, <3>7, <3>8, SMTT(30) DEF Order
  <2> QED
    BY <2>5, <2>6, <2>7, <2>8, Zenon
<1>3. ASSUME Take PROVE WorkerInv'
  <2>1. /\ thread = "awake" /\ queue # <<>> /\ ~(stopping /\ cancel)
        /\ running' = Head(queue) /\ queue' = Tail(queue) /\ thread' = "job"
        /\ UNCHANGED <<stopping, started, cancel, completed, dropped, caller, posted, accepted, done>>
    BY <1>3, Zenon DEF Take
  <2>2. queue \in Seq(Jobs)
    BY Zenon DEF TypeOK
  <2>3. /\ queue' \in Seq(Jobs)
        /\ Len(queue') = Len(queue) - 1 /\ Len(queue) >= 1
        /\ DOMAIN queue' = 1 .. Len(queue) - 1
        /\ running' = queue[1] /\ running' \in Jobs
        /\ \A i \in 1 .. Len(queue) - 1 : queue'[i] = queue[i + 1]
        /\ Range(queue) = {running'} \cup Range(queue')
    BY <2>1, <2>2, QueueTake, Zenon
  <2>4. running = 0 /\ running' # 0 /\ running' \in Nat /\ InHand = {} /\ InHand' = {running'}
    BY <1>n, <2>1, <2>3 DEF Places, InHand, Jobs
  <2>5. Accounting'
    BY <1>n, <2>1, <2>3, <2>4, SMTT(30) DEF Accounting, busy
  <2>6. TypeOK'
    <3>1. Len(queue') <= capacity /\ running' \in 0 .. MaxJobs
      BY <1>n, <2>3 DEF TypeOK, Jobs
    <3> QED
      BY <2>1, <2>3, <3>1, SMTT(30) DEF TypeOK
  <2>7. Places'
    <3>1. caller # "stopped" /\ started
      BY <2>1, Zenon DEF Places
    <3> QED
      BY <2>1, <2>4, <3>1, Zenon DEF Places
  <2>8. Order'
    <3>1. 1 \in DOMAIN queue
      BY <1>n, <2>3
    <3>2. running' \in accepted \ done
      <4>1. running' \in accepted
        BY <2>3, Zenon DEF Order
      <4>2. \A k \in done : k < running'
        BY <2>3, <3>1, Zenon DEF Order
      <4> QED
        BY <2>4, <4>1, <4>2, SMTT(30)
    <3>3. Range(queue') \subseteq accepted
      BY <2>3, Zenon DEF Order
    <3>4. \A i \in DOMAIN queue' : \A k \in done \cup {running'} : k < queue'[i]
      <4> SUFFICES ASSUME NEW i \in 1 .. Len(queue) - 1, NEW k \in done \cup {running'}
                   PROVE  k < queue'[i]
        BY <2>3, Zenon
      <4>1. i + 1 \in DOMAIN queue /\ queue'[i] = queue[i + 1] /\ 1 < i + 1
        BY <1>n, <2>3
      <4>2. CASE k \in done
        BY <4>1, <4>2, Zenon DEF Order
      <4>3. CASE k = running'
        BY <2>3, <3>1, <4>1, <4>3, SMTT(30) DEF Order
      <4> QED
        BY <4>2, <4>3, Zenon
    <3>5. \A i, k \in DOMAIN queue' : i < k => queue'[i] < queue'[k]
      <4> SUFFICES ASSUME NEW i \in 1 .. Len(queue) - 1, NEW k \in 1 .. Len(queue) - 1, i < k
                   PROVE  queue'[i] < queue'[k]
        BY <2>3, Zenon
      <4>1. /\ i + 1 \in DOMAIN queue /\ queue'[i] = queue[i + 1]
            /\ k + 1 \in DOMAIN queue /\ queue'[k] = queue[k + 1] /\ i + 1 < k + 1
        BY <1>n, <2>3
      <4> QED
        BY <4>1, Zenon DEF Order
    <3>6. ~cancel => accepted = done \cup {running'} \cup Range(queue')
      BY <2>3, <2>4, Zenon DEF Order
    <3>7. \A k \in accepted : k <= posted
      BY SMTT(30) DEF Order
    <3> QED
      BY <2>1, <2>4, <3>2, <3>3, <3>4, <3>5, <3>6, <3>7, SMTT(30) DEF Order
  <2> QED
    BY <2>5, <2>6, <2>7, <2>8, Zenon
<1>4. ASSUME JobReturns PROVE WorkerInv'
  <2>1. /\ thread = "job" /\ running' = 0 /\ completed' = completed + 1 /\ done' = done \cup {running}
        /\ thread' = "notify"
        /\ UNCHANGED <<queue, stopping, started, cancel, dropped, caller, posted, accepted>>
    BY <1>4, Zenon DEF JobReturns
  <2>2. running # 0 /\ InHand = {running} /\ InHand' = {} /\ running \in accepted
    BY <2>1 DEF Places, Order, InHand
  <2>3. Accounting'
    BY <1>n, <2>1, <2>2, SMTT(30) DEF Accounting, busy
  <2>4. TypeOK'
    <3>1. completed' \in 0 .. MaxJobs /\ running' \in 0 .. MaxJobs
      BY <1>n, <2>1, <2>2, SMTT(30) DEF Accounting, busy
    <3>2. done' \subseteq accepted'
      BY <2>1, <2>2, Zenon DEF TypeOK
    <3> QED
      BY <2>1, <3>1, <3>2, SMTT(30) DEF TypeOK
  <2>5. Places'
    BY <2>1, Zenon DEF Places
  <2>6. Order'
    <3>1. done' \cup InHand' = done \cup InHand
      BY <2>1, <2>2, Zenon
    <3>2. InHand' \subseteq accepted' \ done'
      BY <2>2, Zenon
    <3>3. \A i \in DOMAIN queue' : \A k \in done' \cup InHand' : k < queue'[i]
      BY <2>1, <3>1, Zenon DEF Order
    <3>4. ~cancel' => accepted' = done' \cup InHand' \cup Range(queue')
      BY <2>1, <3>1, SMTT(30) DEF Order
    <3> QED
      BY <2>1, <3>2, <3>3, <3>4, SMTT(30) DEF Order
  <2> QED
    BY <2>3, <2>4, <2>5, <2>6, Zenon
<1>5. ASSUME Exit PROVE WorkerInv'
  <2>1. /\ thread = "awake" /\ stopping /\ (queue = <<>> \/ cancel)
        /\ dropped' = dropped + Len(queue) /\ queue' = <<>>
        /\ thread' = "exited" /\ caller' = Roused(caller)
        /\ UNCHANGED <<stopping, started, cancel, completed, running, posted, accepted, done>>
    BY <1>5, Zenon DEF Exit
  <2>2. Len(queue') = 0 /\ Range(queue') = {} /\ DOMAIN queue' = {} /\ queue' \in Seq(Jobs)
    BY <2>1, QueueEmpty, Zenon
  <2>3. Accounting'
    BY <1>n, <2>1, <2>2, SMTT(30) DEF Accounting, busy
  <2>4. caller' = caller
    BY <2>1 DEF Places, Roused
  <2>5. TypeOK'
    <3>1. dropped' \in 0 .. MaxJobs /\ Len(queue') <= capacity
      BY <1>n, <2>1, <2>2, SMTT(30) DEF Accounting, busy
    <3> QED
      BY <2>1, <2>2, <2>4, <3>1, SMTT(30) DEF TypeOK
  <2>6. Places'
    BY <2>1, <2>4, Zenon DEF Places
  <2>7. Order'
    <3>1. InHand' = InHand
      BY <2>1, Zenon DEF InHand
    <3>2. ~cancel' => accepted' = done' \cup InHand' \cup Range(queue')
      BY <2>1, <2>2, <3>1, SMTT(30) DEF Order
    <3> QED
      BY <2>1, <2>2, <3>1, <3>2, SMTT(30) DEF Order
  <2> QED
    BY <2>3, <2>5, <2>6, <2>7, Zenon
<1>6. ASSUME SetStopping PROVE WorkerInv'
  <2>1. /\ caller = "stop" /\ stopping' = TRUE /\ cancel' = (cancel \/ queue # <<>> \/ busy)
        /\ caller' = "notify"
        /\ UNCHANGED <<queue, started, completed, dropped, running, thread, posted, accepted, done>>
    BY <1>6, Zenon DEF SetStopping
  <2>2. Accounting'
    BY <2>1, Zenon DEF Accounting, busy
  <2>3. TypeOK'
    BY <2>1, Zenon DEF TypeOK
  <2>4. Places'
    BY <2>1, Zenon DEF Places
  <2>5. Order'
    <3>1. InHand' = InHand /\ (~cancel' => ~cancel)
      BY <2>1, ZenonT(60) DEF InHand
    <3> QED
      BY <2>1, <3>1, Zenon DEF Order
  <2> QED
    BY <2>2, <2>3, <2>4, <2>5, Zenon
\* The other steps move a thread, or raise stopping_, and touch no job.
<1>7. ASSUME \/ WaitForWork \/ SpuriousWakeup \/ NotifyIdle \/ StopNeverStarted \/ StopBegins
             \/ WaitIdle \/ SpuriousIdleWakeup \/ GraceOver \/ NotifyStop \/ Join
             \/ UNCHANGED vars
      PROVE  WorkerInv'
  <2>1. UNCHANGED <<queue, started, cancel, completed, dropped, running, posted, accepted, done>>
    BY <1>7, Zenon DEF WaitForWork, SpuriousWakeup, NotifyIdle, StopNeverStarted, StopBegins, WaitIdle,
                SpuriousIdleWakeup, GraceOver, NotifyStop, Join, vars
  <2>2. Accounting' /\ Order'
    BY <2>1, Zenon DEF Accounting, Order, busy, InHand
  <2>3. /\ stopping' \in BOOLEAN
        /\ thread' \in {"none", "awake", "waiting", "job", "notify", "exited"}
        /\ caller' \in {"ticks", "grace", "blocked", "stop", "notify", "join", "stopped"}
    BY <1>7, ZenonT(60) DEF WaitForWork, SpuriousWakeup, NotifyIdle, StopNeverStarted, StopBegins, WaitIdle,
                SpuriousIdleWakeup, GraceOver, NotifyStop, Join, vars, TypeOK, Woken, Roused
  <2>4. TypeOK'
    BY <2>1, <2>3, Zenon DEF TypeOK
  <2>5. Places'
    BY <1>7, <2>1 DEF WaitForWork, SpuriousWakeup, NotifyIdle, StopNeverStarted, StopBegins, WaitIdle,
                      SpuriousIdleWakeup, GraceOver, NotifyStop, Join, vars, TypeOK, Places, Woken, Roused
  <2> QED
    BY <2>2, <2>4, <2>5, Zenon
<1> QED
  BY <1>1, <1>2, <1>3, <1>4, <1>5, <1>6, <1>7, SMTT(30) DEF Next

\* WorkerInv holds of every behaviour.
THEOREM WorkerInvariant == WorkerAssumption => (Spec => []WorkerInv)
<1> SUFFICES ASSUME WorkerAssumption PROVE Spec => []WorkerInv
  BY Zenon
<1>1. Init => WorkerInv
  BY WorkerStart, Zenon
<1>2. WorkerInv /\ [Next]_vars => WorkerInv'
  BY WorkerStep, Zenon
<1> QED
  BY <1>1, <1>2, PTL DEF Spec

\* The counters of the worker add up at every instant; when stop() has returned
\* its thread is gone and owns no job, and if it cancelled nothing every job
\* that post() accepted ran to return.
THEOREM WorkerIsSafe == WorkerAssumption => (Spec => []WorkerSafe)
<1> SUFFICES ASSUME WorkerAssumption PROVE Spec => []WorkerSafe
  BY Zenon
<1>1. ASSUME WorkerInv PROVE WorkerSafe
  <2>1. StopIsFinal
    BY <1>1, Zenon DEF WorkerInv, Places, StopIsFinal, busy
  <2>2. GraceKeepsAll
    <3> SUFFICES ASSUME caller = "stopped", ~cancel PROVE done = accepted
      BY Zenon DEF GraceKeepsAll
    <3>1. queue = <<>> /\ running = 0
      BY <2>1, Zenon DEF StopIsFinal, busy
    <3> QED
      BY <1>1, <3>1, QueueEmpty, Zenon DEF WorkerInv, Order, InHand
  <2> QED
    BY <1>1, <2>1, <2>2, Zenon DEF WorkerInv, WorkerSafe
<1>2. Spec => []WorkerInv
  BY WorkerInvariant, Zenon
<1> QED
  BY <1>1, <1>2, PTL

-----------------------------------------------------------------------------
(* Refinement.                                                             *)

\* The step a step of the worker is, seen from the tick.
LEMMA QueueStep ==
    ASSUME WorkerAssumption, WorkerInv, [Next]_vars
    PROVE  [Queue!QNext]_fate
<1>n. /\ MaxJobs \in Nat
      /\ DOMAIN queue = 1 .. Len(queue) /\ Len(queue) \in Nat
      /\ posted \in Nat /\ posted <= MaxJobs /\ running \in Nat
      /\ \A j \in Jobs : j \in Nat /\ j # 0
      /\ \A j \in done \cup Range(queue) \cup InHand : j \in Jobs /\ j <= posted
  <2>1. done \subseteq accepted /\ Range(queue) \subseteq accepted /\ InHand \subseteq accepted
    BY Zenon DEF WorkerInv, TypeOK, Order
  <2>2. accepted \subseteq Jobs /\ \A j \in accepted : j <= posted
    BY Zenon DEF WorkerInv, TypeOK, Order
  <2>3. \A j \in Jobs : j \in Nat /\ j # 0
    BY Numbers DEF Jobs
  <2>4. /\ MaxJobs \in Nat
        /\ DOMAIN queue = 1 .. Len(queue) /\ Len(queue) \in Nat
        /\ posted \in Nat /\ posted <= MaxJobs /\ running \in Nat
    BY Numbers, Zenon DEF WorkerInv
  <2>5. \A j \in done \cup Range(queue) \cup InHand : j \in Jobs /\ j <= posted
    BY <2>1, <2>2, Zenon
  <2> QED
    BY <2>3, <2>4, <2>5, SMTT(30)
<1>f. ASSUME NEW j \in Jobs
      PROVE  /\ fate[j] = IF j > posted THEN "new" ELSE IF j = running THEN "running"
                          ELSE IF j \in done THEN "done"
                          ELSE IF j \in Range(queue) THEN "waiting" ELSE "dropped"
             /\ fate'[j] = IF j > posted' THEN "new" ELSE IF j = running' THEN "running"
                           ELSE IF j \in done' THEN "done"
                           ELSE IF j \in Range(queue') THEN "waiting" ELSE "dropped"
  BY Zenon DEF fate
<1>d. /\ fate = [j \in Jobs |-> fate[j]] /\ DOMAIN fate = Jobs
      /\ fate' = [j \in Jobs |-> fate'[j]] /\ DOMAIN fate' = Jobs
  BY Zenon DEF fate, Jobs
<1>r. running # 0 => running \in InHand
  BY Zenon DEF InHand
<1>1. ASSUME Posting,
             UNCHANGED <<running, done>>,
             NEW f \in {"waiting", "dropped"},
             Range(queue') = IF f = "waiting" THEN Range(queue) \cup {posted + 1} ELSE Range(queue)
      PROVE  Queue!Offer(posted + 1)
  <2> DEFINE k == posted + 1
  <2>1. k \in Jobs /\ k > posted /\ posted' = k
    BY <1>n, <1>1 DEF Posting, Jobs
  <2>2. Queue!With("new") = {j \in Jobs : j > posted}
    BY <1>f, Zenon DEF Queue!With
  <2>3. k \in Queue!With("new") /\ \A i \in Queue!With("new") : k <= i
    BY <1>n, <2>1, <2>2
  <2>4. fate'[k] = f
    <3>1. k # running /\ k \notin done /\ k \notin Range(queue)
      BY <1>n, <1>r, <2>1
    <3>2. ~(k > posted') /\ k # running' /\ k \notin done'
      BY <1>n, <1>1, <2>1, <3>1, SMTT(30)
    <3>3. k \in Range(queue') <=> f = "waiting"
      BY <1>1, <3>1, Zenon
    <3> QED
      BY <1>f, <1>1, <2>1, <3>2, <3>3, SMTT(30)
  <2>5. ASSUME NEW j \in Jobs, j # k PROVE fate'[j] = fate[j]
    <3>1. j > posted' <=> j > posted
      BY <1>n, <2>1, <2>5, SMTT(30)
    <3>2. j \in Range(queue') <=> j \in Range(queue)
      BY <1>1, <2>5, Zenon
    <3> QED
      BY <1>f, <1>1, <3>1, <3>2, SMTT(30)
  <2>6. fate' = [fate EXCEPT ![k] = f]
    BY <1>d, <2>1, <2>4, <2>5, SMTT(30)
  <2> QED
    BY <2>3, <2>6, ZenonT(60) DEF Queue!Offer
<1>2. CASE PostRefused \/ ThreadNotStarted
  <2>1. Posting /\ UNCHANGED <<running, done, queue>>
    BY <1>2, Zenon DEF PostRefused, ThreadNotStarted
  <2>2. Queue!Offer(posted + 1) /\ posted + 1 \in Jobs
    BY <1>n, <1>1, <2>1 DEF Posting, Jobs
  <2> QED
    BY <2>2, Zenon DEF Queue!QNext
<1>3. CASE Post
  <2>1. Posting /\ UNCHANGED <<running, done>> /\ queue' = Append(queue, posted + 1)
    BY <1>3, Zenon DEF Post, Posting
  <2>2. posted + 1 \in Jobs
    BY <1>n, <2>1 DEF Posting, Jobs
  <2>3. Range(queue') = Range(queue) \cup {posted + 1}
    BY <2>1, <2>2, QueuePost, Zenon DEF WorkerInv, TypeOK
  <2>4. Queue!Offer(posted + 1)
    BY <1>1, <2>1, <2>3, Zenon
  <2> QED
    BY <2>2, <2>4, Zenon DEF Queue!QNext
<1>4. CASE Take
  <2> DEFINE k == queue[1]
  <2>1. /\ queue # <<>> /\ running = 0 /\ running' = Head(queue) /\ queue' = Tail(queue)
        /\ UNCHANGED <<posted, done>>
    BY <1>4, Zenon DEF Take, WorkerInv, Places
  <2>2. /\ k \in Jobs /\ running' = k /\ Len(queue) >= 1
        /\ Range(queue) = {k} \cup Range(queue')
        /\ \A i \in 1 .. Len(queue) - 1 : queue'[i] = queue[i + 1]
        /\ DOMAIN queue' = 1 .. Len(queue) - 1
    BY <2>1, QueueTake, Zenon DEF WorkerInv, TypeOK
  <2>3. 1 \in DOMAIN queue /\ k \in Range(queue)
    BY <1>n, <2>2
  <2>4. \A j \in Range(queue) : k <= j
    <3> SUFFICES ASSUME NEW i \in DOMAIN queue PROVE k <= queue[i]
      BY Zenon DEF Range
    <3>1. queue[i] \in Nat /\ k \in Nat
      BY <1>n, <2>2, SMTT(30) DEF Range
    <3>2. i # 1 => k < queue[i]
      BY <1>n, <2>3 DEF WorkerInv, Order
    <3> QED
      BY <3>1, <3>2
  <2>5. k \notin done /\ k \notin Range(queue')
    <3>1. \A j \in done : j < k
      BY <2>3, Zenon DEF WorkerInv, Order
    <3>2. ASSUME NEW i \in DOMAIN queue' PROVE k < queue'[i]
      <4>1. i + 1 \in DOMAIN queue /\ 1 < i + 1 /\ queue'[i] = queue[i + 1]
        BY <1>n, <2>2
      <4> QED
        BY <2>3, <4>1, Zenon DEF WorkerInv, Order
    <3>3. k \in Nat
      BY <1>n, <2>2, Zenon
    <3>4. ~(k < k)
      BY <3>3
    <3> QED
      BY <3>1, <3>2, <3>4, SMTT(30) DEF Range
  <2>6. Queue!With("running") = {}
    BY <1>n, <1>f, <2>1, Zenon DEF Queue!With
  <2>7. Queue!With("waiting") \subseteq Range(queue)
    BY <1>f, Zenon DEF Queue!With
  <2>8. fate[k] = "waiting"
    BY <1>n, <1>f, <2>1, <2>2, <2>3, <2>5, SMTT(30)
  <2>9. fate'[k] = "running"
    BY <1>n, <1>f, <2>1, <2>2, <2>3, SMTT(30)
  <2>10. ASSUME NEW j \in Jobs, j # k PROVE fate'[j] = fate[j]
    BY <1>n, <1>f, <2>1, <2>2, <2>10, SMTT(30)
  <2>11. fate' = [fate EXCEPT ![k] = "running"]
    BY <1>d, <2>2, <2>9, <2>10, SMTT(30)
  <2>12. Queue!Start(k)
    BY <2>2, <2>4, <2>6, <2>7, <2>8, <2>11, SMTT(30) DEF Queue!Start, Queue!With
  <2> QED
    BY <2>2, <2>12, Zenon DEF Queue!QNext
<1>5. CASE JobReturns
  <2>1. /\ running # 0 /\ running' = 0 /\ done' = done \cup {running}
        /\ UNCHANGED <<queue, posted>>
    BY <1>5, Zenon DEF JobReturns, WorkerInv, Places
  <2>2. running \in Jobs /\ running <= posted
    BY <1>n, <1>r, <2>1, SMTT(30)
  <2>3. fate[running] = "running" /\ fate'[running] = "done"
    BY <1>n, <1>f, <2>1, <2>2, SMTT(30)
  <2>4. ASSUME NEW j \in Jobs, j # running PROVE fate'[j] = fate[j]
    BY <1>n, <1>f, <2>1, <2>4, SMTT(30)
  <2>5. fate' = [fate EXCEPT ![running] = "done"]
    BY <1>d, <2>2, <2>3, <2>4, SMTT(30)
  <2>6. Queue!Finish(running)
    BY <2>2, <2>3, <2>5, SMTT(30) DEF Queue!Finish, Queue!With
  <2> QED
    BY <2>2, <2>6, Zenon DEF Queue!QNext
<1>6. CASE Exit
  <2>1. running = 0 /\ queue' = <<>> /\ UNCHANGED <<running, posted, done>>
    BY <1>6, Zenon DEF Exit, WorkerInv, Places
  <2>2. Range(queue') = {}
    BY <2>1, QueueEmpty, SMTT(30)
  <2>3. Queue!With("running") = {}
    BY <1>n, <1>f, <2>1, SMTT(30) DEF Queue!With
  <2>4. ASSUME NEW j \in Jobs
        PROVE  fate'[j] = IF fate[j] = "waiting" THEN "dropped" ELSE fate[j]
    BY <1>n, <1>f, <2>1, <2>2, SMTT(30)
  <2>5. Queue!Discard
    BY <1>d, <2>3, <2>4, SMTT(30) DEF Queue!Discard
  <2> QED
    BY <2>5, Zenon DEF Queue!QNext
<1>7. CASE \/ WaitForWork \/ SpuriousWakeup \/ NotifyIdle \/ StopNeverStarted \/ StopBegins
           \/ WaitIdle \/ SpuriousIdleWakeup \/ GraceOver \/ SetStopping \/ NotifyStop \/ Join
           \/ UNCHANGED vars
  <2>1. UNCHANGED <<queue, running, posted, done>>
    BY <1>7, Zenon DEF WaitForWork, SpuriousWakeup, NotifyIdle, StopNeverStarted, StopBegins, WaitIdle,
                SpuriousIdleWakeup, GraceOver, SetStopping, NotifyStop, Join, vars
  <2>2. UNCHANGED fate
    BY <2>1, Zenon DEF fate
  <2> QED
    BY <2>2, SMTT(30)
<1> QED
  BY <1>2, <1>3, <1>4, <1>5, <1>6, <1>7, SMTT(30) DEF Next

\* The worker, its threads, wakeups and counters and all, is a JobQueue: jobs
\* run one at a time and in the order of their post(), and none that was
\* refused or discarded ever runs.
THEOREM WorkerImplementsQueue == WorkerAssumption => (Spec => ImplementsQueue)
<1> SUFFICES ASSUME WorkerAssumption PROVE Spec => ImplementsQueue
  BY Zenon
<1>1. Init => Queue!QInit
  BY DEF Init, Queue!QInit, fate, Jobs
<1>2. WorkerInv /\ [Next]_vars => [Queue!QNext]_fate
  BY QueueStep, Zenon
<1>3. Spec => []WorkerInv
  BY WorkerInvariant, Zenon
<1> QED
  BY <1>1, <1>2, <1>3, PTL DEF Spec, ImplementsQueue, Queue!QSpec

-----------------------------------------------------------------------------
(* The run of a command.                                                   *)

\* Where the parent is and what it then holds: no result before the call is
\* over, a reason from the kill on, and a child that is reaped by nobody else.
ParentKnows ==
    /\ ppc \in {"idle", "poll", "check", "sleep", "group", "pid", "reap", "done"}
    /\ child \in Alive \cup {"none", "exited", "killed", "reaped"}
    /\ ppc = "idle" => child = "none"
    /\ ppc # "done" => out = NoResult /\ rc = 0
    /\ ppc \in {"idle", "poll", "check", "sleep"} => why = "none"
    /\ ppc \in {"group", "pid", "reap"} => why \in {"timed_out", "cancelled"}
    /\ why = "timed_out" => clock >= deadline
    /\ why = "cancelled" => x_cancel
    /\ ppc = "reap" => child \notin Alive

\* What the kernel has: the numbers, and a killed group without a process.
GroupKnows ==
    /\ clock \in Nat /\ deadline \in Nat /\ kids \in Nat
    /\ x_cancel \in BOOLEAN /\ grouped \in BOOLEAN
    /\ grouped => /\ ppc \in {"pid", "reap", "done"}
                  /\ child \notin Alive /\ kids = 0

(* The inductive invariant of a call. *)
ExecInv == ExecRight /\ ParentKnows /\ GroupKnows

(* Before the call there is no child. *)
LEMMA ExecStart == ExecAssumption /\ ExecInit => ExecInv
<1> SUFFICES ASSUME ExecAssumption, ExecInit PROVE ExecInv
  BY Zenon
<1>1. ExecTypeOK
  BY DEF ExecInit, ExecAssumption, ExecTypeOK
<1>2. NoZombie /\ FateTold /\ GroupGone
  BY Zenon DEF ExecInit, NoZombie, FateTold, GroupGone
<1>3. ParentKnows
  BY Zenon DEF ExecInit, ParentKnows
<1>4. GroupKnows
  BY ZenonT(60) DEF ExecInit, GroupKnows
<1> QED
  BY <1>1, <1>2, <1>3, <1>4, Zenon DEF ExecInv, ExecRight

(* Every step of the parent, the child, its program and the clock keeps it. *)
LEMMA ExecStep ==
    ASSUME ExecAssumption, ExecInv, [ExecNext]_execvars
    PROVE  ExecInv'
<1> USE DEF ExecInv, ExecRight, Alive
<1>1. CASE Call
  <2>1. ExecTypeOK' /\ NoZombie' /\ GroupGone'
    BY <1>1 DEF Call, ExecAssumption, ExecTypeOK, NoZombie, GroupGone, ParentKnows, GroupKnows
  <2>2. FateTold'
    BY <1>1 DEF Call, FateTold, ExecTypeOK, ParentKnows, GroupKnows, NoResult
  <2>3. ParentKnows'
    BY <1>1, Zenon DEF Call, ParentKnows, GroupKnows, ExecTypeOK
  <2>4. GroupKnows'
    BY <1>1 DEF Call, ExecAssumption, ParentKnows, GroupKnows, ExecTypeOK
  <2> QED
    BY <2>1, <2>2, <2>3, <2>4, Zenon
<1>2. CASE Poll
  <2>1. ExecTypeOK' /\ NoZombie' /\ GroupGone'
    BY <1>2, Zenon DEF Poll, ExecAssumption, ExecTypeOK, NoZombie, GroupGone, ParentKnows, GroupKnows
  <2>2. FateTold'
    <3>1. CASE ppc' = "done"
      <4>1. out' = [out EXCEPT !.exit_status = ending.status, !.signal = ending.signal] /\ ending' = ending
        BY <1>2, <3>1, Zenon DEF Poll
      <4>2. out = NoResult
        BY <1>2, Zenon DEF Poll, ParentKnows
      <4>3. /\ out'.timed_out = FALSE /\ out'.cancelled = FALSE
            /\ out'.exit_status = ending'.status /\ out'.signal = ending'.signal
        BY <4>1, <4>2, Zenon DEF NoResult
      <4> QED
        BY <4>3, Zenon DEF FateTold
    <3>2. CASE ppc' # "done"
      BY <3>2, Zenon DEF FateTold
    <3> QED
      BY <3>1, <3>2, Zenon
  <2>3. ParentKnows'
    BY <1>2, Zenon DEF Poll, ParentKnows, GroupKnows, ExecTypeOK
  <2>4. GroupKnows'
    BY <1>2, Zenon DEF Poll, ExecAssumption, ParentKnows, GroupKnows, ExecTypeOK
  <2> QED
    BY <2>1, <2>2, <2>3, <2>4, Zenon
<1>3. CASE Check
  <2>1. ExecTypeOK' /\ NoZombie' /\ GroupGone'
    BY <1>3, Zenon DEF Check, ExecAssumption, ExecTypeOK, NoZombie, GroupGone, ParentKnows, GroupKnows
  <2>2. FateTold'
    BY <1>3, Zenon DEF Check, FateTold, ExecTypeOK, ParentKnows, GroupKnows, NoResult
  <2>3. ParentKnows'
    BY <1>3, Zenon DEF Check, ParentKnows, GroupKnows, ExecTypeOK
  <2>4. GroupKnows'
    BY <1>3, Zenon DEF Check, ExecAssumption, ParentKnows, GroupKnows, ExecTypeOK
  <2> QED
    BY <2>1, <2>2, <2>3, <2>4, Zenon
<1>4. CASE Sleep
  <2>1. ExecTypeOK' /\ NoZombie' /\ GroupGone'
    BY <1>4, Zenon DEF Sleep, ExecAssumption, ExecTypeOK, NoZombie, GroupGone, ParentKnows, GroupKnows
  <2>2. FateTold'
    BY <1>4, Zenon DEF Sleep, FateTold, ExecTypeOK, ParentKnows, GroupKnows, NoResult
  <2>3. ParentKnows'
    BY <1>4, Zenon DEF Sleep, ParentKnows, GroupKnows, ExecTypeOK
  <2>4. GroupKnows'
    BY <1>4, Zenon DEF Sleep, ExecAssumption, ParentKnows, GroupKnows, ExecTypeOK
  <2> QED
    BY <2>1, <2>2, <2>3, <2>4, Zenon
<1>5. CASE KillGroup
  <2>1. ExecTypeOK' /\ NoZombie' /\ GroupGone'
    BY <1>5, SMTT(30) DEF KillGroup, ExecAssumption, ExecTypeOK, NoZombie, GroupGone, ParentKnows, GroupKnows
  <2>2. FateTold'
    BY <1>5, Zenon DEF KillGroup, FateTold, ExecTypeOK, ParentKnows, GroupKnows, NoResult
  <2>3. ParentKnows'
    BY <1>5, Zenon DEF KillGroup, ParentKnows, GroupKnows, ExecTypeOK
  <2>4. GroupKnows'
    BY <1>5 DEF KillGroup, ExecAssumption, ParentKnows, GroupKnows, ExecTypeOK
  <2> QED
    BY <2>1, <2>2, <2>3, <2>4, Zenon
<1>6. CASE KillPid
  <2>1. ExecTypeOK' /\ NoZombie' /\ GroupGone'
    BY <1>6, Zenon DEF KillPid, ExecAssumption, ExecTypeOK, NoZombie, GroupGone, ParentKnows, GroupKnows
  <2>2. FateTold'
    BY <1>6, Zenon DEF KillPid, FateTold, ExecTypeOK, ParentKnows, GroupKnows, NoResult
  <2>3. ParentKnows'
    BY <1>6, Zenon DEF KillPid, ParentKnows, GroupKnows, ExecTypeOK
  <2>4. GroupKnows'
    BY <1>6, Zenon DEF KillPid, ExecAssumption, ParentKnows, GroupKnows, ExecTypeOK
  <2> QED
    BY <2>1, <2>2, <2>3, <2>4, Zenon
<1>7. CASE Reap
  <2>1. ExecTypeOK' /\ NoZombie' /\ GroupGone'
    BY <1>7, Zenon DEF Reap, ExecAssumption, ExecTypeOK, NoZombie, GroupGone, ParentKnows, GroupKnows
  <2>2. FateTold'
    BY <1>7, Zenon DEF Reap, FateTold, ExecTypeOK, ParentKnows, GroupKnows, NoResult
  <2>3. ParentKnows'
    BY <1>7, Zenon DEF Reap, ParentKnows, GroupKnows, ExecTypeOK
  <2>4. GroupKnows'
    BY <1>7, Zenon DEF Reap, ExecAssumption, ParentKnows, GroupKnows, ExecTypeOK
  <2> QED
    BY <2>1, <2>2, <2>3, <2>4, Zenon
<1>8. CASE Interrupt
  <2>1. ExecTypeOK' /\ NoZombie' /\ GroupGone'
    BY <1>8, Zenon DEF Interrupt, ExecAssumption, ExecTypeOK, NoZombie, GroupGone, ParentKnows, GroupKnows
  <2>2. FateTold'
    BY <1>8, Zenon DEF Interrupt, FateTold, ExecTypeOK, ParentKnows, GroupKnows, NoResult
  <2>3. ParentKnows'
    BY <1>8, Zenon DEF Interrupt, ParentKnows, GroupKnows, ExecTypeOK
  <2>4. GroupKnows'
    BY <1>8, Zenon DEF Interrupt, ExecAssumption, ParentKnows, GroupKnows, ExecTypeOK
  <2> QED
    BY <2>1, <2>2, <2>3, <2>4, Zenon
<1>9. CASE SetPgid
  <2>1. ExecTypeOK' /\ NoZombie' /\ GroupGone'
    BY <1>9, Zenon DEF SetPgid, ExecAssumption, ExecTypeOK, NoZombie, GroupGone, ParentKnows, GroupKnows
  <2>2. FateTold'
    BY <1>9, Zenon DEF SetPgid, FateTold, ExecTypeOK, ParentKnows, GroupKnows, NoResult
  <2>3. ParentKnows'
    BY <1>9, Zenon DEF SetPgid, ParentKnows, GroupKnows, ExecTypeOK
  <2>4. GroupKnows'
    BY <1>9, Zenon DEF SetPgid, ExecAssumption, ParentKnows, GroupKnows, ExecTypeOK
  <2> QED
    BY <2>1, <2>2, <2>3, <2>4, Zenon
<1>10. CASE ExecVp
  <2>1. ExecTypeOK' /\ NoZombie' /\ GroupGone'
    BY <1>10, SMTT(30) DEF ExecVp, ExecAssumption, ExecTypeOK, NoZombie, GroupGone, ParentKnows, GroupKnows
  <2>2. FateTold'
    BY <1>10, Zenon DEF ExecVp, FateTold, NoZombie, ExecTypeOK, ParentKnows, GroupKnows, NoResult
  <2>3. ParentKnows'
    BY <1>10 DEF ExecVp, ParentKnows, GroupKnows, ExecTypeOK
  <2>4. GroupKnows'
    BY <1>10, Zenon DEF ExecVp, ExecAssumption, ParentKnows, GroupKnows, ExecTypeOK
  <2> QED
    BY <2>1, <2>2, <2>3, <2>4, Zenon
<1>11. CASE ProgramForks
  <2>1. ExecTypeOK' /\ NoZombie' /\ GroupGone'
    BY <1>11, SMTT(30) DEF ProgramForks, ExecAssumption, ExecTypeOK, NoZombie, GroupGone, ParentKnows, GroupKnows
  <2>2. FateTold'
    BY <1>11, Zenon DEF ProgramForks, FateTold, ExecTypeOK, ParentKnows, GroupKnows, NoResult
  <2>3. ParentKnows'
    BY <1>11, Zenon DEF ProgramForks, ParentKnows, GroupKnows, ExecTypeOK
  <2>4. GroupKnows'
    BY <1>11, SMTT(30) DEF ProgramForks, ExecAssumption, ParentKnows, GroupKnows, ExecTypeOK
  <2> QED
    BY <2>1, <2>2, <2>3, <2>4, Zenon
<1>12. CASE ProgramEnds
  <2>1. ExecTypeOK' /\ NoZombie' /\ GroupGone'
    BY <1>12, SMTT(30) DEF ProgramEnds, ExecAssumption, ExecTypeOK, NoZombie, GroupGone, ParentKnows, GroupKnows
  <2>2. FateTold'
    BY <1>12, SMTT(30) DEF ProgramEnds, FateTold, NoZombie, ExecTypeOK, ParentKnows, GroupKnows, NoResult
  <2>3. ParentKnows'
    BY <1>12, SMTT(30) DEF ProgramEnds, ParentKnows, GroupKnows, ExecTypeOK
  <2>4. GroupKnows'
    BY <1>12, Zenon DEF ProgramEnds, ExecAssumption, ParentKnows, GroupKnows, ExecTypeOK
  <2> QED
    BY <2>1, <2>2, <2>3, <2>4, Zenon
<1>13. CASE KidEnds
  <2>1. ExecTypeOK' /\ NoZombie' /\ GroupGone'
    BY <1>13, SMTT(30) DEF KidEnds, ExecAssumption, ExecTypeOK, NoZombie, GroupGone, ParentKnows, GroupKnows
  <2>2. FateTold'
    BY <1>13, Zenon DEF KidEnds, FateTold, ExecTypeOK, ParentKnows, GroupKnows, NoResult
  <2>3. ParentKnows'
    BY <1>13 DEF KidEnds, ParentKnows, GroupKnows, ExecTypeOK
  <2>4. GroupKnows'
    BY <1>13 DEF KidEnds, ExecAssumption, ParentKnows, GroupKnows, ExecTypeOK
  <2> QED
    BY <2>1, <2>2, <2>3, <2>4, Zenon
<1>14. CASE Cancel
  <2>1. ExecTypeOK' /\ NoZombie' /\ GroupGone'
    BY <1>14, SMTT(30) DEF Cancel, ExecAssumption, ExecTypeOK, NoZombie, GroupGone, ParentKnows, GroupKnows
  <2>2. FateTold'
    BY <1>14, Zenon DEF Cancel, FateTold, ExecTypeOK, ParentKnows, GroupKnows, NoResult
  <2>3. ParentKnows'
    BY <1>14 DEF Cancel, ParentKnows, GroupKnows, ExecTypeOK
  <2>4. GroupKnows'
    BY <1>14, Zenon DEF Cancel, ExecAssumption, ParentKnows, GroupKnows, ExecTypeOK
  <2> QED
    BY <2>1, <2>2, <2>3, <2>4, Zenon
<1>15. CASE Passes
  <2>1. ExecTypeOK' /\ NoZombie' /\ GroupGone'
    BY <1>15, SMTT(30) DEF Passes, ExecAssumption, ExecTypeOK, NoZombie, GroupGone, ParentKnows, GroupKnows
  <2>2. FateTold'
    BY <1>15 DEF Passes, FateTold, ExecTypeOK, ParentKnows, GroupKnows, NoResult
  <2>3. ParentKnows'
    BY <1>15 DEF Passes, ParentKnows, GroupKnows, ExecTypeOK
  <2>4. GroupKnows'
    BY <1>15, SMTT(30) DEF Passes, ExecAssumption, ParentKnows, GroupKnows, ExecTypeOK
  <2> QED
    BY <2>1, <2>2, <2>3, <2>4, Zenon
<1>16. CASE UNCHANGED execvars
  BY <1>16 DEF execvars, ExecTypeOK, NoZombie, FateTold, GroupGone, ParentKnows, GroupKnows
<1> QED
  BY <1>1, <1>2, <1>3, <1>4, <1>5, <1>6, <1>7, <1>8, <1>9, <1>10, <1>11, <1>12, <1>13, <1>14, <1>15, <1>16
  DEF ExecNext, Parent

(* Wherever parent, child and program are, and whenever the deadline or a  *)
(* cancellation comes.                                                     *)
THEOREM ExecInvariant == ExecAssumption => (ExecSpec => []ExecInv)
<1> SUFFICES ASSUME ExecAssumption PROVE ExecSpec => []ExecInv
  BY Zenon
<1>1. ExecInit => ExecInv
  BY ExecStart, Zenon
<1>2. ExecInv /\ [ExecNext]_execvars => ExecInv'
  BY ExecStep, Zenon
<1> QED
  BY <1>1, <1>2, PTL DEF ExecSpec

(* No zombie, a fate told as it was, and a killed group without a process: *)
(* for every timeout, program and interleaving of parent and child.        *)
THEOREM ExecIsRight == ExecAssumption => (ExecSpec => []ExecRight)
<1> SUFFICES ASSUME ExecAssumption PROVE ExecSpec => []ExecRight
  BY Zenon
<1>1. ExecInv => ExecRight
  BY Zenon DEF ExecInv
<1> QED
  BY <1>1, ExecInvariant, PTL
=============================================================================
