------------------------------- MODULE Worker -------------------------------
(***************************************************************************)
(* The background thread the alerts and the exec() actions run on: a       *)
(* bounded FIFO under one mutex with two condition variables, posted to    *)
(* and stopped by the tick's thread.  A step is a critical section, a      *)
(* notify made outside the mutex, or a job.                                *)
(***************************************************************************)
EXTENDS Integers, Sequences, Functions

CONSTANTS capacity,   \* bound of the queue
          MaxJobs,    \* bound: how many jobs are posted
          Stuck       \* the jobs that return only when cancelled

Jobs == 1 .. MaxJobs

WorkerAssumption ==
    /\ capacity \in Nat \ {0}      \* the constructor makes 0 a 1
    /\ MaxJobs \in Nat /\ Stuck \subseteq Jobs

VARIABLES queue, stopping, started, cancel, completed, dropped,
          running,   \* the job between the two critical sections (busy_), or 0
          thread,    \* the worker thread: where it is in run()
          caller,    \* the tick's thread: "ticks" or where it is in stop()
          posted,    \* how many jobs were posted
          accepted,  \* the jobs post() returned true for
          done       \* the jobs that ran to return

vars == <<queue, stopping, started, cancel, completed, dropped,
          running, thread, caller, posted, accepted, done>>

busy == running # 0

Init ==
    /\ queue = <<>> /\ stopping = FALSE /\ started = FALSE /\ cancel = FALSE
    /\ completed = 0 /\ dropped = 0 /\ running = 0
    /\ thread = "none" /\ caller = "ticks" /\ posted = 0
    /\ accepted = {} /\ done = {}

-----------------------------------------------------------------------------
(* post(), by the tick's thread.                                           *)

\* What a notify on cv_ does to the worker thread.
Woken(t) == IF t = "waiting" THEN "awake" ELSE t

Posting ==
    /\ caller \in {"ticks", "stopped"} /\ posted < MaxJobs
    /\ posted' = posted + 1

PostRefused ==
    /\ Posting
    /\ stopping \/ Len(queue) >= capacity
    /\ dropped' = dropped + 1
    /\ UNCHANGED <<queue, stopping, started, cancel, completed, running, thread, caller, accepted, done>>

\* The first post() starts the thread; pthread_create() may fail.
ThreadNotStarted ==
    /\ Posting
    /\ ~stopping /\ Len(queue) < capacity /\ ~started
    /\ dropped' = dropped + 1
    /\ UNCHANGED <<queue, stopping, started, cancel, completed, running, thread, caller, accepted, done>>

Post ==
    /\ Posting
    /\ ~stopping /\ Len(queue) < capacity
    /\ started' = TRUE
    /\ queue' = Append(queue, posted') /\ accepted' = accepted \cup {posted'}
    /\ thread' = IF started THEN Woken(thread) ELSE "awake"
    /\ UNCHANGED <<stopping, cancel, completed, dropped, running, caller, done>>

-----------------------------------------------------------------------------
(* run(), by the worker thread.                                            *)

WaitForWork ==
    /\ thread = "awake"
    /\ queue = <<>> /\ ~stopping
    /\ thread' = "waiting"
    /\ UNCHANGED <<queue, stopping, started, cancel, completed, dropped, running, caller, posted, accepted, done>>

SpuriousWakeup ==
    /\ thread = "waiting"
    /\ thread' = "awake"
    /\ UNCHANGED <<queue, stopping, started, cancel, completed, dropped, running, caller, posted, accepted, done>>

\* Faulty form: the newest job first.
Take_Last ==
    /\ thread = "awake"
    /\ queue # <<>> /\ ~(stopping /\ cancel)
    /\ running' = queue[Len(queue)] /\ queue' = SubSeq(queue, 1, Len(queue) - 1)
    /\ thread' = "job"
    /\ UNCHANGED <<stopping, started, cancel, completed, dropped, caller, posted, accepted, done>>

Take ==
    /\ thread = "awake"
    /\ queue # <<>> /\ ~(stopping /\ cancel)
    /\ running' = Head(queue) /\ queue' = Tail(queue)
    /\ thread' = "job"
    /\ UNCHANGED <<stopping, started, cancel, completed, dropped, caller, posted, accepted, done>>

JobReturns ==
    /\ thread = "job"
    /\ running \in Stuck => cancel
    /\ running' = 0 /\ completed' = completed + 1 /\ done' = done \cup {running}
    /\ thread' = "notify"
    /\ UNCHANGED <<queue, stopping, started, cancel, dropped, caller, posted, accepted>>

\* What a notify on idle_cv_ does to the caller.
Roused(c) == IF c = "blocked" THEN "grace" ELSE c

NotifyIdle ==
    /\ thread = "notify"
    /\ thread' = "awake" /\ caller' = Roused(caller)
    /\ UNCHANGED <<queue, stopping, started, cancel, completed, dropped, running, posted, accepted, done>>

\* Faulty form: the jobs still queued are not counted.
Exit_NotCounted ==
    /\ thread = "awake"
    /\ stopping /\ (queue = <<>> \/ cancel)
    /\ dropped' = dropped /\ queue' = <<>>
    /\ thread' = "exited" /\ caller' = Roused(caller)
    /\ UNCHANGED <<stopping, started, cancel, completed, running, posted, accepted, done>>

Exit ==
    /\ thread = "awake"
    /\ stopping /\ (queue = <<>> \/ cancel)
    /\ dropped' = dropped + Len(queue) /\ queue' = <<>>
    /\ thread' = "exited" /\ caller' = Roused(caller)
    /\ UNCHANGED <<stopping, started, cancel, completed, running, posted, accepted, done>>

-----------------------------------------------------------------------------
(* stop(), by the tick's thread; a second call returns at its start.       *)

StopNeverStarted ==
    /\ caller = "ticks" /\ ~started
    /\ stopping' = TRUE /\ caller' = "stopped"
    /\ UNCHANGED <<queue, started, cancel, completed, dropped, running, thread, posted, accepted, done>>

StopBegins ==
    /\ caller = "ticks" /\ started
    /\ caller' = "grace"
    /\ UNCHANGED <<queue, stopping, started, cancel, completed, dropped, running, thread, posted, accepted, done>>

\* wait_idle(): until the queue has run dry, or the grace is over.
WaitIdle ==
    /\ caller = "grace"
    /\ caller' = IF queue = <<>> /\ ~busy THEN "stop" ELSE "blocked"
    /\ UNCHANGED <<queue, stopping, started, cancel, completed, dropped, running, thread, posted, accepted, done>>

GraceOver ==
    /\ caller \in {"grace", "blocked"}
    /\ caller' = "stop"
    /\ UNCHANGED <<queue, stopping, started, cancel, completed, dropped, running, thread, posted, accepted, done>>

\* wait_for() tests its predicate again.
SpuriousIdleWakeup ==
    /\ caller = "blocked"
    /\ caller' = "grace"
    /\ UNCHANGED <<queue, stopping, started, cancel, completed, dropped, running, thread, posted, accepted, done>>

\* Faulty form: the job that runs does not count as left.
SetStopping_BusyLeftOut ==
    /\ caller = "stop"
    /\ stopping' = TRUE
    /\ cancel' = (cancel \/ queue # <<>>)
    /\ caller' = "notify"
    /\ UNCHANGED <<queue, started, completed, dropped, running, thread, posted, accepted, done>>

SetStopping ==
    /\ caller = "stop"
    /\ stopping' = TRUE
    /\ cancel' = (cancel \/ queue # <<>> \/ busy)
    /\ caller' = "notify"
    /\ UNCHANGED <<queue, started, completed, dropped, running, thread, posted, accepted, done>>

NotifyStop ==
    /\ caller = "notify"
    /\ thread' = Woken(thread) /\ caller' = "join"
    /\ UNCHANGED <<queue, stopping, started, cancel, completed, dropped, running, posted, accepted, done>>

Join ==
    /\ caller = "join" /\ thread = "exited"
    /\ caller' = "stopped"
    /\ UNCHANGED <<queue, stopping, started, cancel, completed, dropped, running, thread, posted, accepted, done>>

-----------------------------------------------------------------------------
ThreadStep == WaitForWork \/ Take \/ JobReturns \/ NotifyIdle \/ Exit

StopStep == WaitIdle \/ GraceOver \/ SetStopping \/ NotifyStop \/ Join

Next ==
    \/ PostRefused \/ ThreadNotStarted \/ Post
    \/ StopNeverStarted \/ StopBegins
    \/ WaitForWork \/ SpuriousWakeup \/ Take \/ JobReturns \/ NotifyIdle \/ Exit
    \/ WaitIdle \/ SpuriousIdleWakeup \/ GraceOver \/ SetStopping \/ NotifyStop \/ Join

\* Both threads run; the grace is a timed wait, so it ends, however often it is
\* woken before.  Nothing makes the tick post or stop, and no wakeup is spurious
\* for sure.
Spec ==
    /\ Init /\ [][Next]_vars
    /\ WF_vars(ThreadStep) /\ WF_vars(StopStep) /\ WF_vars(GraceOver)

-----------------------------------------------------------------------------
(* Properties.                                                             *)

\* Every variable stays in its range: post() never queues over the capacity,
\* and only a job that post() accepted is ever done.
TypeOK ==
    /\ queue \in Seq(Jobs) /\ Len(queue) <= capacity
    /\ stopping \in BOOLEAN /\ started \in BOOLEAN /\ cancel \in BOOLEAN
    /\ completed \in 0 .. MaxJobs /\ dropped \in 0 .. MaxJobs
    /\ posted \in 0 .. MaxJobs /\ running \in 0 .. MaxJobs
    /\ thread \in {"none", "awake", "waiting", "job", "notify", "exited"}
    /\ caller \in {"ticks", "grace", "blocked", "stop", "notify", "join", "stopped"}
    /\ done \subseteq accepted /\ accepted \subseteq Jobs

\* The counters are right at every instant the mutex is free: each job posted
\* was completed or dropped, waits, or runs.
Accounting == posted = completed + dropped + Len(queue) + (IF busy THEN 1 ELSE 0)

\* When stop() returns the thread is gone and owns no job: the engine, whose
\* members the jobs use, may be destroyed.
StopIsFinal ==
    caller = "stopped" => thread \in {"none", "exited"} /\ queue = <<>> /\ ~busy

\* A stop that found the queue dry within its grace cancelled nothing: every
\* job that was accepted ran to return.
GraceKeepsAll ==
    caller = "stopped" /\ ~cancel => done = accepted

\* The worker's counters are right at every instant, and a stop leaves nothing
\* behind and, if it cancelled nothing, nothing undone.
WorkerSafe == TypeOK /\ Accounting /\ StopIsFinal /\ GraceKeepsAll

\* A job is in one place, and only its turn decides where it goes.
fate ==
    [j \in Jobs |->
        IF j > posted THEN "new"
        ELSE IF j = running THEN "running"
        ELSE IF j \in done THEN "done"
        ELSE IF j \in Range(queue) THEN "waiting" ELSE "dropped"]

Queue == INSTANCE JobQueue

\* The worker is a FIFO that runs a job at most once and one at a time, and
\* never one it refused or discarded.
ImplementsQueue == Queue!QSpec

\* stop() returns, even with a job that only a cancel ends: no wakeup is lost
\* between its predicate and its wait, on either condition variable.
StopReturns == (caller = "grace") ~> (caller = "stopped")

\* A queued job leaves the queue, unless one that never returns is ahead of it.
QueueDrains ==
    \A j \in Jobs : (j \in Range(queue)) ~> (j \notin Range(queue) \/ running \in Stuck)
=============================================================================
