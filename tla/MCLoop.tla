------------------------------- MODULE MCLoop -------------------------------
(***************************************************************************)
(* The collection loop: the serve loop, its scheduler and the hot buffer.  *)
(* A behaviour is one of the parts below on its own; the others rest.      *)
(***************************************************************************)
EXTENDS Integers

VARIABLES part,
          mono, wall, backs, forwards, sc, slept_at, prev_mono, prev_wall, pc, woke, ghost,
          l_pc, after, g_stop, g_reload, zeros, ones, handlers, watch, watching, l_asked, l_t, l_now, deadline,
          http, store, engine, worker, signals, wakes, wanted,
          ring, head, count, last_client, pending, connected, last_poll, poll, ws, h_slept_at, h_from,
          h_deadline, h_mono, h_wall, steps, recent, h_seen, offset

schedvars == <<mono, wall, backs, forwards, sc, slept_at, prev_mono, prev_wall, pc, woke, ghost>>
loopvars == <<l_pc, after, g_stop, g_reload, zeros, ones, handlers, watch, watching, l_asked, l_t, l_now, deadline,
              http, store, engine, worker, signals, wakes, wanted>>
hotvars == <<ring, head, count, last_client, pending, connected, last_poll, poll, ws, h_slept_at, h_from,
             h_deadline, h_mono, h_wall, steps, recent, h_seen, offset>>
vars == <<part, schedvars, loopvars, hotvars>>

-----------------------------------------------------------------------------
(* A custom level above the built-in ones, with the shortest interval.     *)

Custom == {"fast"}
Prio == [L1 |-> 0, L2 |-> 20, L3 |-> 30, fast |-> 40]
Interval == [L1 |-> 300, L2 |-> 30, L3 |-> 3, fast |-> 1]

\* Anomalies and clients, with a clock step each way.
Windows == INSTANCE Scheduler WITH
    Mode <- "Adaptive", l2_always_on <- FALSE, EscalateAfter <- 2, Grace <- 2, Hysteresis <- 3, Hold <- 0,
    Clients <- {0, 1}, Readings <- {"normal", "over", "partial"}, Askable <- {}, Seconds <- {0},
    Epoch <- 10, MaxTime <- 5, MaxStep <- 3, MaxBack <- 1, MaxForward <- 1

\* Requests of rules, with a clock step forward.
Asks == INSTANCE Scheduler WITH
    Mode <- "Adaptive", l2_always_on <- FALSE, EscalateAfter <- 2, Grace <- 1, Hysteresis <- 3, Hold <- 1,
    Clients <- {0}, Readings <- {"normal"}, Askable <- {"L3", "fast"}, Seconds <- {1, 3},
    Epoch <- 10, MaxTime <- 5, MaxStep <- 3, MaxBack <- 0, MaxForward <- 1

\* A loop that collects only while someone looks or asks.
Demand == INSTANCE Scheduler WITH
    Mode <- "OnDemand", l2_always_on <- FALSE, EscalateAfter <- 2, Grace <- 2, Hysteresis <- 3, Hold <- 1,
    Clients <- {0, 1}, Readings <- {"normal"}, Askable <- {"L2", "fast"}, Seconds <- {1, 3},
    Epoch <- 10, MaxTime <- 6, MaxStep <- 3, MaxBack <- 0, MaxForward <- 0

\* A sleep shorter than the floor and one longer, two signals, a wake-up.
Loop == INSTANCE ServeLoop WITH t <- l_t, now <- l_now, asked <- l_asked,
    pc <- l_pc, Lengths <- {0, 1, 3}, kMinWakeGap <- 2, PipeSize <- 4, MaxSignals <- 2, MaxWakes <- 1

\* Clients that come and go, and one setting of the clock.
Hot == INSTANCE HotBuffer WITH from <- h_from, seen <- h_seen,
    slept_at <- h_slept_at, deadline <- h_deadline, mono <- h_mono, wall <- h_wall,
    Capacity <- 2, grace <- 4, kPollerWindow <- 2, kMinWakeGap <- 3, Interval <- [L1 |-> 10, L3 |-> 3],
    OnDemand <- FALSE, Steps <- {-5, 4}, MaxSteps <- 1, MaxTime <- 11

ASSUME LoopInstances ==
    /\ Windows!SchedulerAssumption /\ Asks!SchedulerAssumption /\ Demand!SchedulerAssumption
    /\ Loop!LoopAssumption

Init ==
    /\ part \in {"windows", "asks", "on demand", "loop", "hot"}
    /\ Windows!Init /\ Loop!Init /\ Hot!Init

Next ==
    \/ part = "windows" /\ Windows!Next /\ UNCHANGED <<part, loopvars, hotvars>>
    \/ part = "asks" /\ Asks!Next /\ UNCHANGED <<part, loopvars, hotvars>>
    \/ part = "on demand" /\ Demand!Next /\ UNCHANGED <<part, loopvars, hotvars>>
    \/ part = "loop" /\ Loop!Next /\ UNCHANGED <<part, schedvars, hotvars>>
    \/ part = "hot" /\ Hot!Next /\ UNCHANGED <<part, schedvars, loopvars>>

\* The fairness of ServeLoop, for its behaviours.
Fair(A) == part = "loop" /\ A /\ UNCHANGED <<part, schedvars, hotvars>>
Spec ==
    /\ Init /\ [][Next]_vars
    /\ WF_vars(Fair(Loop!LoopStep)) /\ WF_vars(Fair(Loop!HandlerWrites))
    /\ WF_vars(Fair(http = "busy" /\ Loop!HttpWorks))
    /\ SF_vars(Fair(Loop!StopHttp))

-----------------------------------------------------------------------------
\* Scheduler: a clock step, either way, ends neither the grace after the last
\* client nor the hysteresis after an anomaly before its time.
WindowsNotCutShort == part = "windows" => Windows!WindowsNotCutShort

\* Scheduler: L3 and L2 are held past their windows by no more real time than
\* a step back of the clock hid, and are not replayed at the old stamp.
WindowsEnd == part = "windows" => Windows!WindowsEnd

\* Scheduler: an anomaly escalates to L3 only once it has held on every tick
\* for escalate_after of real time.
EscalationEarned == Windows!EscalationEarned

\* Scheduler: a level requested for a time is not dropped before that time has
\* passed, while the clock steps forward only between ticks.
RequestsKeptOverSleep == part = "asks" => Asks!RequestsKeptOverSleep

\* Scheduler: the loop never goes to sleep at a level that collects nothing
\* while a request for one that collects has time left.
NoRequestSleptThrough == part = "on demand" => Demand!NoRequestSleptThrough

\* ServeLoop: a stop is heeded without waiting for the sleep's end, whichever
\* thread took the signal and wherever the loop was.
StopsPromptly == part = "loop" => Loop!StopsPromptly

\* ServeLoop: so is a reload, also one asked for while another runs.
ReloadsPromptly == part = "loop" => Loop!ReloadsPromptly

\* ServeLoop: once a client's wake-up is read from the pipe, the sleep ends at
\* the floor at the latest.
ClientSeenSoon == Loop!ClientSeenSoon

\* ServeLoop: a wake-up never makes a tick sooner than the floor, or than the
\* sleep the last tick asked for.
TicksApart == Loop!TicksApart

\* ServeLoop: the shutdown takes a part down only after what uses it.
UsedOnlyWhileUp == Loop!UsedOnlyWhileUp

\* HotBuffer: what a client gets is the newest samples since the buffer was
\* emptied, oldest first, however often the ring has gone round.
SnapshotIsTail == Hot!SnapshotIsTail

\* HotBuffer: once no tick has seen a client for the grace, the samples of
\* that time are gone, though a quiet level sleeps for minutes.
StaleGone == Hot!StaleGone

\* HotBuffer: the buffer is never emptied before the grace is over in real
\* time, nor twice for one spell, wherever the wall clock is set.
KeptForGrace == Hot!KeptForGrace

\* HotBuffer: the wake-up for the reset never puts a tick right after another.
ResetTicksApart == Hot!TicksApart

-----------------------------------------------------------------------------
\* Scheduler: over clock steps either way the grace and the hysteresis last
\* their time, no more and no less, and an escalation is earned.
WindowsRight ==
    [](WindowsNotCutShort /\ WindowsEnd /\ (part = "windows" => Windows!TypeOK)) /\ EscalationEarned

\* Scheduler: a level requested for a time is held for it, in on-demand mode too.
RequestsKept == RequestsKeptOverSleep /\ NoRequestSleptThrough

\* ServeLoop: the sleep ends for a stop, a reload and a client as it should and
\* not sooner, and the shutdown takes down no part in use.
LoopRight == [](ClientSeenSoon /\ UsedOnlyWhileUp) /\ TicksApart /\ StopsPromptly /\ ReloadsPromptly

\* HotBuffer: a snapshot is the newest samples, and the buffer is emptied when
\* the grace is over: not before, not twice, and with no tick right after one.
HotBufferRight == [](SnapshotIsTail /\ StaleGone) /\ KeptForGrace /\ ResetTicksApart
=============================================================================
