------------------------------ MODULE ServeLoop ------------------------------
(***************************************************************************)
(* The daemon's main loop around its ticks: the sleep that a signal, a     *)
(* client or a watched file ends through the self-pipe, the reload of the  *)
(* rules, and the shutdown in its order.  Signal handlers run on any       *)
(* thread, between any two steps of the loop; what a tick collects is in   *)
(* Scheduler and WsHub.                                                    *)
(***************************************************************************)
EXTENDS Integers, FiniteSets

CONSTANTS Lengths,         \* sleeps a tick may ask for
          kMinWakeGap,     \* the floor of a client's wake-up
          PipeSize,        \* bytes the pipe holds
          MaxSignals, MaxWakes   \* bounds

LoopAssumption ==
    /\ Lengths \subseteq Nat /\ kMinWakeGap \in Nat /\ PipeSize \in Nat \ {0}
    /\ MaxSignals \in Nat /\ MaxWakes \in Nat

VARIABLES pc, after,        \* the main thread; where reload() returns to
          g_stop, g_reload, \* set by the handler
          zeros, ones,      \* bytes in the pipe: a signal's, a client's
          handlers,         \* handlers that have set their flag, not written yet
          watch, watching,  \* an event to read; pfds[1].fd not taken out
          asked, t, now, deadline,   \* the sleep: its length, the time, as read, its end
          http, store, engine, worker,  \* "up", "busy" or "down"
          signals, wakes, wanted \* wanted: a client waits for its tick

flags == <<g_stop, g_reload, handlers>>
pipe == <<zeros, ones>>
sleep == <<watching, asked, t, now, deadline>>
parts == <<http, store, engine, worker>>
counts == <<signals, wakes, wanted>>
vars == <<pc, after, flags, pipe, watch, sleep, parts, counts>>

Init ==
    /\ pc = "top" /\ after = "tick"
    /\ g_stop = FALSE /\ g_reload = FALSE /\ handlers = 0
    /\ zeros = 0 /\ ones = 0 /\ watch = FALSE /\ watching = TRUE
    /\ asked = 0 /\ t = 0 /\ now = 0 /\ deadline = 0
    /\ http = "up" /\ store = "up" /\ engine = "up" /\ worker = "up"
    /\ signals = 0 /\ wakes = 0 /\ wanted = FALSE

-----------------------------------------------------------------------------
\* budyk_serve_signal_handler() on whichever thread takes the signal: the flag,
\* then the byte.  A full pipe has a wake-up pending anyway.
Signal(hup) ==
    /\ signals < MaxSignals
    /\ signals' = signals + 1
    /\ IF hup THEN g_reload' = TRUE /\ UNCHANGED g_stop
       ELSE g_stop' = TRUE /\ UNCHANGED g_reload
    /\ handlers' = handlers + 1
    /\ UNCHANGED <<pc, after, pipe, watch, sleep, parts, wakes, wanted>>

\* Faulty form: the flag alone.
HandlerWrites_FlagOnly ==
    /\ handlers > 0
    /\ handlers' = handlers - 1
    /\ UNCHANGED <<pc, after, g_stop, g_reload, pipe, watch, sleep, parts, counts>>

HandlerWrites ==
    /\ handlers > 0
    /\ handlers' = handlers - 1
    /\ zeros' = IF zeros + ones < PipeSize THEN zeros + 1 ELSE zeros
    /\ UNCHANGED <<pc, after, g_stop, g_reload, ones, watch, sleep, parts, counts>>

\* wake_collection_loop(), by a request on the HTTP thread.
ClientWake ==
    /\ http = "busy" /\ wakes < MaxWakes
    /\ wakes' = wakes + 1 /\ wanted' = TRUE
    /\ ones' = IF zeros + ones < PipeSize THEN ones + 1 ELSE ones
    /\ UNCHANGED <<pc, after, flags, zeros, watch, sleep, parts, signals>>

FileChanges ==
    /\ ~watch
    /\ watch' = TRUE
    /\ UNCHANGED <<pc, after, flags, pipe, sleep, parts, counts>>

\* A request, which uses the store and the hub, begins or ends.
HttpWorks ==
    /\ http' = IF http = "up" THEN "busy" ELSE "up"
    /\ http # "down"
    /\ UNCHANGED <<pc, after, flags, pipe, watch, sleep, store, engine, worker, counts>>

-----------------------------------------------------------------------------
Goto(p) == pc' = p
OutsideUnchanged == UNCHANGED <<g_stop, handlers, parts, signals, wakes>>

\* while (!g_stop) { if (g_reload) ... }
Top ==
    /\ pc = "top"
    /\ CASE g_stop -> Goto("save_state") /\ UNCHANGED <<g_reload, after>>
         [] ~g_stop /\ g_reload -> Goto("reload") /\ g_reload' = FALSE /\ after' = "tick"
         [] OTHER -> Goto("tick") /\ UNCHANGED <<g_reload, after>>
    /\ UNCHANGED <<pipe, watch, sleep, wanted>> /\ OutsideUnchanged

\* reload_rules(); a flag set meanwhile is looked at again.
Reload ==
    /\ pc = "reload"
    /\ Goto(after)
    /\ UNCHANGED <<after, g_reload, pipe, watch, sleep, wanted>> /\ OutsideUnchanged

\* A tick serves the clients, reads the watched files, and chooses its sleep.
Tick ==
    /\ pc = "tick"
    /\ wanted' = FALSE /\ watch' = FALSE
    /\ \E ms \in Lengths :
          /\ asked' = ms /\ t' = 0 /\ now' = 0 /\ deadline' = ms /\ watching' = TRUE
          /\ Goto(IF ms = 0 \/ g_stop THEN "top" ELSE "loop")
    /\ UNCHANGED <<after, g_reload, pipe>> /\ OutsideUnchanged

\* The loop of interruptible_sleep(), up to its poll().
SleepLoop ==
    /\ pc = "loop"
    /\ CASE g_reload -> Goto("reload") /\ g_reload' = FALSE /\ after' = "loop" /\ UNCHANGED now
         [] ~g_reload /\ g_stop -> Goto("top") /\ UNCHANGED <<g_reload, after, now>>
         [] OTHER -> /\ now' = t
                     /\ Goto(IF t >= deadline THEN "top" ELSE "poll")
                     /\ UNCHANGED <<g_reload, after>>
    /\ UNCHANGED <<pipe, watch, watching, asked, t, deadline, wanted>> /\ OutsideUnchanged

\* A client's wake-up (or a watched file's) ends the sleep, no sooner than the
\* floor after its start; `now` was read before the poll().
Woken(client) ==
    IF g_stop \/ (client /\ now >= kMinWakeGap)
    THEN Goto("top") /\ UNCHANGED deadline
    ELSE /\ Goto("loop")
         /\ deadline' = IF client /\ kMinWakeGap < deadline THEN kMinWakeGap ELSE deadline

\* poll() returns for the pipe, which is read empty, or for the watcher, which
\* is then taken out of the set.
PollReady ==
    /\ pc = "poll"
    /\ zeros + ones > 0 \/ (watch /\ watching)
    /\ Woken(ones > 0 \/ (watch /\ watching))
    /\ zeros' = 0 /\ ones' = 0
    /\ watching' = (watching /\ ~watch)
    /\ UNCHANGED <<after, g_reload, watch, asked, t, now, wanted>> /\ OutsideUnchanged

\* The timeout, or EINTR on the thread that took a signal.
PollReturns ==
    /\ pc = "poll" /\ zeros + ones = 0
    /\ t >= deadline \/ handlers > 0
    /\ Goto(IF g_stop THEN "top" ELSE "loop")
    /\ UNCHANGED <<after, g_reload, pipe, watch, sleep, wanted>> /\ OutsideUnchanged

TimePasses ==
    /\ pc = "poll" /\ t < deadline
    /\ t' = t + 1
    /\ UNCHANGED <<pc, after, flags, pipe, watch, watching, asked, now, deadline, parts, counts>>

-----------------------------------------------------------------------------
\* The shutdown, step by step; http.stop() and the workers' stop() return once
\* the thread has ended (a request that runs is waited for).
Down(from, to) == pc = from /\ Goto(to) /\ UNCHANGED <<after, flags, pipe, watch, sleep, counts>>

SaveState == Down("save_state", "stop_http") /\ UNCHANGED parts

StopHttp ==
    /\ http = "up" /\ http' = "down"
    /\ Down("stop_http", "stop_workers") /\ UNCHANGED <<store, engine, worker>>
StopWorkers ==
    /\ worker' = "down"
    /\ Down("stop_workers", "shutdown_engine") /\ UNCHANGED <<http, store, engine>>
ShutdownEngine ==
    /\ engine' = "down"
    /\ Down("shutdown_engine", "close_store") /\ UNCHANGED <<http, store, worker>>
CloseStore ==
    /\ store' = "down"
    /\ Down("close_store", "done") /\ UNCHANGED <<http, engine, worker>>

Shutdown == SaveState \/ StopHttp \/ StopWorkers \/ ShutdownEngine \/ CloseStore
LoopStep == Top \/ Reload \/ Tick \/ SleepLoop \/ PollReady \/ PollReturns \/ Shutdown
Done == pc = "done" /\ UNCHANGED vars

Next ==
    \/ LoopStep \/ TimePasses \/ Done
    \/ Signal(TRUE) \/ Signal(FALSE) \/ HandlerWrites
    \/ ClientWake \/ FileChanges \/ HttpWorks

\* No fairness for TimePasses: what is promised below does not wait for the
\* sleep to run out.  Requests end (each has its own bound), and so
\* does a worker's stop() (see Worker).
Spec ==
    /\ Init /\ [][Next]_vars
    /\ WF_vars(LoopStep) /\ WF_vars(HandlerWrites)
    /\ WF_vars(http = "busy" /\ HttpWorks)
    /\ SF_vars(StopHttp)

-----------------------------------------------------------------------------
\* The loop's variables stay in their ranges, and the pipe in its size.
TypeOK ==
    /\ pc \in {"top", "reload", "tick", "loop", "poll", "save_state", "stop_http",
               "stop_workers", "shutdown_engine", "close_store", "done"}
    /\ zeros + ones \in 0 .. PipeSize
    /\ t \in Nat /\ now \in 0 .. t /\ deadline \in 0 .. asked

\* A stop is heeded without waiting for the sleep's end, whichever thread took
\* the signal and wherever the loop was, in a reload, between the test of the
\* flag and the poll(), or in a tick.
StopsPromptly == g_stop ~> pc = "done"

\* So is a reload, also one asked for while another runs.
ReloadsPromptly == g_reload ~> (pc = "reload" \/ pc = "done")

\* Once a client's wake-up has been read from the pipe, the sleep ends at the
\* floor at the latest.
ClientSeenSoon ==
    wanted /\ pc = "poll" /\ handlers = 0 /\ zeros + ones = 0
        => deadline <= kMinWakeGap \/ t >= deadline

\* A wake-up never makes a tick sooner than the floor, or than the sleep the
\* tick asked for: its rates would be measured over a few milliseconds.
TicksApart ==
    [][(pc \in {"loop", "poll"}) /\ pc' = "top" /\ ~g_stop
            => t >= asked \/ t >= kMinWakeGap]_vars

\* The parts are taken down after what uses them: no request runs on a closed
\* store or a hub that is gone, no job on an engine that is.
UsedOnlyWhileUp ==
    /\ store = "down" => http = "down" /\ engine = "down"
    /\ engine = "down" => worker = "down" /\ http = "down"
=============================================================================
