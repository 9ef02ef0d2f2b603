------------------------------ MODULE HotBuffer ------------------------------
(***************************************************************************)
(* The hot buffer, the warm grace that empties it, and the poller that     *)
(* holds the level: the collection loop's tick against the requests of the *)
(* HTTP thread, on a wall clock that may be set while they run.            *)
(***************************************************************************)
EXTENDS Integers, Sequences, FiniteSetsExt, SequencesExt

CONSTANTS Capacity,      \* hot_buffer.capacity
          grace,         \* hot_buffer.warm_grace
          kPollerWindow, kMinWakeGap,
          Interval,      \* the interval of "L1" (a quiet level) and of "L3"
          OnDemand,      \* scheduler.mode is on_demand
          Steps,         \* how far the wall clock may be set, back or forward
          MaxSteps, MaxTime   \* bounds: clock settings, length of a run

VARIABLES ring, head, count,                      \* HotBuffer
          last_client, pending, connected,        \* WarmGrace
          last_poll,      \* g_last_poll_ns
          poll,           \* the time a request on /api/samples has read, or None
          ws,             \* open WebSockets
          slept_at, from, deadline,   \* the sleep: its level, start and end
          mono, wall, steps,          \* the clocks
          recent, seen, offset        \* history: the samples pushed since the last
                                      \* reset; when a tick last saw a client or was
                                      \* a fast one, and the wall clock's lead then

buffer == <<ring, head, count>>
warm == <<last_client, pending, connected>>
clocks == <<mono, wall, steps>>
sleep == <<slept_at, from, deadline>>
vars == <<buffer, warm, last_poll, poll, ws, sleep, clocks, recent, seen, offset>>

None == -1
Forever == MaxTime + 1

Init ==
    /\ ring = [i \in 0 .. Capacity - 1 |-> None] /\ head = 0 /\ count = 0
    /\ last_client = 0 /\ pending = FALSE /\ connected = FALSE
    /\ last_poll = 0 /\ poll = None /\ ws = 0
    /\ slept_at = "L1" /\ from = -kMinWakeGap /\ deadline = 0
    /\ mono = 0 /\ wall = MaxTime /\ steps = 0
    /\ recent = <<>> /\ seen = None /\ offset = None

-----------------------------------------------------------------------------
\* Faulty form: a clock set back not told from a long spell.
should_reset_Wraps(clients, fast) ==
    /\ ~(clients > 0 \/ fast) /\ pending
    /\ wall < last_client \/ wall - last_client >= grace

\* HotBuffer.
pushed_head(h) == (h + 1) % Capacity

dump_last(n) ==
    LET m == Min({n, count})
        start == (head + Capacity - m) % Capacity
    IN  [i \in 1 .. m |-> ring[(start + i - 1) % Capacity]]

dump(n) ==
    LET m == Min({n, count})
        start == (head + Capacity - count) % Capacity
    IN  [i \in 1 .. m |-> ring[(start + i - 1) % Capacity]]

\* WarmGrace. A clock set back starts the spell again.
should_reset(clients, fast) ==
    /\ ~(clients > 0 \/ fast) /\ pending
    /\ wall >= last_client /\ wall - last_client >= grace

WarmTick(clients, fast) ==
    /\ connected' = (clients > 0)
    /\ last_client' = IF clients > 0 \/ fast \/ (pending /\ wall < last_client)
                      THEN wall ELSE last_client
    /\ pending' = ((clients > 0 \/ fast) \/ (pending /\ ~should_reset(clients, fast)))

ns_until_due ==
    IF ~pending' \/ connected' THEN Forever
    ELSE IF wall < last_client' THEN grace
    ELSE Max({0, grace - (wall - last_client')})

cap_sleep(ms, due) ==
    IF due = Forever THEN ms ELSE Min({ms, Max({due + 1, kMinWakeGap})})

-----------------------------------------------------------------------------
\* The loop's tick: the clients, the reset, the sample, the next sleep. The
\* scheduler picks L3 for a client and may for reasons of its own (an
\* escalation, a rule).
Poller == last_poll # 0 /\ wall >= last_poll /\ wall - last_poll < kPollerWindow

Tick ==
    /\ mono = deadline
    /\ LET clients == ws + IF Poller THEN 1 ELSE 0
           fast == slept_at = "L3"
           empty == should_reset(clients, fast)
       IN  \E next \in IF clients > 0 THEN {"L3"} ELSE {"L1", "L3"} :
             LET collects == ~OnDemand \/ fast \/ next = "L3"
                 at == IF empty THEN 0 ELSE head
             IN  /\ WarmTick(clients, fast)
                 /\ seen' = IF clients > 0 \/ fast THEN mono ELSE seen
                 /\ offset' = IF clients > 0 \/ fast THEN wall - mono ELSE offset
                 /\ ring' = IF collects THEN [ring EXCEPT ![at] = mono] ELSE ring
                 /\ head' = IF collects THEN pushed_head(at) ELSE at
                 /\ count' = LET kept == IF empty THEN 0 ELSE count
                             IN  IF collects THEN Min({kept + 1, Capacity}) ELSE kept
                 /\ recent' = LET kept == IF empty THEN <<>> ELSE recent
                              IN  IF collects THEN Append(kept, mono) ELSE kept
                 /\ slept_at' = next
                 /\ from' = mono
                 /\ deadline' = mono + cap_sleep(Interval[next], ns_until_due)
    /\ UNCHANGED <<last_poll, poll, ws, clocks>>

\* wake_collection_loop(), as the sleep takes it.
Wake == deadline' = Min({deadline, Max({mono, from + kMinWakeGap})})

\* A request on /api/samples: it reads the clock, then takes its turn.
PollBegins ==
    /\ poll = None
    /\ poll' = wall
    /\ UNCHANGED <<buffer, warm, last_poll, ws, sleep, clocks, recent, seen, offset>>

PollStores ==
    /\ poll # None
    /\ last_poll' = poll
    /\ poll' = None
    /\ IF last_poll = 0 \/ poll < last_poll \/ poll - last_poll > kPollerWindow
       THEN Wake ELSE UNCHANGED deadline
    /\ UNCHANGED <<buffer, warm, ws, slept_at, from, clocks, recent, seen, offset>>

Connect ==
    /\ ws = 0 /\ ws' = 1
    /\ Wake
    /\ UNCHANGED <<buffer, warm, last_poll, poll, slept_at, from, clocks, recent, seen, offset>>

Leave ==
    /\ ws = 1 /\ ws' = 0
    /\ UNCHANGED <<buffer, warm, last_poll, poll, sleep, clocks, recent, seen, offset>>

TimePasses ==
    /\ mono < deadline /\ mono < MaxTime
    /\ poll # None => wall = poll    \* a request takes no longer than a unit
    /\ mono' = mono + 1 /\ wall' = wall + 1
    /\ UNCHANGED <<buffer, warm, last_poll, poll, ws, sleep, steps, recent, seen, offset>>

ClockSet ==
    /\ steps < MaxSteps /\ steps' = steps + 1
    /\ \E d \in Steps : wall + d > 0 /\ wall' = wall + d
    /\ UNCHANGED <<buffer, warm, last_poll, poll, ws, sleep, mono, recent, seen, offset>>

\* The modelled time is over.
Horizon == mono = MaxTime /\ UNCHANGED vars

Next ==
    \/ Tick \/ PollBegins \/ PollStores \/ Connect \/ Leave
    \/ TimePasses \/ ClockSet \/ Horizon

Spec == Init /\ [][Next]_vars

-----------------------------------------------------------------------------
\* The buffer's cursors stay inside it, and the sleep always ends.
TypeOK ==
    /\ head \in 0 .. Capacity - 1 /\ count \in 0 .. Capacity
    /\ ring \in [0 .. Capacity - 1 -> Nat \cup {None}]
    /\ last_client \in Nat /\ pending \in BOOLEAN /\ connected \in BOOLEAN
    /\ last_poll \in Nat /\ poll \in Nat \cup {None} /\ ws \in 0 .. 1
    /\ slept_at \in DOMAIN Interval /\ deadline \in mono .. mono + Max(Range(Interval))

\* What a client gets is the newest samples taken since the buffer was last
\* emptied, oldest first, however often the ring has gone round and whatever
\* number it asks for (dump_last, dump).
SnapshotIsTail ==
    /\ \A n \in 0 .. Capacity + 1 :
          dump_last(n) = LET m == Min({n, Capacity, Len(recent)})
                         IN  SubSeq(recent, Len(recent) - m + 1, Len(recent))
    /\ dump(Capacity) = dump_last(Capacity)

\* Once no tick has seen a client or been a fast one for the grace, the samples
\* of that time are gone, though a quiet level sleeps for minutes: at the
\* latest when the tick after the grace has run. Read while the clock is not
\* set (setting it back starts the spell again).
StaleGone ==
    seen # None /\ offset = wall - mono
        /\ mono > seen + Max({grace + kMinWakeGap, Interval["L3"]}) =>
        \A i \in 1 .. count : dump(count)[i] > seen

\* The buffer is never emptied before the grace is over, counted in real time,
\* nor twice for one spell: setting the clock back does not expire it.
KeptForGrace ==
    [][recent # <<>> /\ (recent' = <<>> \/ Head(recent') # Head(recent)) =>
          seen # None /\ pending /\ (offset >= wall - mono => mono - seen >= grace)]_vars

\* The wake-up for the reset never puts a tick right after another, whatever
\* the grace (0 too): the rates of a tick are over an interval or the floor.
TicksApart ==
    [][from' # from => from' - from >= Min({kMinWakeGap, Min(Range(Interval))})]_vars
==============================================================================
