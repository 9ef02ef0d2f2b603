----------------------------- MODULE Scheduler ------------------------------
(***************************************************************************)
(* The adaptive level scheduler and the part of the serve loop that drives *)
(* it.  The scheduler keeps every timer on the wall clock, which steps     *)
(* back and forward; the loop sees a step forward against the monotonic    *)
(* clock, tick() sees a step back.  The properties are in monotonic time.  *)
(*                                                                         *)
(* A unit of time is longer than the second below which the loop ignores a *)
(* difference between the two clocks.                                      *)
(***************************************************************************)
EXTENDS Integers, FiniteSetsExt

CONSTANTS Mode,           \* collection.mode
          Custom,         \* the custom levels
          Prio, Interval, \* priority and interval_ms of each level
          l2_always_on,
          EscalateAfter, Grace, Hysteresis,
          Hold,           \* a custom level's hold_sec
          Clients,        \* the numbers of connected clients a tick may see
          Readings,       \* what a sample may say of the thresholds
          Askable,        \* the levels requested by a rule or by their `when`
          Seconds,        \* what a rule's escalate() asks for: a set of lengths
          Epoch,          \* the wall clock at start, further than any step back
          MaxTime,        \* bound: the monotonic clock
          MaxStep,        \* bound: the length of a clock step
          MaxBack, MaxForward   \* bound: how many steps

Levels == {"L1", "L2", "L3"} \cup Custom

SchedulerAssumption ==
    /\ Mode \in {"Adaptive", "Always", "OnDemand"}
    /\ Prio \in [Levels -> Int] /\ Interval \in [Levels -> Nat]
    /\ Prio["L1"] = 0 /\ Prio["L2"] = 20 /\ Prio["L3"] = 30
    /\ Custom \cap {"L1", "L2", "L3"} = {}
    /\ \A a, b \in Levels : a # b => Prio[a] # Prio[b] \/ Interval[a] # Interval[b]
    /\ l2_always_on \in BOOLEAN
    /\ {EscalateAfter, Grace, Hysteresis, Hold} \subseteq Nat
    /\ Clients \subseteq Nat /\ Seconds \subseteq Nat /\ Askable \subseteq Levels
    /\ Readings \subseteq {"normal", "over", "partial"}
    /\ {MaxTime, MaxStep, MaxBack, MaxForward} \subseteq Nat
    /\ Epoch \in Nat /\ Epoch > MaxStep * MaxBack

VARIABLES mono, wall,     \* the two clocks
          backs, forwards,  \* clock steps so far
          sc,             \* the Scheduler object
          slept_at,       \* the level the loop last slept at
          prev_mono, prev_wall,  \* the clocks of the last collecting tick
          pc,             \* "sleep", or "rules" between the tick and the rules
          woke,           \* the monotonic clock when the loop last woke
          ghost           \* real times the properties speak of

vars == <<mono, wall, backs, forwards, sc, slept_at, prev_mono, prev_wall, pc, woke, ghost>>

-----------------------------------------------------------------------------
(* The Scheduler object.  `anomaly` is anomaly_ != NORMAL.                 *)

NewScheduler ==
    [level |-> "L1", anomaly |-> FALSE, clients |-> 0, last_tick |-> 0,
     had_anomaly |-> FALSE, last_anomaly |-> 0,
     had_clients |-> FALSE, last_client |-> 0,
     in_run |-> FALSE, run_start |-> 0, escalated |-> FALSE,
     requested |-> [l \in Levels |-> FALSE],
     until |-> [l \in Levels |-> 0], made |-> [l \in Levels |-> 0]]

\* Whether level a is selected before b.
Above(a, b) == Prio[a] > Prio[b] \/ (Prio[a] = Prio[b] /\ Interval[a] < Interval[b])

higher(a, b) == IF Above(b, a) THEN b ELSE a

Requested(s, l, now) == s.requested[l] /\ s.until[l] >= now

Within(now, then, window) == now >= then /\ now - then < window

L3Active(s, now) ==
    \/ Mode = "Always"
    \/ s.clients > 0
    \/ s.had_clients /\ Within(now, s.last_client, Grace)
    \/ s.escalated /\ (s.anomaly \/ Within(now, s.last_anomaly, Grace))
    \/ Requested(s, "L3", now)

L2Active(s, now) ==
    \/ Mode # "OnDemand" /\ s.anomaly
    \/ s.had_anomaly /\ Within(now, s.last_anomaly, Hysteresis)
    \/ Mode # "OnDemand" /\ l2_always_on
    \/ Requested(s, "L2", now)

Active(s, now) ==
    {"L1"} \cup {l \in {"L2"} : L2Active(s, now)} \cup {l \in {"L3"} : L3Active(s, now)}
           \cup {l \in Custom : Requested(s, l, now)}

select(s, now) ==
    CHOOSE l \in Active(s, now) : \A o \in Active(s, now) : ~Above(o, l)

collects(l) == Mode # "OnDemand" \/ l \notin {"L1", "L2"}

\* Faulty form: the deadline there is replaced by an earlier one too.
request_AnyDeadline(s, ls, until, made) ==
    [s EXCEPT !.requested = [l \in Levels |-> @[l] \/ l \in ls],
              !.until     = [l \in Levels |-> IF l \in ls THEN until ELSE @[l]],
              !.made      = [l \in Levels |-> IF l \in ls THEN made ELSE @[l]]]

\* request(), for each level of ls.
request(s, ls, until, made) ==
    LET stale(l) == made # 0 /\ s.made[l] > made
        taken    == {l \in ls : ~s.requested[l] \/ stale(l) \/ s.until[l] < until}
    IN  [s EXCEPT !.requested = [l \in Levels |-> @[l] \/ l \in taken],
                  !.until     = [l \in Levels |-> IF l \in taken THEN until ELSE @[l]],
                  !.made      = [l \in Levels |-> IF l \in taken THEN made ELSE @[l]]]

\* Faulty form: the anomaly run is not moved.
clock_stepped_forward_RunLeft(s, by) ==
    [s EXCEPT !.last_client  = IF s.had_clients THEN @ + by ELSE @,
              !.last_anomaly = IF s.had_anomaly THEN @ + by ELSE @,
              !.last_tick    = IF @ # 0 THEN @ + by ELSE @]

clock_stepped_forward(s, by) ==
    [s EXCEPT !.until = [l \in Levels |-> IF s.requested[l] THEN @[l] + by ELSE @[l]],
              !.made  = [l \in Levels |-> IF s.requested[l] /\ @[l] # 0 THEN @[l] + by ELSE @[l]],
              !.last_client  = IF s.had_clients THEN @ + by ELSE @,
              !.last_anomaly = IF s.had_anomaly THEN @ + by ELSE @,
              !.run_start    = IF s.in_run THEN @ + by ELSE @,
              !.last_tick    = IF @ # 0 THEN @ + by ELSE @]

\* The first part of tick(): the clock stepped back since the last one.
SteppedBack(s, now) ==
    LET back    == s.last_tick - now
        move(t) == IF t > back THEN t - back ELSE 0
    IN  IF s.last_tick = 0 \/ back <= 0 THEN s
        ELSE [s EXCEPT
                !.until = [l \in Levels |->
                              IF s.requested[l] /\ (s.made[l] = 0 \/ s.made[l] > now)
                              THEN move(@[l]) ELSE @[l]],
                !.last_client  = IF s.had_clients THEN move(@) ELSE @,
                !.last_anomaly = IF s.had_anomaly THEN move(@) ELSE @,
                !.run_start    = IF s.in_run THEN move(@) ELSE @]

\* check_anomaly(): a sample over a threshold, within all three, or lacking a
\* reading with the rest within; the last leaves the state as it was.
check_anomaly(s, reading) == reading = "over" \/ (reading = "partial" /\ s.anomaly)

\* The anomaly run, its escalation and its end.
Anomalous(s, now) ==
    LET start == IF s.in_run THEN s.run_start ELSE now
    IN  [s EXCEPT !.in_run = TRUE, !.run_start = start,
                  !.last_anomaly = now, !.had_anomaly = TRUE,
                  !.escalated = @ \/ (EscalateAfter > 0 /\ now - start >= EscalateAfter)]

Calm(s, now) ==
    LET over == s.escalated /\ (now < s.last_anomaly \/ now - s.last_anomaly >= Grace)
    IN  [s EXCEPT !.in_run = @ /\ s.escalated /\ ~over, !.escalated = @ /\ ~over]

tick(s, now, reading) ==
    LET moved == [SteppedBack(s, now) EXCEPT !.last_tick = now,
                                             !.anomaly = check_anomaly(s, reading)]
        ran   == IF Mode = "OnDemand" THEN moved
                 ELSE IF moved.anomaly THEN Anomalous(moved, now) ELSE Calm(moved, now)
        seen  == IF ran.clients > 0
                 THEN [ran EXCEPT !.last_client = now, !.had_clients = TRUE] ELSE ran
    IN  [seen EXCEPT !.level = select(seen, now)]
-----------------------------------------------------------------------------
(* The serve loop.                                                         *)

Never == -1

Init ==
    /\ mono = 1 /\ wall = Epoch /\ backs = 0 /\ forwards = 0
    /\ sc = NewScheduler
    /\ slept_at = "L1" /\ prev_mono = 0 /\ prev_wall = 0
    /\ pc = "sleep" /\ woke = 0
    /\ ghost = [client |-> Never, anomaly |-> Never, run |-> Never, mid |-> FALSE, lost |-> 0,
                client_lost |-> 0, anomaly_lost |-> 0, promised |-> [l \in Levels |-> Never],
                request_lost |-> [l \in Levels |-> 0]]

\* The real time since the last tick that its timers did not count: what a
\* step back hid.
Hidden(s, now) ==
    IF prev_mono = 0 THEN 0
    ELSE mono - prev_mono - IF now > s.last_tick THEN now - s.last_tick ELSE 0

Latest(a, b) == IF a > b THEN a ELSE b

\* What the tick at `mono` means in real time.
Observed(g, s, now, t) ==
    LET lost == g.lost + Hidden(s, now)
    IN  [g EXCEPT !.lost = lost,
                  !.client = IF t.clients > 0 THEN mono ELSE @,
                  !.client_lost = IF t.clients > 0 THEN lost ELSE @,
                  !.anomaly = IF t.anomaly THEN mono ELSE @,
                  !.anomaly_lost = IF t.anomaly THEN lost ELSE @,
                  !.run = IF ~t.anomaly THEN Never ELSE IF @ = Never THEN mono ELSE @]

\* The levels ls are promised for `length` from now.
Promised(g, ls, length) ==
    [g EXCEPT !.promised = [l \in Levels |-> IF l \in ls THEN Latest(@[l], mono + length) ELSE @[l]],
              !.request_lost = [l \in Levels |->
                                    IF l \in ls /\ g.promised[l] = Never THEN g.lost ELSE @[l]]]

CollectAt(s) == higher(slept_at, select(s, wall))

\* A step forward since the last collecting tick.
Corrected(s) ==
    IF /\ prev_mono # 0 /\ mono > prev_mono /\ wall > prev_wall
       /\ wall - prev_wall > mono - prev_mono
    THEN clock_stepped_forward(s, (wall - prev_wall) - (mono - prev_mono))
    ELSE s

\* A collecting tick, up to its scheduler tick: clients and custom levels whose
\* `when` holds on the sample.
Collect(clients, reading, hits) ==
    LET seen  == [sc EXCEPT !.clients = clients]
        fixed == Corrected(seen)
        asked == request(fixed, hits, wall + Hold, wall)
        done  == tick(asked, wall, reading)
    IN  /\ pc = "sleep" /\ mono > woke
        /\ collects(CollectAt(seen))
        /\ sc' = done
        /\ ghost' = Promised(Observed(ghost, fixed, wall, done), hits, Hold)
        /\ prev_mono' = mono /\ prev_wall' = wall /\ woke' = mono
        /\ pc' = "rules"
        /\ UNCHANGED <<mono, wall, backs, forwards, slept_at>>

\* The rules run; what they escalate is requested, and the next sleep's level
\* chosen.
Rules(ls, seconds) ==
    /\ pc = "rules"
    /\ sc' = request(sc, ls, wall + seconds, wall)
    /\ ghost' = Promised(ghost, ls, seconds)
    /\ slept_at' = higher(sc.level, select(sc', wall))
    /\ pc' = "sleep"
    /\ UNCHANGED <<mono, wall, backs, forwards, prev_mono, prev_wall, woke>>

\* In on-demand mode L1 and L2 collect nothing; a changed file may still run a
\* rule that escalates.
Idle(clients, ls, seconds) ==
    LET seen   == [sc EXCEPT !.clients = clients]
        at     == CollectAt(seen)
        asked  == request(seen, ls, wall + seconds, wall)
        raised == higher(at, select(asked, wall))
    IN  /\ pc = "sleep" /\ mono > woke
        /\ ~collects(at)
        /\ sc' = asked
        /\ ghost' = Promised(ghost, ls, seconds)
        /\ slept_at' = IF ls # {} /\ collects(raised) THEN raised ELSE at
        /\ woke' = mono
        /\ UNCHANGED <<mono, wall, backs, forwards, prev_mono, prev_wall, pc>>

TimePasses ==
    /\ mono < MaxTime
    /\ mono' = mono + 1 /\ wall' = wall + 1
    /\ UNCHANGED <<backs, forwards, sc, slept_at, prev_mono, prev_wall, pc, woke, ghost>>

ClockStepsBack(by) ==
    /\ backs < MaxBack
    /\ wall' = wall - by /\ backs' = backs + 1
    /\ UNCHANGED <<mono, forwards, sc, slept_at, prev_mono, prev_wall, pc, woke, ghost>>

ClockStepsForward(by) ==
    /\ forwards < MaxForward
    /\ wall' = wall + by /\ forwards' = forwards + 1
    /\ ghost' = [ghost EXCEPT !.mid = @ \/ pc = "rules"]
    /\ UNCHANGED <<mono, backs, sc, slept_at, prev_mono, prev_wall, pc, woke>>

\* What the rules of one tick may escalate.
Escalations == {{}} \cup {{l} : l \in Askable}

Next ==
    \/ \E clients \in Clients, reading \in Readings, hits \in SUBSET (Custom \cap Askable) :
          Collect(clients, reading, hits)
    \/ \E ls \in Escalations, seconds \in Seconds : Rules(ls, seconds)
    \/ \E clients \in Clients, ls \in Escalations, seconds \in Seconds : Idle(clients, ls, seconds)
    \/ TimePasses
    \/ \E by \in 1 .. MaxStep : ClockStepsBack(by) \/ ClockStepsForward(by)

Spec == Init /\ [][Next]_vars
-----------------------------------------------------------------------------
(* Properties.  The last tick was at monotonic time prev_mono.             *)

Times == Epoch - MaxStep * MaxBack .. Epoch + MaxTime + MaxStep * MaxForward
Stamps == 0 .. Epoch + MaxTime + 2 * MaxStep * MaxForward + Max(Seconds \cup {Hold})

\* The clocks and the stamps stay in their ranges: no timer wraps below zero
\* when it is moved back, and the level is one of the configured ones.
TypeOK ==
    /\ mono \in 1 .. MaxTime /\ wall \in Times
    /\ backs \in 0 .. MaxBack /\ forwards \in 0 .. MaxForward
    /\ slept_at \in Levels /\ sc.level \in Levels /\ pc \in {"sleep", "rules"}
    /\ {sc.last_tick, sc.last_client, sc.last_anomaly, sc.run_start} \subseteq Stamps
    /\ sc.until \in [Levels -> Stamps] /\ sc.made \in [Levels -> Stamps]
    /\ sc.escalated => sc.in_run

\* An anomaly escalates to L3 only once it has held on every tick for
\* escalate_after of real time: a clock step is not time it held.
EscalationEarned ==
    [][sc'.escalated /\ ~sc.escalated => ghost'.run # Never /\ mono - ghost'.run >= EscalateAfter]_vars

\* The client grace and the L2 hysteresis last their length in real time at
\* least: a clock step, either way, ends neither early.
WindowsNotCutShort ==
    /\ ghost.client # Never /\ prev_mono - ghost.client < Grace => ~Above("L3", sc.level)
    /\ Mode # "OnDemand" /\ ghost.anomaly # Never /\ prev_mono - ghost.anomaly < Hysteresis
          => ~Above("L2", sc.level)

\* They end: L3 and L2 are held past their windows by no more real time than
\* the gaps in which the clock stepped back, and are not replayed when the
\* clock comes to the old stamp again.
WindowsEnd ==
    pc = "rules" =>
        /\ L3Active(sc, prev_wall) /\ Mode # "Always" /\ sc.clients = 0
              /\ ~sc.escalated /\ ~Requested(sc, "L3", prev_wall)
           => prev_mono - ghost.client < Grace + ghost.lost - ghost.client_lost
        /\ sc.escalated /\ ~sc.anomaly
           => prev_mono - ghost.anomaly < Grace + ghost.lost - ghost.anomaly_lost
        /\ L2Active(sc, prev_wall) /\ ~sc.anomaly /\ ~l2_always_on
              /\ ~Requested(sc, "L2", prev_wall)
           => prev_mono - ghost.anomaly < Hysteresis + ghost.lost - ghost.anomaly_lost

\* scheduler.h on request(): "Keep `level` active through `until_ns` (a later
\* deadline replaces an earlier one; an earlier one is ignored)".  A level
\* requested for a time is not dropped before that time has passed.
RequestsHonoured ==
    pc = "rules" => \A l \in Levels : prev_mono <= ghost.promised[l] => ~Above(l, sc.level)

\* It is so while the clock steps forward only between ticks.  (A request filed
\* after a step in the middle of a tick is moved with the old ones, and its
\* made_at with it: the next, shorter one then passes for newer and replaces it.)
RequestsKeptOverSleep == ~ghost.mid => RequestsHonoured

\* The loop never goes to sleep at a level that collects nothing while a request
\* for one that collects has time left, whichever tick filed it.
NoRequestSleptThrough ==
    pc = "sleep" /\ ~collects(slept_at) => \A l \in Levels : collects(l) => ghost.promised[l] < woke

\* scheduler.h on request(): "when the clock has stepped back since, tick()
\* moves the deadline back as far, keeping what was left".  A request outlives
\* its length by no more than the real time the step back hid.
RequestsEnd ==
    pc = "rules" =>
        \A l \in Levels : Requested(sc, l, prev_wall) =>
            prev_mono <= ghost.promised[l] + ghost.lost - ghost.request_lost[l]

-----------------------------------------------------------------------------
(* For instances with one custom level, above the built-in ones and with   *)
(* the shortest interval.                                                  *)

FastPrio == [l \in Levels |-> CASE l = "L1" -> 0 [] l = "L2" -> 20 [] l = "L3" -> 30 [] OTHER -> 40]
FastInterval == [l \in Levels |-> CASE l = "L1" -> 300 [] l = "L2" -> 30 [] l = "L3" -> 3 [] OTHER -> 1]
=============================================================================
