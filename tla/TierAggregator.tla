--------------------------- MODULE TierAggregator ---------------------------
(***************************************************************************)
(* What TierAggregator folds a window of samples into. Every field of a    *)
(* Sample is folded in one of seven ways, and each way is here once, by a  *)
(* field of each metric group that has it: cpu.total_percent is a mean,    *)
(* proc.total a maximum, thermal.max_celsius a maximum of what is present, *)
(* entropy.available_bits a minimum of what is present, events_this_tick a *)
(* sum, clock.offset_ms the largest in size and clock.synced true of all;  *)
(* mem.total and uptime_seconds are the last. A sample is                  *)
(*     [ts, groups, cpu, mem, proc, thermal, entropy, watch, clock, uptime] *)
(* with `groups` the metric groups it was collected with. Means keep their *)
(* sum and count: rounding is not modelled.                                *)
(***************************************************************************)
EXTENDS Integers, Sequences, FiniteSets, FiniteSetsExt

CONSTANT UINT32_MAX

Groups == {"cpu", "mem", "proc", "thermal", "entropy", "watch", "clock", "uptime"}

larger(a, b) == IF a >= b THEN a ELSE b
smaller(a, b) == IF a <= b THEN a ELSE b
fabs(a) == IF a < 0 THEN -a ELSE a

NoReading == [present |-> FALSE, value |-> 0]
NoClock == [present |-> FALSE, offset |-> 0, synced |-> FALSE]

\* `clock.synced` is true until a sample that read the clock says not.
reset ==
    [n |-> 0, first_ts |-> 0, last_ts |-> 0,
     group_n |-> [g \in Groups |-> 0],
     cpu_sum |-> 0, proc_max |-> 0, file_events_sum |-> 0, watch_present |-> FALSE,
     thermal |-> NoReading,
     entropy |-> [present |-> FALSE, value |-> UINT32_MAX],
     clock |-> [present |-> FALSE, offset |-> 0, synced |-> TRUE],
     mem |-> 0, uptime |-> 0]

\* Whose group count a sample raises.
countedGroups(a, s) == s.groups
\* A thermal maximum is there to compare with.
seenThermal(a) == a.thermal.present
readClock(s) == s.clock.present

add(a, s) ==
    LET has(g) == g \in s.groups
        thermal == IF seenThermal(a) THEN larger(a.thermal.value, s.thermal.value)
                   ELSE s.thermal.value
        offset == IF ~a.clock.present \/ fabs(s.clock.offset) > fabs(a.clock.offset)
                  THEN s.clock.offset ELSE a.clock.offset
    IN  [n |-> a.n + 1,
         first_ts |-> IF a.n = 0 THEN s.ts ELSE a.first_ts,
         last_ts |-> s.ts,
         group_n |-> [g \in Groups |-> a.group_n[g] + (IF g \in countedGroups(a, s) THEN 1 ELSE 0)],
         cpu_sum |-> a.cpu_sum + (IF has("cpu") THEN s.cpu ELSE 0),
         proc_max |-> IF has("proc") THEN larger(a.proc_max, s.proc) ELSE a.proc_max,
         file_events_sum |-> a.file_events_sum + (IF has("watch") THEN s.watch.value ELSE 0),
         watch_present |-> a.watch_present \/ (has("watch") /\ s.watch.present),
         thermal |-> IF has("thermal") /\ s.thermal.present
                     THEN [present |-> TRUE, value |-> thermal] ELSE a.thermal,
         entropy |-> IF has("entropy") /\ s.entropy.present
                     THEN [present |-> TRUE, value |-> smaller(a.entropy.value, s.entropy.value)]
                     ELSE a.entropy,
         clock |-> IF has("clock") /\ readClock(s)
                   THEN [present |-> TRUE, offset |-> offset,
                         synced |-> a.clock.synced /\ s.clock.synced]
                   ELSE a.clock,
         mem |-> IF has("mem") THEN s.mem ELSE a.mem,
         uptime |-> IF has("uptime") THEN s.uptime ELSE a.uptime]

\* The folded record of a window that is not empty; a mean of no samples is 0.
fold(a) ==
    [ts |-> a.last_ts, folded |-> TRUE,
     groups |-> {g \in Groups : a.group_n[g] > 0},
     cpu |-> IF a.group_n["cpu"] > 0 THEN <<a.cpu_sum, a.group_n["cpu"]>> ELSE <<0, 1>>,
     proc |-> a.proc_max,
     thermal |-> IF a.thermal.present THEN a.thermal ELSE NoReading,
     entropy |-> IF a.entropy.present THEN a.entropy ELSE NoReading,
     watch |-> [present |-> a.watch_present, value |-> smaller(a.file_events_sum, UINT32_MAX)],
     clock |-> IF a.clock.present THEN a.clock ELSE NoClock,
     mem |-> a.mem, uptime |-> a.uptime]

-----------------------------------------------------------------------------
(***************************************************************************)
(* Every window of at most MaxWindow samples over a small alphabet: each   *)
(* sample has some of the groups, and what it has may be not present.      *)
(***************************************************************************)

CONSTANT MaxWindow

VARIABLES samples,  \* the window's samples, in the order they came
          agg       \* the aggregator that was given them

Reading(S) == {NoReading} \cup [present : {TRUE}, value : S]
ClockReading == {NoClock} \cup [present : {TRUE}, offset : {-2, 1}, synced : BOOLEAN]

\* A sample that has nothing; then one group at a time with each reading it
\* can have, and all the groups together.
Blank == [ts |-> 0, groups |-> {}, cpu |-> 0, mem |-> 0, proc |-> 0, uptime |-> 0,
          thermal |-> NoReading, entropy |-> NoReading, watch |-> NoReading, clock |-> NoClock]
Alphabet ==
    {Blank}
    \cup {[Blank EXCEPT !.groups = {"cpu", "proc"}, !.cpu = v, !.proc = v] : v \in {1, 3}}
    \cup {[Blank EXCEPT !.groups = {"mem", "uptime"}, !.mem = v, !.uptime = v] : v \in {1, 2}}
    \cup {[Blank EXCEPT !.groups = {"thermal"}, !.thermal = v] : v \in Reading({-1, 4})}
    \cup {[Blank EXCEPT !.groups = {"entropy"}, !.entropy = v] : v \in Reading({0, 2})}
    \cup {[Blank EXCEPT !.groups = {"watch"}, !.watch = v] : v \in Reading({0, 3})}
    \cup {[Blank EXCEPT !.groups = {"clock"}, !.clock = v] : v \in ClockReading}
    \cup {[Blank EXCEPT !.groups = Groups, !.cpu = 2, !.mem = 2, !.proc = 2, !.uptime = 2,
                        !.thermal = v, !.entropy = v, !.clock = w] :
              v \in Reading({2}), w \in ClockReading}

Init == samples = <<>> /\ agg = reset
Next ==
    \/ /\ Len(samples) < MaxWindow
       /\ \E s \in Alphabet :
             LET t == [s EXCEPT !.ts = Len(samples) + 1]
             IN  samples' = Append(samples, t) /\ agg' = add(agg, t)
    \/ /\ samples # <<>>       \* fold() starts a new window
       /\ samples' = <<>> /\ agg' = reset
Spec == Init /\ [][Next]_<<samples, agg>>

\* The samples of the window that have a group, and those with a reading of it.
having(g) == {i \in DOMAIN samples : g \in samples[i].groups}
thermals == {samples[i].thermal.value : i \in {j \in having("thermal") : samples[j].thermal.present}}
entropies == {samples[i].entropy.value : i \in {j \in having("entropy") : samples[j].entropy.present}}
clocks == {samples[i].clock : i \in {j \in having("clock") : samples[j].clock.present}}

\* The folded record's groups, mean and last values come from exactly the
\* samples that have the group (tier_aggregator.h: "its means divide by their
\* number, its last fields are the last of them, and the result has every
\* group some sample had").
GroupsOfWindow ==
    samples # <<>> =>
        LET r == fold(agg)
        IN  /\ r.groups = {g \in Groups : having(g) # {}}
            /\ having("cpu") # {} =>
                 r.cpu = <<MapThenSumSet(LAMBDA i : samples[i].cpu, having("cpu")),
                           Cardinality(having("cpu"))>>
            /\ having("mem") # {} => r.mem = samples[Max(having("mem"))].mem
            /\ r.ts = samples[Len(samples)].ts

\* A spike, a drained pool and a bad clock inside the window stay visible: the
\* extremes are over the readings that were present, a missing one never
\* counting as a zero.
SpikesKept ==
    samples # <<>> =>
        LET r == fold(agg)
        IN  /\ r.thermal = (IF thermals = {} THEN NoReading
                            ELSE [present |-> TRUE, value |-> Max(thermals)])
            /\ r.entropy = (IF entropies = {} THEN NoReading
                            ELSE [present |-> TRUE, value |-> Min(entropies)])
            /\ r.proc = Max({0} \cup {samples[i].proc : i \in having("proc")})
            /\ r.watch.value =
                 Min({UINT32_MAX, MapThenSumSet(LAMBDA i : samples[i].watch.value, having("watch"))})

\* The clock of the window is the worst reading of it: synced only if every
\* sample that read the clock was, the offset the largest in size.
WorstClock ==
    samples # <<>> =>
        LET r == fold(agg).clock
        IN  IF clocks = {} THEN r = NoClock
            ELSE /\ r.present
                 /\ r.synced = \A c \in clocks : c.synced
                 /\ \E c \in clocks : c.offset = r.offset
                 /\ \A c \in clocks : fabs(c.offset) <= fabs(r.offset)
=============================================================================
