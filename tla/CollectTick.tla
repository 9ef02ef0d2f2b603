---------------------------- MODULE CollectTick -----------------------------
(***************************************************************************)
(* daemon/collect.cpp: one call of collect_one() per tick, with the        *)
(* metrics the level asks for. What a collector reads is not modelled, but *)
(* when: a rate is a change since the collector's previous read, over the  *)
(* wall clock's interval, and a sample holds it only if that is the tick   *)
(* before and the clock did not step.                                      *)
(***************************************************************************)
EXTENDS Integers, Sequences, FiniteSets

CONSTANTS MetricSets,    \* the [groups, detail] of the levels
          Fallible,      \* collectors that may fail
          Caps,          \* lists and totals there may be too many devices for
          Steps,         \* what the wall clock may gain on the monotonic one
          Second,        \* 1000000000 ns, in the model's unit
          MaxTicks

TickAssumption ==
    /\ MaxTicks \in Nat /\ Second \in Nat /\ Steps \subseteq Int
    /\ \A s \in MetricSets : DOMAIN s = {"groups", "detail"}

kNetstat == {"tcp", "udp", "icmp"}
kGroupsMinimal == {"cpu", "mem", "swap", "load", "uptime"}
kRateGroups == {"cpu", "disk", "net"} \cup kNetstat
kDetailAll == {"cores", "disks", "interfaces", "mounts", "processes"}
kRateLists == {"cores", "disks", "interfaces", "processes"}

\* Each collector by the groups it reads, in the order of the calls, and the
\* list that comes with it.
Collectors == <<{"cpu"}, {"mem", "swap"}, {"uptime"}, {"load"}, {"disk"}, {"net"}, {"proc"},
                {"entropy"}, {"self"}, {"thermal"}, kNetstat, {"fs"}, {"clock"}>>
GroupOf(list) ==
    CASE list = "cores" -> "cpu" [] list = "disks" -> "disk" [] list = "interfaces" -> "net"
      [] list = "mounts" -> "fs" [] list = "processes" -> "proc"

VARIABLES ticks,
          wall, mono,     \* the clocks at the last tick
          ctx,            \* CollectContext
          prev,           \* for each rate, the tick and clocks of its collector's last read
          sample,         \* the groups and lists of the last sample, and the baselines
          rates,          \* its rates: the read they start from, and their interval
          said,           \* what the last call logged
          told, gave_up   \* capped devices and failed collectors logged and not over since

vars == <<ticks, wall, mono, ctx, prev, sample, rates, said, told, gave_up>>

Never == [tick |-> 0, wall |-> 0, mono |-> 0]
Nothing == [groups |-> {}, lists |-> {}, baseline |-> {}, list_baseline |-> {}]

Init ==
    /\ ticks = 0 /\ wall = 10 * Second /\ mono = Second
    /\ ctx = [last_groups |-> {}, last_detail |-> {}, failed |-> {}, cut |-> {}, unreadable |-> FALSE,
              last_wall |-> 0, last_mono |-> 0]
    /\ prev = [r \in kRateGroups \cup kRateLists |-> Never]
    /\ sample = Nothing /\ rates = <<>>
    /\ said = {} /\ told = {} /\ gave_up = {}

\* The groups a set asks for: a list brings its group, and tcp, udp and icmp
\* come from one read.
want(set) ==
    LET w == set.groups \cup kGroupsMinimal \cup {GroupOf(l) : l \in set.detail \cap kDetailAll}
    IN  IF w \cap kNetstat # {} THEN w \cup kNetstat ELSE w

Ran(set) == {c \in {Collectors[i] : i \in DOMAIN Collectors} : c \cap want(set) # {}}

\* The lists that go with a group that failed.
failed_lists(failed) == {l \in kDetailAll : GroupOf(l) \in failed}

\* A collector's read of a rate: since the read before, over the wall clock.
Rate(r, w) == [from |-> prev[r], over |-> IF prev[r] # Never /\ w > prev[r].wall THEN w - prev[r].wall ELSE 0]

\* What is checked for a list or a total cut short: all that was read.
checked(set, failed) ==
    {"disk_totals" : x \in {"disk"} \cap (want(set) \ failed)}
    \cup {"net_totals" : x \in {"net"} \cap (want(set) \ failed)}
    \cup {l \in set.detail : GroupOf(l) \notin failed}

\* Whether the two clocks disagree about the interval by more than a second.
stepped(w, m) ==
    LET mono_dt == m - ctx.last_mono
        wall_dt == IF w > ctx.last_wall THEN w - ctx.last_wall ELSE 0
        off == IF mono_dt > wall_dt THEN mono_dt - wall_dt ELSE wall_dt - mono_dt
    IN  /\ m # 0 /\ ctx.last_wall # 0 /\ ctx.last_mono # 0 /\ m > ctx.last_mono
        /\ wall_dt = 0 \/ off > Second

\* What the sample has of what was read: not the rates read for the first time
\* in a row, nor any across a step of the clock.
have(read, w, m) ==
    read \ (kRateGroups \ (IF stepped(w, m) THEN {} ELSE ctx.last_groups))
have_lists(read, w, m) ==
    read \ (kRateLists \ (IF stepped(w, m) THEN {} ELSE ctx.last_detail))

\* Faulty form: what was asked for is remembered as read.
Remember_Wanted(set, failed, w, m) ==
    [groups |-> want(set), lists |-> set.detail]

Remember(set, failed, w, m) ==
    [groups |-> want(set) \ failed, lists |-> set.detail \ failed_lists(failed)]
still_cut(set, failed, over) == (ctx.cut \ checked(set, failed)) \cup over

\* A collector that fails may have taken its counters first (`late`).
collect_one(set, fails, late, over, unreadable, w, m) ==
    LET failed == UNION fails
        read == want(set) \ failed
        read_lists == set.detail \ failed_lists(failed)
        h == have(read, w, m)
        hl == have_lists(read_lists, w, m)
        taken == read \cup read_lists \cup UNION late
                 \cup {l \in set.detail : GroupOf(l) \in UNION late}
        new == Remember(set, failed, w, m)
    IN  /\ prev' = [r \in DOMAIN prev |-> IF r \in taken THEN [tick |-> ticks + 1, wall |-> w, mono |-> m]
                                          ELSE prev[r]]
        /\ sample' = [groups |-> h, lists |-> hl, baseline |-> read \ h, list_baseline |-> read_lists \ hl]
        /\ rates' = [r \in (h \cap kRateGroups) \cup (hl \cap kRateLists) |-> Rate(r, w)]
        /\ said' = {c \in fails : ctx.failed \cap c = {}} \cup {{b} : b \in over \ ctx.cut}
                   \cup (IF "fs" \in read /\ unreadable # ctx.unreadable THEN {{"unreadable"}} ELSE {})
        /\ ctx' = [last_groups |-> new.groups, last_detail |-> new.lists, failed |-> failed,
                   cut |-> still_cut(set, failed, over),
                   unreadable |-> IF "fs" \in read THEN unreadable ELSE ctx.unreadable,
                   last_wall |-> w, last_mono |-> m]
        /\ told' = (told \ checked(set, failed)) \cup over
        /\ gave_up' = (gave_up \ (Ran(set) \ fails)) \cup fails

Tick ==
    /\ ticks < MaxTicks
    /\ ticks' = ticks + 1
    /\ mono' = mono + 2 * Second
    /\ \E s \in Steps : wall' = wall + 2 * Second + s
    /\ \E set \in MetricSets :
       \E fails \in SUBSET (Fallible \cap Ran(set)) :
       \E late \in SUBSET fails, over \in SUBSET (Caps \cap checked(set, UNION fails)),
          unreadable \in IF "fs" \in want(set) THEN BOOLEAN ELSE {FALSE} :
           collect_one(set, fails, late, over, unreadable, wall', mono')

Stop == ticks = MaxTicks /\ UNCHANGED vars

Next == Tick \/ Stop
Spec == Init /\ [][Next]_vars

-----------------------------------------------------------------------------
\* A sample's rates are of what it holds, and nothing is both held and a
\* baseline.
TypeOK ==
    /\ ticks \in 0 .. MaxTicks
    /\ DOMAIN rates = (sample.groups \cap kRateGroups) \cup (sample.lists \cap kRateLists)
    /\ sample.groups \cap sample.baseline = {} /\ sample.lists \cap sample.list_baseline = {}

\* A rate a sample holds is the change since the tick before, never over a
\* failed or skipped read, and its interval is the time that passed to a
\* second, whatever the clock did.
RateOfOneTick ==
    \A r \in DOMAIN rates :
        /\ rates[r].from.tick = ticks - 1 /\ ticks > 1
        /\ rates[r].over > 0
        /\ LET dt == mono - rates[r].from.mono
           IN  rates[r].over - dt \in -Second .. Second

\* Nothing that was read well is left out: a rate read at two ticks in a row
\* with the clocks in step is in the second sample, and its first read is
\* named a baseline.
NothingLeftOut ==
    [][LET calm(r) == /\ prev[r].tick = ticks /\ prev'[r].tick = ticks' /\ ticks > 0
                      /\ wall' - wall = mono' - mono
           well == sample'.groups \cup sample'.baseline \cup sample'.lists \cup sample'.list_baseline
           before == sample.groups \cup sample.baseline \cup sample.lists \cup sample.list_baseline
       IN  ticks' # ticks =>
             \A r \in DOMAIN prev : r \in well \cap before /\ calm(r) => r \in DOMAIN rates']_vars

\* More devices than a list or a total holds are logged when it starts: not
\* again until a check found them all, whatever the levels in between read.
CutLoggedOnce == [][\A b \in told : {b} \notin said' \/ ticks' = ticks]_vars

\* collect.cpp: "Logged when it starts failing, with the reason, not on every
\* tick"; the message: "left out until it reads again".
FailureLoggedOnce == [][\A c \in gave_up : c \notin said' \/ ticks' = ticks]_vars
=============================================================================
