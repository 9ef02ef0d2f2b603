----------------------------- MODULE ProcTracker ----------------------------
(***************************************************************************)
(* collector/detail.c: the top processes by CPU and by memory. A process's *)
(* CPU is its change since the previous read, looked up by pid in that     *)
(* read, which is kept sorted; a pid may be another process by then. A     *)
(* read takes the processes in any order (/proc, kern.proc.proc).          *)
(***************************************************************************)
EXTENDS Integers, Sequences, FiniteSets, SequencesExt

CONSTANTS Pids, MaxCpu, Sizes,
          BUDYK_TOP_EACH, BUDYK_MAX_TRACKED_PROCS,
          MaxSteps

ProcAssumption ==
    /\ Pids \subseteq Nat /\ MaxCpu \in Nat
    /\ BUDYK_TOP_EACH \in Nat \ {0} /\ BUDYK_MAX_TRACKED_PROCS \in Nat

VARIABLES alive,   \* the processes, by pid: start, cpu and rss
          track,   \* the last read's, BUDYK_MAX_TRACKED_PROCS of them, by pid
          procs,   \* the list of the last read
          used,    \* CPU each process used since the read before
          reads, steps

vars == <<alive, track, procs, used, reads, steps>>

Init ==
    /\ alive \in [Pids -> [start : {0}, cpu : {0, MaxCpu}, rss : Sizes]]
    /\ track = <<>> /\ procs = <<>>
    /\ used = [p \in Pids |-> 0]
    /\ reads = 0 /\ steps = 0

Step == steps < MaxSteps /\ steps' = steps + 1

Runs ==
    /\ Step
    /\ \E p \in Pids :
          /\ alive[p].cpu < MaxCpu + 2
          /\ alive' = [alive EXCEPT ![p].cpu = @ + 1]
          /\ used' = [used EXCEPT ![p] = @ + 1]
    /\ UNCHANGED <<track, procs, reads>>

\* A process ends and its pid is given to a new one, which has run a while.
Replaced ==
    /\ Step
    /\ \E p \in Pids, c \in {0, MaxCpu + 1}, r \in Sizes :
          /\ alive' = [alive EXCEPT ![p] = [start |-> @.start + 1, cpu |-> c, rss |-> r]]
          /\ used' = [used EXCEPT ![p] = c]
    /\ UNCHANGED <<track, procs, reads>>

-----------------------------------------------------------------------------
\* The first place from lo to hi whose pid is not below `pid`.
LowerBound(v, pid) ==
    LET at[r \in (1 .. Len(v) + 1) \X (1 .. Len(v) + 1)] ==
            LET lo == r[1]
                hi == r[2]
                mid == lo + ((hi - lo) \div 2)
            IN  IF lo >= hi THEN lo
                ELSE IF v[mid].pid < pid THEN at[<<mid + 1, hi>>]
                ELSE at[<<lo, mid>>]
    IN  at[<<1, Len(v) + 1>>]

find_proc(v, pid, start) ==
    LET lo == LowerBound(v, pid)
    IN  IF lo <= Len(v) /\ v[lo].pid = pid /\ v[lo].start = start THEN <<v[lo]>> ELSE <<>>

\* p in `top`, the largest first, if it is among the BUDYK_TOP_EACH largest.

offer(top, p, key) ==
    LET at == 1 + Cardinality({i \in DOMAIN top : top[i][key] >= p[key]})
        all == InsertAt(top, at, p)
    IN  IF at > BUDYK_TOP_EACH THEN top
        ELSE SubSeq(all, 1, IF Len(all) < BUDYK_TOP_EACH THEN Len(all) ELSE BUDYK_TOP_EACH)

budyk_procs_add(d, pid) ==
    LET r == alive[pid]
        prev == find_proc(track, pid, r.start)
        cpu == IF prev # <<>> /\ r.cpu > prev[1].cpu THEN r.cpu - prev[1].cpu ELSE 0
        p == [pid |-> pid, cpu |-> cpu, rss |-> r.rss]
    IN  [next |-> IF Len(d.next) < BUDYK_MAX_TRACKED_PROCS
                  THEN Append(d.next, [pid |-> pid, start |-> r.start, cpu |-> r.cpu]) ELSE d.next,
         top_cpu |-> IF cpu > 0 THEN offer(d.top_cpu, p, "cpu") ELSE d.top_cpu,
         top_rss |-> offer(d.top_rss, p, "rss")]

\* The read becomes the previous one, by pid.
Sorted(next) == SortSeq(next, LAMBDA a, b : a.pid < b.pid)

\* The list: the top by CPU and by RSS, each process once, by CPU, RSS, pid.
union(d) ==
    LET more == SelectSeq(d.top_rss, LAMBDA p : \A i \in DOMAIN d.top_cpu : d.top_cpu[i].pid # p.pid)
    IN  SortSeq(d.top_cpu \o more,
                LAMBDA a, b : \/ a.cpu > b.cpu
                              \/ a.cpu = b.cpu /\ a.rss > b.rss
                              \/ a.cpu = b.cpu /\ a.rss = b.rss /\ a.pid < b.pid)

Read ==
    /\ Step
    /\ \E order \in SetToSeqs(Pids) :
          LET d == FoldLeft(budyk_procs_add, [next |-> <<>>, top_cpu |-> <<>>, top_rss |-> <<>>], order)
          IN  track' = Sorted(d.next) /\ procs' = union(d)
    /\ used' = [p \in Pids |-> 0]
    /\ reads' = reads + 1
    /\ UNCHANGED alive

Done == steps = MaxSteps /\ UNCHANGED vars

Next == Runs \/ Replaced \/ Read \/ Done
Spec == Init /\ [][Next]_vars

-----------------------------------------------------------------------------
IsRead == reads' # reads

\* A process's CPU is its own: one that took over a pid has not the time of
\* the one before it, and all of what a process used since the last read is
\* there if that read kept it, in whatever order the reads were listed.
CpuIsOwn ==
    [][IsRead =>
         \A i \in DOMAIN procs' :
            LET p == procs'[i].pid
                kept == \E j \in DOMAIN track : track[j].pid = p /\ track[j].start = alive[p].start
            IN  procs'[i].cpu = IF kept THEN used[p] ELSE 0]_vars

\* The list holds the largest: of the processes left out, none uses more
\* memory than BUDYK_TOP_EACH of the listed, nor more CPU, and none is twice.
TopComplete ==
    [][IsRead =>
         LET listed == {procs'[i].pid : i \in DOMAIN procs'}
             cpu(p) == IF \E j \in DOMAIN track : track[j].pid = p /\ track[j].start = alive[p].start
                       THEN used[p] ELSE 0
         IN  /\ Cardinality(listed) = Len(procs')
             /\ Len(procs') <= 2 * BUDYK_TOP_EACH
             /\ \A p \in Pids \ listed :
                   /\ Cardinality({q \in listed : alive[q].rss >= alive[p].rss}) >= BUDYK_TOP_EACH
                   /\ cpu(p) > 0 => Cardinality({q \in listed : cpu(q) >= cpu(p)}) >= BUDYK_TOP_EACH]_vars
=============================================================================
