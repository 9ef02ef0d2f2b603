------------------------------- MODULE MCHost -------------------------------
(***************************************************************************)
(* What the daemon reads of its host: a tick's collectors and their rates, *)
(* the totals over devices, the UDP counters, the processes, and the       *)
(* watched files. A behaviour is one of the parts on its own; the others   *)
(* rest in an initial state.                                               *)
(***************************************************************************)
EXTENDS Integers, Sequences, FiniteSets, TLC

VARIABLES part,
          w_names, w_kept, inodes, kernel, path_to_id, id_to_paths, pending, pc, todo, evs, overflow, batch,
          tampered, dirty, changes,
          ticks, wall, mono, ctx, c_prev, sample, rates, said, told, gave_up,
          listing, counter, d_ctx, prev_list, out, d_sent, lsent, d_calm, d_reads, d_changes,
          v4, v6, n_ctx, per_sec, n_sent,
          alive, track, procs, used, p_reads, steps

watchvars == <<w_names, w_kept, inodes, kernel, path_to_id, id_to_paths, pending, pc, todo, evs, overflow, batch,
               tampered, dirty, changes>>
tickvars == <<ticks, wall, mono, ctx, c_prev, sample, rates, said, told, gave_up>>
devicevars == <<listing, counter, d_ctx, prev_list, out, d_sent, lsent, d_calm, d_reads, d_changes>>
netvars == <<v4, v6, n_ctx, per_sec, n_sent>>
procvars == <<alive, track, procs, used, p_reads, steps>>
vars == <<part, watchvars, tickvars, devicevars, netvars, procvars>>

-----------------------------------------------------------------------------
\* Two paths, over the two kernels.
Inotify == INSTANCE FileWatcher WITH kept <- w_kept, names <- w_names,
    Paths <- {"passwd", "sudoers"}, Kernel <- "inotify", kQueueMax <- 2, kMaxEvents <- 1,
    MaxInodes <- 3, MaxChanges <- 2
Kqueue == INSTANCE FileWatcher WITH kept <- w_kept, names <- w_names,
    Paths <- {"passwd", "sudoers"}, Kernel <- "kqueue", kQueueMax <- 2, kMaxEvents <- 1,
    MaxInodes <- 3, MaxChanges <- 2

\* A level with the minimal set, one with the disks listed and all of the
\* network's counters, and one with the filesystems.
Collect == INSTANCE CollectTick WITH prev <- c_prev,
    MetricSets <- {[groups |-> {}, detail |-> {}],
                   [groups |-> {"udp"}, detail |-> {"disks"}],
                   [groups |-> {"disk", "fs"}, detail |-> {"cores", "mounts"}]},
    Fallible <- {{"disk"}, {"tcp", "udp", "icmp"}}, Caps <- {"disk_totals", "disks"},
    Steps <- {-4, 0, 3}, Second <- 2, MaxTicks <- 3

\* 32-bit UDP counters of both protocols, both files read at every tick.
Wrap == 8
Wide == FALSE
MayFail == FALSE
MaxDatagrams == 3
MaxTotal == 26

\* A NIC, its virtual function and a container's interface: what goes through
\* the others goes through the NIC too.
Nics == INSTANCE DeviceTotals WITH calm <- d_calm, ctx <- d_ctx, changes <- d_changes, sent <- d_sent, reads <- d_reads,
    Names <- {"eth0", "vf0", "veth0"}, Net <- TRUE, Noise <- {},
    IsDevice <- ("eth0" :> TRUE @@ "vf0" :> TRUE @@ "veth0" :> FALSE),
    Master <- ("eth0" :> "none" @@ "vf0" :> "eth0" @@ "veth0" :> "none"),
    Routes <- {{"eth0"}, {"eth0", "vf0"}, {"eth0", "veth0"}},
    MAX_COUNTED <- 3, MAX_ENTITIES <- 2, MaxSent <- 1, MaxChanges <- 2, MaxReads <- 3

\* Two NICs under a bond, which is none.
Bond == INSTANCE DeviceTotals WITH calm <- d_calm, ctx <- d_ctx, changes <- d_changes, sent <- d_sent, reads <- d_reads,
    Names <- {"eth0", "eth1", "bond0"}, Net <- TRUE, Noise <- {},
    IsDevice <- ("eth0" :> TRUE @@ "eth1" :> TRUE @@ "bond0" :> FALSE),
    Master <- ("eth0" :> "bond0" @@ "eth1" :> "bond0" @@ "bond0" :> "none"),
    Routes <- {{"eth0", "bond0"}, {"eth1", "bond0"}},
    MAX_COUNTED <- 3, MAX_ENTITIES <- 2, MaxSent <- 1, MaxChanges <- 1, MaxReads <- 3

\* Two disks and a volume on them.
Disks == INSTANCE DeviceTotals WITH calm <- d_calm, ctx <- d_ctx, changes <- d_changes, sent <- d_sent, reads <- d_reads,
    Names <- {"sda", "sdb", "dm-0"}, Net <- FALSE, Noise <- {"dm-0"},
    IsDevice <- [d \in {"sda", "sdb", "dm-0"} |-> TRUE],
    Master <- [d \in {"sda", "sdb", "dm-0"} |-> "none"],
    Routes <- {{"sda"}, {"sdb"}, {"sda", "dm-0"}},
    MAX_COUNTED <- 2, MAX_ENTITIES <- 2, MaxSent <- 1, MaxChanges <- 1, MaxReads <- 3

Procs == INSTANCE ProcTracker WITH reads <- p_reads,
    Pids <- {1, 2, 3}, MaxCpu <- 1, Sizes <- {1, 2}, BUDYK_TOP_EACH <- 1, BUDYK_MAX_TRACKED_PROCS <- 2,
    MaxSteps <- 4

ASSUME HostInstances ==
    /\ Inotify!WatcherAssumption /\ Kqueue!WatcherAssumption /\ Collect!TickAssumption
    /\ Nics!TotalsAssumption /\ Bond!TotalsAssumption /\ Disks!TotalsAssumption
    /\ Procs!ProcAssumption

Init ==
    /\ part \in {"inotify", "kqueue", "collect", "nics", "bond", "disks", "udp", "procs"}
    /\ IF part = "kqueue" THEN Kqueue!Init ELSE Inotify!Init
    /\ part \notin {"inotify", "kqueue"} => \A w \in DOMAIN w_names : w_names[w] = 0
    /\ Collect!Init
    /\ CASE part = "bond" -> Bond!Init [] part = "disks" -> Disks!Init [] OTHER -> Nics!Init
    /\ part = "nics" => listing \in {<<"eth0", "vf0", "veth0">>, <<"veth0", "vf0", "eth0">>}
    /\ part \notin {"nics", "bond", "disks"} => listing = <<"eth0", "vf0", "veth0">>
    /\ Nics!NetInit
    /\ part # "udp" => v4 = 0 /\ v6 = 0
    /\ Procs!Init
    /\ alive[1].cpu = 0 /\ alive[2].cpu = 0
    /\ part # "procs" => \A w \in DOMAIN alive : alive[w].cpu = 0 /\ alive[w].rss = 1

Next ==
    \/ part = "inotify" /\ Inotify!Next /\ UNCHANGED <<part, tickvars, devicevars, netvars, procvars>>
    \/ part = "kqueue" /\ Kqueue!Next /\ UNCHANGED <<part, tickvars, devicevars, netvars, procvars>>
    \/ part = "collect" /\ Collect!Next /\ UNCHANGED <<part, watchvars, devicevars, netvars, procvars>>
    \/ part = "nics" /\ Nics!Next /\ UNCHANGED <<part, watchvars, tickvars, netvars, procvars>>
    \/ part = "bond" /\ Bond!Next /\ UNCHANGED <<part, watchvars, tickvars, netvars, procvars>>
    \/ part = "disks" /\ Disks!Next /\ UNCHANGED <<part, watchvars, tickvars, netvars, procvars>>
    \/ part = "udp" /\ Nics!NetNext /\ UNCHANGED <<part, watchvars, tickvars, devicevars, procvars>>
    \/ part = "procs" /\ Procs!Next /\ UNCHANGED <<part, watchvars, tickvars, devicevars, netvars>>

\* The watcher's fairness: the paths are added before the loop, every tick
\* polls, and poll(2) does not fail for ever.
Rest == UNCHANGED <<part, tickvars, devicevars, netvars, procvars>>
Spec ==
    /\ Init /\ [][Next]_vars
    /\ WF_vars(part = "inotify" /\ Inotify!PollStep /\ Rest)
    /\ WF_vars(part = "inotify" /\ (\E w \in DOMAIN w_names : Inotify!add(w)) /\ Rest)
    /\ SF_vars(part = "inotify" /\ Inotify!RetryDone /\ Rest)

-----------------------------------------------------------------------------
\* FileWatcher: between two polls every change was reported and every watch is
\* on the file its path names, over inotify and over kqueue.
NoneMissed == IF part = "kqueue" THEN Kqueue!NoneMissed ELSE Inotify!NoneMissed

\* FileWatcher: no kernel watch and no descriptor outlives its last path.
NoLeak == IF part = "kqueue" THEN Kqueue!NoLeak ELSE Inotify!NoLeak

\* FileWatcher: every change of a watched path is reported at last.
Reported == part = "inotify" => Inotify!Reported

\* CollectTick: a rate a sample holds is the change since the tick before, over
\* the time that passed.
RateOfOneTick == Collect!RateOfOneTick

\* CollectTick: a rate read at two ticks in a row is in the second sample.
NothingLeftOut == Collect!NothingLeftOut

\* CollectTick: devices past what a list or a total holds are logged when they
\* start to be, and not again until all were found.
CutLoggedOnce == Collect!CutLoggedOnce

\* CollectTick: a source that fails is logged when it starts failing, not on
\* every tick (collect.cpp's comment).
FailureLoggedOnce == Collect!FailureLoggedOnce

\* DeviceTotals: a transfer is counted once at most, whatever devices it went
\* through and whatever came, went or restarted.
NeverMore == Nics!NeverMore

\* DeviceTotals: a device's rate is no more than what went through it.
ListRight == Nics!ListRight

\* DeviceTotals: with the devices as they were, in any order, every transfer is
\* counted.
AllCounted == Nics!AllCounted

\* DeviceTotals: a UDP rate is never of more datagrams than came, though the counters
\* wrap, together or one at a time.
RateNeverMore == Nics!RateNeverMore

\* DeviceTotals: a UDP interval over the wrap of the only counter in use is counted
\* whole.
WrapCounted == Nics!WrapCounted

\* ProcTracker: a process that took over a pid has not the CPU time of the one
\* before it.
CpuIsOwn == Procs!CpuIsOwn

\* ProcTracker: the list holds the largest by memory and by CPU.
TopComplete == Procs!TopComplete

-----------------------------------------------------------------------------
\* FileWatcher: no change is missed, each is reported at last and no watch leaks.
WatcherRight ==
    /\ [](NoneMissed /\ NoLeak /\ (IF part = "kqueue" THEN Kqueue!TypeOK ELSE Inotify!TypeOK))
    /\ Reported

\* CollectTick: a sample's rates are those of one tick, none is left out, and a
\* list cut short is logged once.
TickRight == [](RateOfOneTick /\ Collect!TypeOK) /\ NothingLeftOut /\ CutLoggedOnce

\* DeviceTotals and ProcTracker: bytes, datagrams and CPU time are
\* counted once, for whom they belong to, over wraps, restarts and reused names.
CountsRight ==
    /\ NeverMore /\ ListRight /\ AllCounted
    /\ RateNeverMore /\ WrapCounted
    /\ CpuIsOwn /\ TopComplete
=============================================================================
