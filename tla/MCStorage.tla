------------------------------ MODULE MCStorage -----------------------------
(***************************************************************************)
(* The storage: the rings after a power loss, the tiers over them, their   *)
(* folds, queries and records, the conversion of an older ring, and the    *)
(* processes on a data directory. A behaviour is one of the parts on its   *)
(* own; the others rest in an initial state.                               *)
(***************************************************************************)
EXTENDS RecordCodec, DataDir, FiniteSetsExt

CONSTANTS Torn, Gone, d1, d2, r1, c1

VARIABLES part,
          hdr, slots, dhdr, dslots, rf_pc, widx, begun, r_rec, rf_clock, backs, losses,
          ready, open, t_ring, t_fold, t_rc, clock, stepped, t_n, fails, starts, fed, written, lost,
          samples, agg, records,
          c_pc, c_old, live, c_disk, c_at, dropped, rc_starts, converted

ringvars == <<hdr, slots, dhdr, dslots, rf_pc, widx, begun, r_rec, rf_clock, backs, losses>>
tiervars == <<ready, open, t_ring, t_fold, t_rc, clock, stepped, t_n, fails, starts, fed, written, lost>>
foldvars == <<samples, agg>>
convertvars == <<c_pc, c_old, live, c_disk, c_at, dropped, rc_starts, converted>>
vars == <<part, ringvars, tiervars, foldvars, records, in, convertvars, dirvars>>

-----------------------------------------------------------------------------
\* A power loss and a clock step back.
Power == INSTANCE RingFile WITH rec <- r_rec,
    pc <- rf_pc, clock <- rf_clock, Cap <- 2, MaxTime <- 4, MaxBack <- 1, MaxLoss <- 1

Cap == [tier1 |-> 1, level |-> 2, tier2 |-> 2, tier3 |-> 3]

\* A clock that steps both ways, a failing write, a restart.
Tiers == INSTANCE TierStore WITH fold <- t_fold, ring <- t_ring, rc <- t_rc, n <- t_n,
    fold_l2_ns <- 3, fold_l1_ns <- 6, Steps <- {-4, 2}, MaxSamples <- 4, MaxFail <- 1, MaxStart <- 2, MaxTime <- 12

\* A clock that goes forward, and what queries then say of the past.
History == INSTANCE TierStore WITH fold <- t_fold, ring <- t_ring, rc <- t_rc, n <- t_n,
    fold_l2_ns <- 3, fold_l1_ns <- 6, Steps <- {1, 2}, MaxSamples <- 5, MaxFail <- 0, MaxStart <- 1, MaxTime <- 12

Folds == INSTANCE TierAggregator WITH UINT32_MAX <- 5, MaxWindow <- 3

\* Rings of an older format of at most MaxRecs records; an unindexed one is
\* one count_unindexed() could read.
MaxRecs == 4
OlderRings ==
    {o \in {[recs |-> r, unidx |-> u] : r \in UNION {[1 .. i -> {Torn, "a", "b"}] : i \in 0 .. MaxRecs}, u \in {0, 1}} :
        o.unidx = 1 => o.recs # <<>> /\ o.recs[Len(o.recs)] # Torn}
Convert == INSTANCE RingConvert WITH NoFile <- Gone, pc <- c_pc, at <- c_at, disk <- c_disk, old <- c_old, starts <- rc_starts, OldRecords <- OlderRings, OldCap <- 3, capacity <- 2, MaxStarts <- 2

\* Two daemons and a repair on a directory whose second ring is sound; a daemon
\* and a repair, or a check, on two rings.
MCRings == <<"tier1.ring", "tier2.ring">>
Sound == [kind |-> "ok", idx |-> 0, top |-> 0]
Crew == CASE part = "dirs" -> {d1, d2, r1} [] part = "repair" -> {d1, r1}
          [] part = "check" -> {d1, c1} [] OTHER -> {}
FirstFiles ==
    CASE part = "dirs" -> file["tier1.ring"].kind \in {"ok", "older", "newer"} /\ file["tier2.ring"] = Sound
      [] part = "repair" -> file["tier2.ring"].kind \in {"ok", "unreachable", "damaged"}
      [] part = "check" -> \A f \in Files : file[f].kind \in {"ok", "unreachable", "damaged", "missing"}
      [] OTHER -> \A f \in Files : file[f] = Sound

-----------------------------------------------------------------------------
(* For the searches of TierStore: every ring of at most MaxRecords records *)
(* in time order, any of them torn.                                        *)

MaxRecords == 5
MaxTs == 6
Readable == {j \in DOMAIN records : records[j] # Torn}
newest == Max({0} \cup {records[j].ts : j \in Readable})

Appends ==
    /\ Len(records) < MaxRecords
    /\ \/ records' = Append(records, Torn)
       \/ \E t \in newest + 1 .. MaxTs : records' = Append(records, [ts |-> t, folded |-> FALSE])

-----------------------------------------------------------------------------
ASSUME StorageInstances == CodecAssumption /\ DirAssumption

Init ==
    /\ part \in {"power", "tiers", "history", "folds", "query", "codec", "convert", "dirs", "repair", "check"}
    /\ Power!Init /\ Tiers!Init /\ Folds!Init /\ CodecInit /\ records = <<>>
    /\ Convert!Init
    /\ part # "convert" => c_old.recs = <<>> /\ live.path.fmt = "old"
    /\ DirInit /\ FirstFiles
    /\ runs = [p \in Procs |-> IF p \in Crew THEN MaxRuns ELSE 0]

Next ==
    \/ part = "power" /\ Power!Next /\ UNCHANGED <<part, tiervars, foldvars, records, in, convertvars, dirvars>>
    \/ part = "tiers" /\ Tiers!Next /\ UNCHANGED <<part, ringvars, foldvars, records, in, convertvars, dirvars>>
    \/ part = "history" /\ History!Next /\ UNCHANGED <<part, ringvars, foldvars, records, in, convertvars, dirvars>>
    \/ part = "folds" /\ Folds!Next /\ UNCHANGED <<part, ringvars, tiervars, records, in, convertvars, dirvars>>
    \/ part = "query" /\ Appends /\ UNCHANGED <<part, ringvars, tiervars, foldvars, in, convertvars, dirvars>>
    \/ part = "codec" /\ CodecNext /\ UNCHANGED <<part, ringvars, tiervars, foldvars, records, convertvars, dirvars>>
    \/ part = "convert" /\ Convert!Next /\ UNCHANGED <<part, ringvars, tiervars, foldvars, records, in, dirvars>>
    \/ part \in {"dirs", "repair", "check"} /\ DirNext
          /\ UNCHANGED <<part, ringvars, tiervars, foldvars, records, in, convertvars>>

Spec == Init /\ [][Next]_vars

-----------------------------------------------------------------------------
\* RingFile: a start that follows no crash counts nothing in, even when an
\* earlier power loss left older records under the index.
CleanRestartIsNoop == part = "power" => Power!CleanRestartIsNoop

\* RingFile: whatever a power loss and a clock step have left in the slots, a
\* second start right after a start finds nothing more to count in.
RecoverySettles == Power!RecoverySettles

\* TierStore: a folded record is never appended after a newer one, whichever
\* level collects and whatever failed or died, while the clock only advances.
TimeOrder == part = "tiers" => Tiers!TimeOrder

\* TierStore: every sample finer than a window's ring is in the open window,
\* in one folded record, or lost with a refused record or a process: in one.
FoldedOnce == part = "tiers" => Tiers!FoldedOnce

\* TierStore: a folded record speaks for less than a window of time, a clock
\* that steps back included.
WindowBounded == part = "tiers" => Tiers!WindowBounded

\* TierStore: a store() that wrote less than it was to returns an error.
RefusalTold == Tiers!RefusalTold

\* TierStore: no sample is in the history query_all() returns
\* and also behind a folded record of it.
ShownOnce == part = "history" => History!ShownOnce

\* TierStore: leaving folded records out opens no gap.
NoGap == part = "history" => History!NoGap

\* TierStore: a limit keeps the history covered end to end.
ThinnedEvenly == part = "history" => History!ThinnedEvenly

\* TierAggregator: groups, means and last values of a fold come from exactly
\* the samples that have the group.
GroupsOfWindow == part = "folds" => Folds!GroupsOfWindow

\* TierAggregator: extremes are over the readings present, a missing one never
\* counting as a zero, and a sum saturates.
SpikesKept == part = "folds" => Folds!SpikesKept

\* TierAggregator: the clock of a window is the worst reading of it.
WorstClock == part = "folds" => Folds!WorstClock

\* TierStore: the binary search finds what a scan would: the first index from
\* which no record that decodes is older than ts, wherever records are torn.
LowerBoundRight ==
    part = "query" => \A ts \in 1 .. MaxTs + 1 :
        Tiers!lower_bound(records, ts) =
            Min({k \in 1 .. Tiers!end(records) : \A j \in Readable : j >= k => records[j].ts >= ts})

\* TierStore: any_in() misses no record of a fold window and invents none.
AnyInRight ==
    part = "query" => \A lo, hi \in 0 .. MaxTs :
        Tiers!any_in(records, lo, hi) = \E j \in Readable : lo < records[j].ts /\ records[j].ts <= hi

InWindow(since, until) ==
    {j \in Readable : records[j].ts >= since /\ (until = 0 \/ records[j].ts <= until)}

\* TierStore: a limited read of a ring stays in the window, in order and within
\* the limit, and with no record torn it has the window's both ends (the newest
\* alone when the limit is one) and no two of its records are further apart
\* than an even spread puts them.
SpreadRight ==
    part = "query" => \A since \in 1 .. MaxTs, until \in 0 .. MaxTs, max \in 1 .. MaxRecords :
        LET got == Tiers!query_ring_spread(records, since, until, max)
            window == InWindow(since, until)
            place(i) == CHOOSE j \in window : records[j].ts = got[i].ts
        IN  /\ Len(got) <= max
            /\ Tiers!timestamps(got) \subseteq {records[j].ts : j \in window}
            /\ \A i \in 1 .. Len(got) - 1 : got[i].ts < got[i + 1].ts
            /\ Readable = DOMAIN records /\ window # {} =>
                 /\ got[Len(got)].ts = records[Max(window)].ts
                 /\ max > 1 => got[1].ts = records[Min(window)].ts
                 /\ Len(got) = Min({max, Cardinality(window)})
                 /\ \A i \in 1 .. Len(got) - 1 :
                       (place(i + 1) - place(i) - 1) * (Len(got) - 1) < Cardinality(window) - 1

\* RingConvert: whenever the process is killed or the power cut, the ring's
\* name leads to the whole old ring or to the whole new one.
HistoryKept == part = "convert" => Convert!HistoryKept

\* RingConvert: each record the old ring still had was kept or dropped, the
\* ones a crash left unindexed among them.
CountsAddUp == part = "convert" => Convert!CountsAddUp

-----------------------------------------------------------------------------
\* RingFile: whatever a power loss and a clock step left, a start that follows
\* no crash counts nothing in, nor does a second one right after a start.
RestartSettles ==
    [](CleanRestartIsNoop /\ (part = "power" => Power!TypeOK)) /\ RecoverySettles

\* TierStore: store() folds every sample once, into records that follow one
\* another in time and speak for less than a window, and tells what it refused;
\* a start that failed leaves no ring open.
TiersRight ==
    /\ [](TimeOrder /\ FoldedOnce /\ WindowBounded /\ (part = "tiers" => Tiers!TypeOK))
    /\ RefusalTold

\* TierStore: a query shows each stretch of the history once and without a gap,
\* thinned evenly, from searches that find what a scan of the ring would.
HistoryRight ==
    /\ ShownOnce /\ NoGap /\ ThinnedEvenly
    /\ LowerBoundRight /\ AnyInRight /\ SpreadRight

\* TierAggregator and RecordCodec: a folded record holds the groups, extremes
\* and clock of its samples, and what a record holds is read back, one of any
\* older version and a damaged one too.
RecordsRight ==
    /\ GroupsOfWindow /\ SpikesKept /\ WorstClock
    /\ RoundTrip /\ OldRecords /\ DamageSeen

\* RingConvert: a conversion that is killed or loses power leaves the old ring
\* or the new one, whole, and its counts add up.
ConversionSafe == HistoryKept /\ CountsAddUp /\ (part = "convert" => Convert!TypeOK)
=============================================================================
