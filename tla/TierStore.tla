----------------------------- MODULE TierStore ------------------------------
(***************************************************************************)
(* TierManager: samples routed to one ring per level, and folded into      *)
(* tier2 and tier3 one record per window. A ring is the newest Cap[r]      *)
(* records appended to it (what RingFile implements; BoundedLog). The disk *)
(* may refuse any append, the process may die and start again, and the     *)
(* wall clock that stamps the samples may step back.                       *)
(*                                                                         *)
(* A record carries `of`, the samples it stands for, by the order in which *)
(* they were collected: the code has no such field.                        *)
(***************************************************************************)
EXTENDS Integers, Sequences, FiniteSets, FiniteSetsExt, TLC

(* Reading history across rings: RingReader's binary search over one ring, *)
(* the records spread over a window (query_ring_spread), folded records    *)
(* left out where a finer ring still holds their samples (drop_covered),   *)
(* and the merge thinned to a limit (query_all).                           *)
(*                                                                         *)
(* A ring is the sequence of the records it holds, oldest first; one that  *)
(* does not decode is Torn. A record has a timestamp `ts` and says whether *)
(* it is `folded`. An `until` of 0 is no upper bound.                      *)

SE == INSTANCE SequencesExt

CONSTANT Torn

end(ring) == Len(ring) + 1

\* The timestamp at an index, stepping forward past what does not decode; -1
\* if nothing does.
ts_from(ring, k) ==
    LET good == {j \in k .. Len(ring) : ring[j] # Torn}
    IN  IF good = {} THEN -1 ELSE ring[Min(good)].ts

\* The search has not passed `ts` at mid.
reaches(ring, mid, ts) ==
    LET t == ts_from(ring, mid) IN t = -1 \/ t >= ts

\* RingReader::lower_bound(): the first index at or past ts, by halving.
lower_bound(ring, ts) ==
    LET RECURSIVE search(_, _)
        search(lo, hi) ==
            IF lo >= hi THEN lo
            ELSE LET mid == lo + (hi - lo) \div 2
                 IN  IF reaches(ring, mid, ts) THEN search(lo, mid) ELSE search(mid + 1, hi)
    IN  search(1, end(ring))

\* The ring holds a record with lo < ts <= hi.
any_in(ring, lo, hi) ==
    /\ ring # <<>> /\ lo < hi
    /\ LET t == ts_from(ring, lower_bound(ring, lo + 1)) IN t # -1 /\ t <= hi

\* The record's fold window is (fold_window(..), ts].
fold_window(ts, window_ns) == IF ts > window_ns THEN ts - window_ns ELSE 0

\* A folded record left out for a finer sample newer than it.
drop_covered_later(recs, window_ns, seen, rings) ==
    LET covered(s) == \E t \in seen : fold_window(s.ts, window_ns) < t
    IN  SelectSeq(recs, LAMBDA s : ~(s.folded /\ covered(s)))

\* The folded records whose window still has samples in `seen`, what was read
\* of the finer rings, or in the rings themselves, are left out.
drop_covered(recs, window_ns, seen, rings) ==
    LET covered(s) ==
            LET lo == fold_window(s.ts, window_ns)
            IN  \/ \E t \in seen : lo < t /\ t <= s.ts
                \/ \E r \in rings : any_in(r, lo, s.ts)
        keep(s) == ~(s.folded /\ covered(s))
    IN  IF window_ns = 0 THEN recs ELSE SelectSeq(recs, keep)

\* The k-th of `take` indexes spread over first .. last, both ends included.
spread_index(first, last, take, k) == first + (k * (last - first)) \div (take - 1)

query_ring_spread(ring, since, until, max_records) ==
    LET first == lower_bound(ring, since)
        last  == (IF until # 0 THEN lower_bound(ring, until + 1) ELSE end(ring)) - 1
        count == last - first + 1
        take  == Min({count, max_records})
        idx(k) == IF take = 1 THEN last ELSE spread_index(first, last, take, k)
        picked == SE!SetToSortSeq({idx(k) : k \in 0 .. take - 1}, <)
        wanted(s) == s # Torn /\ s.ts >= since /\ (until = 0 \/ s.ts <= until)
    IN  IF ring = <<>> \/ first > last THEN <<>>
        ELSE SelectSeq([i \in DOMAIN picked |-> ring[picked[i]]], wanted)

timestamps(recs) == {recs[i].ts : i \in DOMAIN recs}

\* A record's slice of the window lo .. hi cut into max_records equal ones.
slice(ts, lo, hi, max_records) == ((ts - lo) * max_records) \div (hi - lo + 1)

\* One record per slice, the newest, when there are more than the limit.
thin(merged, max_records) ==
    LET lo == merged[1].ts
        hi == merged[Len(merged)].ts
        s(i) == slice(merged[i].ts, lo, hi, max_records)
        lasts == {i \in DOMAIN merged : i = Len(merged) \/ s(i) # s(i + 1)}
        kept == SE!SetToSortSeq(lasts, <)
    IN  IF Len(merged) <= max_records THEN merged
        ELSE [i \in DOMAIN kept |-> merged[kept[i]]]

\* query_all(): `finest` are tier1 and the custom rings, tier2 and tier3 the
\* rings records are folded into, over windows l2_ns and l1_ns.
query_all(finest, tier2, tier3, l2_ns, l1_ns, since, until, max_records) ==
    LET parts == [i \in DOMAIN finest |-> query_ring_spread(finest[i], since, until, max_records)]
        fine == SE!FlattenSeq(parts)
        l2 == query_ring_spread(tier2, since, until, max_records)
        l1 == query_ring_spread(tier3, since, until, max_records)
        rings == {finest[i] : i \in DOMAIN finest}
        l1_left == drop_covered(l1, l1_ns, timestamps(fine) \cup timestamps(l2), rings \cup {tier2})
        l2_left == drop_covered(l2, l2_ns, timestamps(fine), rings)
    IN  thin(SortSeq(fine \o l2_left \o l1_left, LAMBDA a, b : a.ts < b.ts), max_records)

-----------------------------------------------------------------------------

CONSTANTS Cap,           \* records per ring
          fold_l2_ns, fold_l1_ns,
          Steps,         \* how far the clock moves between two samples
          MaxSamples, MaxFail, MaxStart, MaxTime

Levels == {"L1", "L2", "L3", "custom"}
Rings == {"tier1", "tier2", "tier3", "level"}
Windows == {"l2", "l1"}

VARIABLES ready,
          open,      \* the rings whose file is open
          ring,      \* what each ring holds, oldest first
          fold,      \* the samples of the two open fold windows
          rc,        \* what the last store() returned
          clock, stepped,          \* and whether it ever stepped back
          n, fails, starts,
          fed, written, lost       \* of each window: samples given to it,
                                   \* written in a folded record, gone with one

disk == <<ring, written>>
vars == <<ready, open, ring, fold, rc, clock, stepped, n, fails, starts, fed, written, lost>>

ring_for(level) ==
    CASE level = "L3" -> "tier1" [] level = "L2" -> "tier2"
      [] level = "L1" -> "tier3" [] OTHER -> "level"

target == [l2 |-> "tier2", l1 |-> "tier3"]
window_ns == [l2 |-> fold_l2_ns, l1 |-> fold_l1_ns]
out_level == [l2 |-> "L2", l1 |-> "L1"]

ids(w) == UNION {w[i].of : i \in DOMAIN w}

\* RingFile::append(): the ring keeps its newest Cap records.
appended(contents, cap, s) ==
    LET more == Append(contents, s)
    IN  IF Len(more) > cap THEN Tail(more) ELSE more

\* TierAggregator::fold(): stamped with the last sample.
folded(w) ==
    [ts |-> fold[w][Len(fold[w])].ts, folded |-> TRUE, level |-> out_level[w], of |-> ids(fold[w])]

Init ==
    /\ ready = FALSE /\ open = {} /\ rc = 0
    /\ ring = [r \in Rings |-> <<>>]
    /\ fold = [w \in Windows |-> <<>>]
    /\ clock = 0 /\ stepped = FALSE /\ n = 0 /\ fails = 0 /\ starts = 0
    /\ fed = [w \in Windows |-> {}]
    /\ written = [w \in Windows |-> {}]
    /\ lost = [w \in Windows |-> {}]

Order == <<"tier1", "tier2", "tier3", "level">>

\* What init() closes when the file of a ring cannot be named, converted or
\* opened.
closed_on_failure(r) ==
    CASE r = "tier1" -> {} [] r = "tier2" -> {"tier1"} [] r = "tier3" -> {"tier1", "tier2"}
      [] OTHER -> {"tier1", "tier2", "tier3"}

\* init(): the rings opened in order, up to the one that fails (0: none).
init(failing) ==
    /\ ~ready /\ starts < MaxStart /\ starts' = starts + 1
    /\ ready' = (failing = 0)
    /\ open' = IF failing = 0 THEN Rings
               ELSE {Order[i] : i \in 1 .. failing - 1} \ closed_on_failure(Order[failing])
    /\ UNCHANGED <<ring, fold, rc, clock, stepped, n, fails, fed, written, lost>>

\* The windows a sample goes into: those coarser than it.
feeds(w, s) == CASE s.level = "L1" -> FALSE [] s.level = "L2" -> w = "l1" [] OTHER -> TRUE

\* Faulty form: a coarser sample ends no window before it is appended.
ends_unordered(w, s) ==
    /\ fold[w] # <<>>
    /\ s.ts < fold[w][1].ts \/ s.ts - fold[w][1].ts >= window_ns[w]

\* The windows a sample ends: an L2 sample the L2 window, so that the folded
\* record goes before it, an L1 sample both; any other the one it falls outside.
ends(w, s) ==
    /\ fold[w] # <<>>
    /\ \/ s.level = "L1" \/ (s.level = "L2" /\ w = "l2")
       \/ s.ts < fold[w][1].ts \/ s.ts - fold[w][1].ts >= window_ns[w]

\* What flushing the windows in `which` and then appending `direct` leaves in
\* the rings, the rings in `bad` refusing.
Written(which, direct, bad) ==
    [r \in Rings |->
        LET flushed == {w \in which : target[w] = r}
            after == IF flushed = {} \/ r \in bad THEN ring[r]
                     ELSE appended(ring[r], Cap[r], folded(CHOOSE w \in flushed : TRUE))
        IN  IF r # ring_for(direct.level) \/ r \in bad THEN after
            ELSE appended(after, Cap[r], direct)]

\* A window flushed into a ring that refused it is empty all the same.
FoldsFlushed(which, bad) ==
    /\ written' = [w \in Windows |-> written[w] \cup
                      (IF w \in which /\ target[w] \notin bad THEN ids(fold[w]) ELSE {})]
    /\ lost' = [w \in Windows |-> lost[w] \cup
                      (IF w \in which /\ target[w] \in bad THEN ids(fold[w]) ELSE {})]

\* store()'s code: the sample's own failure first, then a folded record's.
store_code(touched, direct, bad) == IF touched \cap bad # {} THEN -4 ELSE 0

\* feed(): the window after the sample, begun anew if the sample ended it.
refold(w, s, which, bad) ==
    LET rest == IF w \in which THEN <<>> ELSE fold[w]
    IN  IF feeds(w, s) THEN Append(rest, s) ELSE rest

store(level, step, bad) ==
    LET s == [ts |-> clock + step, folded |-> FALSE, level |-> level, of |-> {n}]
        which == {w \in Windows : ends(w, s)}
        touched == {target[w] : w \in which} \cup {ring_for(level)}
    IN  /\ ready /\ n < MaxSamples
        /\ s.ts > 0 /\ s.ts <= MaxTime
        /\ bad \subseteq touched
        /\ bad # {} => fails < MaxFail
        /\ fails' = IF bad # {} THEN fails + 1 ELSE fails
        /\ n' = n + 1
        /\ clock' = s.ts /\ stepped' = (stepped \/ step <= 0)
        /\ ring' = Written(which, s, bad)
        /\ FoldsFlushed(which, bad)
        /\ fold' = [w \in Windows |-> refold(w, s, which, bad)]
        /\ fed' = [w \in Windows |-> fed[w] \cup IF feeds(w, s) THEN {n} ELSE {}]
        /\ rc' = store_code(touched, ring_for(level), bad)
        /\ UNCHANGED <<ready, open, starts>>

\* close(): the partial windows are written, then the rings closed.
close(bad) ==
    LET which == {w \in Windows : fold[w] # <<>>}
    IN  /\ ready
        /\ bad \subseteq {target[w] : w \in which}
        /\ bad # {} => fails < MaxFail
        /\ fails' = IF bad # {} THEN fails + 1 ELSE fails
        /\ ring' = [r \in Rings |->
                       LET flushed == {w \in which : target[w] = r}
                       IN  IF flushed = {} \/ r \in bad THEN ring[r]
                           ELSE appended(ring[r], Cap[r], folded(CHOOSE w \in flushed : TRUE))]
        /\ FoldsFlushed(which, bad)
        /\ fold' = [w \in Windows |-> <<>>]
        /\ ready' = FALSE /\ open' = {}
        /\ UNCHANGED <<rc, clock, stepped, n, starts, fed>>

\* The process dies: the open windows were only in memory.
Crash ==
    /\ ready
    /\ ready' = FALSE /\ open' = {}
    /\ lost' = [w \in Windows |-> lost[w] \cup ids(fold[w])]
    /\ fold' = [w \in Windows |-> <<>>]
    /\ UNCHANGED <<ring, rc, clock, stepped, n, fails, starts, fed, written>>

Next ==
    \/ \E f \in 0 .. Len(Order) : init(f)
    \/ \E level \in Levels, step \in Steps, bad \in SUBSET Rings : store(level, step, bad)
    \/ \E bad \in SUBSET {"tier2", "tier3"} : close(bad)
    \/ Crash

Spec == Init /\ [][Next]_vars

-----------------------------------------------------------------------------
\* The variables stay in their ranges; a start that failed leaves no ring open.
TypeOK ==
    /\ ready \in BOOLEAN /\ open = (IF ready THEN Rings ELSE {})
    /\ \A r \in Rings : Len(ring[r]) <= Cap[r]
    /\ rc \in {0, -4} /\ clock \in 0 .. MaxTime /\ n \in 0 .. MaxSamples

\* "each ring stays in time order": a folded record, stamped with the last
\* sample of its window, is never appended after a newer one, whichever level
\* collects and whatever failed or died, as long as the clock only advances.
TimeOrder ==
    ~stepped => \A r \in Rings : \A i \in 1 .. Len(ring[r]) - 1 : ring[r][i].ts < ring[r][i + 1].ts

\* Every sample finer than a window's ring is in the open window, or in one
\* folded record written, or went with a record refused or a process that
\* died: in exactly one of the three.
FoldedOnce ==
    \A w \in Windows :
        /\ fed[w] = ids(fold[w]) \cup written[w] \cup lost[w]
        /\ ids(fold[w]) \cap (written[w] \cup lost[w]) = {}
        /\ written[w] \cap lost[w] = {}

\* A folded record speaks for less than a window of time, a clock that steps
\* back included: no open window holds samples a window apart.
WindowBounded ==
    \A w \in Windows : \A i, j \in DOMAIN fold[w] : fold[w][i].ts - fold[w][j].ts < window_ns[w]

\* A full disk does not stop the history without a word: a store() that wrote
\* less than it was to returns an error, the sample's or a folded record's.
RefusalTold ==
    [][n' # n => (rc' # 0 <=> \/ \E w \in Windows : lost'[w] # lost[w]
                              \/ \A r \in Rings : \A i \in DOMAIN ring'[r] : ring'[r][i].of # {n})]_vars

-----------------------------------------------------------------------------
(* The history read across the rings, over all of time. *)

all(max_records) ==
    query_all(<<ring["tier1"], ring["level"]>>, ring["tier2"], ring["tier3"],
              fold_l2_ns, fold_l1_ns, 1, 0, max_records)

\* "A stretch of L3 shows once, at L3": no sample is in the history and also
\* behind a folded record of it. (Two folded records of one sample may be, an
\* L1 and an L2 one whose windows overlap, where tier2 has wrapped.)
ShownOnce ==
    ~stepped =>
        \A got \in {all(2 * MaxSamples + 2)} :
            \A i, j \in DOMAIN got : i # j /\ ~got[i].folded => got[i].of \cap got[j].of = {}

\* Leaving folded records out opens no gap: near every record a ring holds,
\* at most the two windows older, there is a record in the history.
NoGap ==
    ~stepped =>
        \A got \in {all(2 * MaxSamples + 2)} :
            \A r \in Rings : \A i \in DOMAIN ring[r] :
                \E j \in DOMAIN got : /\ got[j].ts <= ring[r][i].ts
                                      /\ got[j].ts > ring[r][i].ts - fold_l1_ns - fold_l2_ns

\* A limit keeps the history covered end to end: at most `max` records, in
\* time order, and none of the unlimited ones further from a kept one than a
\* slice of the window.
ThinnedEvenly ==
    ~stepped =>
        \A max \in {2, 3} :
            \A full \in {all(2 * MaxSamples + 2)}, limited \in {all(max)} :
                \A got \in {thin(full, max)} :
                    LET span == full[Len(full)].ts - full[1].ts + 1
                    IN  /\ Len(got) <= max /\ Len(limited) <= max
                        /\ full # <<>> => limited[Len(limited)].ts = full[Len(full)].ts
                        /\ \A i \in DOMAIN full : \E j \in DOMAIN got :
                              got[j].ts >= full[i].ts /\ (got[j].ts - full[i].ts) * max < span
=============================================================================
