---------------------------- MODULE RingConvert -----------------------------
(***************************************************************************)
(* convert_ring(): at start, a ring an older budyk wrote is copied record  *)
(* by record into <path>.convert, which then takes its name. The process   *)
(* may be killed and the power cut at any step.                            *)
(*                                                                         *)
(* The directory has two names; `live` is what the running system sees,    *)
(* `disk` what a power cut leaves: a name changes on disk at the latest by *)
(* an fsync of the directory, a file's contents by an fsync of the file.   *)
(* A file is the sequence of its records, oldest first (RingFile's slots   *)
(* and index are its module), Torn where one does not decode; the old file *)
(* has its last `unidx` written but not indexed.                           *)
(***************************************************************************)
EXTENDS Integers, Sequences, FiniteSets, FiniteSetsExt

CONSTANTS Torn, NoFile,
          OldRecords,    \* the old rings to convert: [recs, unidx]
          OldCap,        \* the old ring's capacity
          capacity,      \* the new one's
          MaxStarts

VARIABLES pc,      \* where convert_ring() is; "down": no process
          old,     \* the ring as it was found, for the properties
          live, disk,  \* name -> file; "empty" contents of a file not synced
          at,      \* the next record to copy
          dropped,
          starts, converted

vars == <<pc, old, live, disk, at, dropped, starts, converted>>

File(fmt, recs) == [fmt |-> fmt, recs |-> recs]

Init ==
    /\ old \in OldRecords
    /\ \E fmt \in {"old", "newer"} : live = [path |-> File(fmt, old.recs), tmp |-> NoFile]
    /\ disk = live
    /\ pc = "down" /\ at = 0 /\ dropped = 0 /\ starts = 0 /\ converted = FALSE

\* count: the indexed records still there, less those the unindexed ones took
\* the slots of.
total == Min({Len(old.recs), OldCap})
first == Len(old.recs) - total + 1
skip == IF total > capacity THEN total - capacity ELSE 0

copy_from == first + skip
copy_to == Len(old.recs)

\* convert_if_older(): a ring of this version's record size needs nothing, and
\* one a newer budyk wrote is left alone, the start failing.
Begin ==
    /\ pc = "down" /\ starts < MaxStarts
    /\ starts' = starts + 1
    /\ IF live.path.fmt = "newer" THEN UNCHANGED <<pc, live, at, dropped>>
       ELSE IF live.path.fmt = "old"
       THEN /\ pc' = "copy" /\ at' = copy_from /\ dropped' = skip
            /\ live' = [live EXCEPT !.tmp = File("new", <<>>)]   \* unlinked, made anew
       ELSE pc' = "up" /\ UNCHANGED <<live, at, dropped>>
    /\ UNCHANGED <<old, disk, converted>>

Copy ==
    /\ pc = "copy" /\ at <= copy_to
    /\ at' = at + 1
    /\ IF old.recs[at] = Torn
       THEN dropped' = dropped + 1 /\ UNCHANGED live
       ELSE live' = [live EXCEPT !.tmp.recs = Append(@, old.recs[at])] /\ UNCHANGED dropped
    /\ UNCHANGED <<pc, old, disk, starts, converted>>

Copied ==
    /\ pc = "copy" /\ at > copy_to
    /\ pc' = "sync"
    /\ UNCHANGED <<old, live, disk, at, dropped, starts, converted>>

\* A write, an fsync or the rename fails: the temporary goes, the ring stays
\* and the start fails.
Fail ==
    /\ pc \in {"copy", "sync", "rename"}
    /\ live' = [live EXCEPT !.tmp = NoFile]
    /\ pc' = "down"
    /\ UNCHANGED <<old, disk, at, dropped, starts, converted>>

\* sync_path() of the temporary, then of the directory after the rename. The
\* temporary's name may reach the disk at any time (Writeback). Faulty form: the
\* rename without the first.
SyncTmp_not ==
    /\ pc = "sync" /\ pc' = "rename"
    /\ UNCHANGED <<old, live, disk, at, dropped, starts, converted>>

SyncTmp ==
    /\ pc = "sync" /\ pc' = "rename"
    /\ disk' = [disk EXCEPT !.tmp = live.tmp]
    /\ UNCHANGED <<old, live, at, dropped, starts, converted>>

Rename ==
    /\ pc = "rename" /\ pc' = "syncdir"
    /\ live' = [path |-> live.tmp, tmp |-> NoFile]
    /\ UNCHANGED <<old, disk, at, dropped, starts, converted>>

\* On disk the name now leads to the contents that are there: those of the
\* temporary if it was synced, else a file with nothing in it.
RenamedOnDisk == [path |-> IF live.path \in {disk.tmp, disk.path} THEN live.path ELSE File("new", <<>>),
                  tmp |-> NoFile]

SyncDir ==
    /\ pc = "syncdir"
    /\ disk' = RenamedOnDisk
    /\ pc' = "up" /\ converted' = TRUE
    /\ UNCHANGED <<old, live, at, dropped, starts>>

\* The directory could not be synced: the start fails, the ring is renamed.
SyncDirFails ==
    /\ pc = "syncdir" /\ pc' = "down"
    /\ UNCHANGED <<old, live, disk, at, dropped, starts, converted>>

\* The kernel writes the renamed entry back in its own time.
Writeback ==
    /\ live.path # NoFile /\ live.path.fmt = "new" /\ disk.path.fmt = "old"
    /\ disk' = RenamedOnDisk
    /\ UNCHANGED <<pc, old, live, at, dropped, starts, converted>>

Kill ==
    /\ pc # "down" /\ pc' = "down"
    /\ UNCHANGED <<old, live, disk, at, dropped, starts, converted>>

PowerCut ==
    /\ pc' = "down" /\ live # disk
    /\ live' = disk
    /\ UNCHANGED <<old, disk, at, dropped, starts, converted>>

Next ==
    \/ Begin \/ Copy \/ Copied \/ Fail \/ SyncTmp \/ Rename \/ SyncDir \/ SyncDirFails
    \/ Writeback \/ Kill \/ PowerCut

Spec == Init /\ [][Next]_vars

-----------------------------------------------------------------------------
\* The newest records the new ring has room for, without those that do not
\* decode: what a conversion is to keep.
Newest ==
    SelectSeq(SubSeq(old.recs, Len(old.recs) - Min({Len(old.recs), OldCap, capacity}) + 1, Len(old.recs)),
              LAMBDA r : r # Torn)

\* The variables stay in their ranges; no more is dropped than there was.
TypeOK ==
    /\ pc \in {"down", "copy", "sync", "rename", "syncdir", "up"}
    /\ \A n \in {"path", "tmp"} : live[n] = NoFile \/ live[n].fmt \in {"old", "new", "newer"}
    /\ dropped \in 0 .. Len(old.recs)

\* Whenever the process is killed or the power cut, the ring's name leads to
\* the whole old ring or to the whole new one, on the running system and on
\* disk: the history is never gone, nor half of it.
HistoryKept ==
    \A dir \in {live, disk} :
        /\ dir.path # NoFile
        /\ dir.path.fmt \in {"old", "newer"} => dir.path.recs = old.recs
        /\ dir.path.fmt = "new" => dir.path.recs = Newest

\* What the log says of a conversion adds up: each record the old ring still
\* had was kept or dropped, the ones a crash left unindexed among them.
CountsAddUp ==
    pc \in {"sync", "rename"} => Len(live.tmp.recs) + dropped = total
=============================================================================
