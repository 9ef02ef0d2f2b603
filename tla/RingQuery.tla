----------------------------- MODULE RingQuery ------------------------------
(***************************************************************************)
(* TierManager::query_ring() on the HTTP thread, walking a ring from the   *)
(* newest record to the oldest while the collection loop appends to it: no *)
(* lock is shared, the walk reads widx_ once and begun_ after each slot.   *)
(* A query without `until`, which the walk starts at the newest record.    *)
(***************************************************************************)
EXTENDS RingFile, Sequences

CONSTANT kDisorderLookback

ASSUME QueryAssumption == kDisorderLookback \in Nat

VARIABLES qpc,      \* "none", "walk", "read" (a slot in the buffer), "done"
          since, limit,  \* since_ns and max_records of the request
          qwidx,    \* the write index the walk started from
          k,        \* records walked
          buf,      \* the slot just read
          older_run,
          newest_first

query == <<qpc, since, limit, qwidx, k, buf, older_run, newest_first>>
qvars == <<vars, query>>

Running == pc \in {"idle", "begun", "writing", "placed", "indexed"}

QueryInit ==
    /\ Init
    /\ qpc = "none" /\ since = 0 /\ limit = 0 /\ qwidx = 0
    /\ k = 0 /\ buf = Unreadable /\ older_run = 0 /\ newest_first = <<>>

\* The HTTP thread runs from the end of the start to the end of the process:
\* its query dies with it.
StorageStep ==
    /\ Next
    /\ qpc' = IF pc' = "down" THEN "none" ELSE qpc
    /\ newest_first' = IF pc' = "down" THEN <<>> ELSE newest_first
    /\ UNCHANGED <<since, limit, qwidx, k, buf, older_run>>

QueryBegin ==
    /\ Running /\ qpc \in {"none", "done"}
    /\ since' \in 0 .. MaxTime /\ limit' \in 1 .. Cap
    /\ qwidx' = widx
    /\ k' = 0 /\ buf' = Unreadable /\ older_run' = 0 /\ newest_first' = <<>>
    /\ qpc' = "walk"
    /\ UNCHANGED vars

logical == qwidx - 1 - k

WalkEnds ==
    /\ qpc = "walk"
    /\ logical \notin Live(qwidx) \/ Len(newest_first) >= limit
    /\ qpc' = "done"
    /\ UNCHANGED <<vars, since, limit, qwidx, k, buf, older_run, newest_first>>

\* Faulty forms: begun_ compared one too early; begun_ not looked at.
Lapped_OneEarly ==
    /\ qpc = "read" /\ begun >= logical + Cap
    /\ qpc' = "done"
    /\ UNCHANGED <<vars, since, limit, qwidx, k, buf, older_run, newest_first>>

TakeRecord_BegunUnread ==
    /\ qpc = "read"
    /\ buf # Unreadable /\ buf.ts >= since
    /\ older_run' = 0
    /\ newest_first' = Append(newest_first, buf)
    /\ k' = k + 1
    /\ qpc' = "walk"
    /\ UNCHANGED <<vars, since, limit, qwidx, buf>>

ReadSlot ==
    /\ qpc = "walk"
    /\ logical \in Live(qwidx) /\ Len(newest_first) < limit
    /\ buf' = At(slots, logical)
    /\ qpc' = "read"
    /\ UNCHANGED <<vars, since, limit, qwidx, k, older_run, newest_first>>

\* The writer has begun to write over the slot: it and the older ones are gone.
Lapped ==
    /\ qpc = "read" /\ begun > logical + Cap
    /\ qpc' = "done"
    /\ UNCHANGED <<vars, since, limit, qwidx, k, buf, older_run, newest_first>>

SkipTorn ==
    /\ qpc = "read" /\ begun <= logical + Cap
    /\ buf = Unreadable
    /\ k' = k + 1
    /\ qpc' = "walk"
    /\ UNCHANGED <<vars, since, limit, qwidx, buf, older_run, newest_first>>

BelowWindow ==
    /\ qpc = "read" /\ begun <= logical + Cap
    /\ buf # Unreadable /\ buf.ts < since
    /\ older_run' = older_run + 1
    /\ IF older_run' > kDisorderLookback
       THEN qpc' = "done" /\ UNCHANGED k
       ELSE qpc' = "walk" /\ k' = k + 1
    /\ UNCHANGED <<vars, since, limit, qwidx, buf, newest_first>>

TakeRecord ==
    /\ qpc = "read" /\ begun <= logical + Cap
    /\ buf # Unreadable /\ buf.ts >= since
    /\ older_run' = 0
    /\ newest_first' = Append(newest_first, buf)
    /\ k' = k + 1
    /\ qpc' = "walk"
    /\ UNCHANGED <<vars, since, limit, qwidx, buf>>

QueryNext ==
    \/ StorageStep
    \/ QueryBegin \/ WalkEnds \/ ReadSlot
    \/ Lapped \/ SkipTorn \/ BelowWindow \/ TakeRecord

QuerySpec == QueryInit /\ [][QueryNext]_qvars

-----------------------------------------------------------------------------
\* The query's variables stay in their ranges; the walk never leaves the
\* indexes of the ring it started from.
QueryTypeOK ==
    /\ qpc \in {"none", "walk", "read", "done"}
    /\ since \in Nat /\ limit \in Nat /\ qwidx \in Nat /\ k \in 0 .. Cap
    /\ buf \in Content /\ older_run \in Nat /\ newest_first \in Seq(Record)
    /\ qpc = "read" => logical \in Live(qwidx)

\* The writer may lap the walk at any point, between the read of a slot and
\* the check of begun_ too: no record appended after the walk began enters the
\* result, and the records are in the order they were appended.
LapSafe ==
    Orderly =>
        /\ \A i \in 1 .. Len(newest_first) : newest_first[i].seq < qwidx
        /\ \A i, j \in 1 .. Len(newest_first) :
              i < j => /\ newest_first[i].seq > newest_first[j].seq
                       /\ newest_first[i].ts > newest_first[j].ts

\* The early exits of the walk drop nothing that is still there: a record of
\* the window that was indexed when the walk began, and that is not the one
\* the writer takes next, is in the result, or `limit` newer ones are.
QueryComplete ==
    Orderly /\ qpc = "done" =>
        \A l \in Live(qwidx) :
            l > widx - Cap /\ At(slots, l).ts >= since =>
                \/ \E i \in 1 .. Len(newest_first) : newest_first[i] = At(slots, l)
                \/ /\ Len(newest_first) = limit
                   /\ \A i \in 1 .. Len(newest_first) : newest_first[i].seq > l
=============================================================================
