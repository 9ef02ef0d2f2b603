------------------------------ MODULE RingFile ------------------------------
(***************************************************************************)
(* One ring file of the storage: its header index and its record slots,    *)
(* the append of the collection loop, the start of the daemon (open,       *)
(* header, count of the unindexed records), fsck --repair, a process       *)
(* killed between any two steps, a power loss that keeps whatever pages    *)
(* had reached the disk, and the realtime clock that stamps the records.   *)
(***************************************************************************)
EXTENDS Integers, FiniteSets, FiniteSetsExt

CONSTANTS Cap,      \* capacity: the number of slots
          MaxTime,  \* bound: the latest reading of the clock
          MaxBack,  \* bound: how many times the clock steps back
          MaxLoss   \* bound: how many times the power fails

\* The smallest ring the configuration allows, 1 MiB, has far more than two
\* slots; with a single one the record a crash left unindexed is also the
\* newest indexed one, and is not counted in.
ASSUME RingAssumption ==
    /\ Cap \in Nat /\ Cap >= 2
    /\ MaxTime \in Nat
    /\ MaxBack \in Nat
    /\ MaxLoss \in Nat

VARIABLES hdr,      \* write_idx of the header, as a new process would read it
          slots,    \* the record in each slot, as a new process would read it
          dhdr,     \* the header that has reached the disk
          dslots,   \* the slots that have reached the disk
          pc,       \* where the writing process is
          widx,     \* its widx_
          begun,    \* its begun_
          rec,      \* the record it is appending
          clock,    \* the realtime clock
          backs,    \* how often the clock has stepped back
          losses    \* how often the power has failed

file == <<hdr, slots>>
disk == <<dhdr, dslots>>
proc == <<pc, widx, begun, rec>>
env  == <<clock, backs, losses>>
vars == <<file, disk, proc, env>>

NoFile    == -2     \* st_size == 0, or no file at all
BlankHdr  == -1     \* sized, the header all zero bytes
Slot      == 0 .. Cap - 1
\* seq is the index a record was appended at: the file does not hold it.
Record    == [seq : Nat, ts : Nat]
\* What record_decode() refuses: never written, or torn.
Unreadable == [seq |-> -1, ts |-> 0]
NoRecords == [s \in Slot |-> Unreadable]

At(ss, logical) == ss[logical % Cap]

\* The indexes a ring with write index w holds: w - count() .. w - 1.
Live(w) == {l \in 0 .. w - 1 : l >= w - Cap}

-----------------------------------------------------------------------------
(* Counting in the records a crash left unindexed.                         *)

\* The stamp of the newest indexed record that reads, 0 if none does.
PrevTs(w, ss) ==
    LET readable == {l \in Live(w) : At(ss, l) # Unreadable}
    IN  IF readable = {} THEN 0 ELSE At(ss, Max(readable)).ts

\* Faulty form: the stamps compared with the newest indexed record only.
UnindexedRun_PrevNotKept(w, ss, now, n) ==
    \A j \in 0 .. n - 1 :
        /\ At(ss, w + j) # Unreadable
        /\ At(ss, w + j).ts > PrevTs(w, ss)
        /\ At(ss, w + j).ts <= now

\* The n slots after index w read, each stamped after the one before it and
\* none after now.
UnindexedRun(w, ss, now, n) ==
    \A j \in 0 .. n - 1 :
        /\ At(ss, w + j) # Unreadable
        /\ At(ss, w + j).ts > IF j = 0 THEN PrevTs(w, ss) ELSE At(ss, w + j - 1).ts
        /\ At(ss, w + j).ts <= now

count_unindexed(w, ss, now) ==
    Cardinality({n \in 1 .. Cap : UnindexedRun(w, ss, now, n)})

-----------------------------------------------------------------------------
Init ==
    /\ hdr = NoFile /\ slots = NoRecords
    /\ dhdr = NoFile /\ dslots = NoRecords
    /\ pc = "down" /\ widx = 0 /\ begun = 0 /\ rec = Unreadable
    /\ clock = 0 /\ backs = 0 /\ losses = 0

(* The start of the daemon.                                                *)

\* open() of an existing ring: its header is mapped as it is.
OpenExisting ==
    /\ pc = "down" /\ hdr >= 0
    /\ pc' = "mapped"
    /\ UNCHANGED <<file, disk, widx, begun, rec, env>>

\* open() of an empty file, sized by the ftruncate, or of a blank header.
OpenFresh ==
    /\ pc = "down" /\ hdr < 0
    /\ hdr' = BlankHdr
    /\ pc' = "sized"
    /\ UNCHANGED <<slots, disk, widx, begun, rec, env>>

WriteHeader ==
    /\ pc = "sized"
    /\ hdr' = 0
    /\ pc' = "mapped"
    /\ UNCHANGED <<slots, disk, widx, begun, rec, env>>

\* The header's pwrite fails: ftruncate(0), whatever the slots held.
HeaderFails ==
    /\ pc = "sized"
    /\ hdr' = NoFile /\ slots' = NoRecords
    /\ pc' = "down"
    /\ UNCHANGED <<disk, widx, begun, rec, env>>

\* Faulty forms of Recover: the index advanced one record short, or not at all.
Recover_OneShort ==
    /\ pc = "mapped"
    /\ hdr' = hdr + count_unindexed(hdr, slots, clock) - 1
    /\ widx' = hdr' /\ begun' = hdr'
    /\ pc' = "idle"
    /\ UNCHANGED <<slots, disk, rec, env>>

Recover_NotCounted ==
    /\ pc = "mapped"
    /\ widx' = hdr /\ begun' = hdr
    /\ pc' = "idle"
    /\ UNCHANGED <<hdr, slots, disk, rec, env>>

\* TierManager::recover() at the end of the start.
Recover ==
    /\ pc = "mapped"
    /\ hdr' = hdr + count_unindexed(hdr, slots, clock)
    /\ widx' = hdr' /\ begun' = hdr'
    /\ pc' = "idle"
    /\ UNCHANGED <<slots, disk, rec, env>>

\* Faulty form: the index set to the records counted, not advanced by them.
FsckRepair_IndexLost ==
    /\ pc = "down" /\ hdr >= 0
    /\ hdr' = count_unindexed(hdr, slots, clock)
    /\ UNCHANGED <<slots, disk, proc, env>>

\* fsck --repair, run while no daemon holds the directory.
FsckRepair ==
    /\ pc = "down" /\ hdr >= 0
    /\ hdr' = hdr + count_unindexed(hdr, slots, clock)
    /\ UNCHANGED <<slots, disk, proc, env>>

(* RingFile::append(), one action for each store another thread or the     *)
(* next process can see.                                                   *)

\* The sample is stamped when it is collected, later than the one before.
AppendBegin ==
    /\ pc = "idle" /\ clock < MaxTime
    /\ clock' = clock + 1
    /\ rec' = [seq |-> widx, ts |-> clock + 1]
    /\ begun' = widx + 1
    /\ pc' = "begun"
    /\ UNCHANGED <<file, disk, widx, backs, losses>>

\* Faulty form: the record counted before it is placed.
PwriteStarts_IndexFirst ==
    /\ pc = "begun"
    /\ hdr' = widx + 1
    /\ slots' = [slots EXCEPT ![widx % Cap] = Unreadable]
    /\ pc' = "writing"
    /\ UNCHANGED <<disk, widx, begun, rec, env>>

\* Part of the record is in the slot.
PwriteStarts ==
    /\ pc = "begun"
    /\ slots' = [slots EXCEPT ![widx % Cap] = Unreadable]
    /\ pc' = "writing"
    /\ UNCHANGED <<hdr, disk, widx, begun, rec, env>>

PwriteDone ==
    /\ pc = "writing"
    /\ slots' = [slots EXCEPT ![widx % Cap] = rec]
    /\ pc' = "placed"
    /\ UNCHANGED <<hdr, disk, widx, begun, rec, env>>

\* An error before the first byte, or a short write: append() returns -3.
PwriteFails ==
    /\ pc \in {"begun", "writing"}
    /\ begun' = widx
    /\ pc' = "idle"
    /\ UNCHANGED <<file, disk, widx, rec, env>>

StoreHeaderIndex ==
    /\ pc = "placed"
    /\ hdr' = widx + 1
    /\ pc' = "indexed"
    /\ UNCHANGED <<slots, disk, widx, begun, rec, env>>

StoreWriteIndex ==
    /\ pc = "indexed"
    /\ widx' = widx + 1
    /\ pc' = "idle"
    /\ UNCHANGED <<file, disk, begun, rec, env>>

(* The world around the process.                                           *)

\* close(), or the process killed: the page cache keeps what it wrote.
Stop ==
    /\ pc # "down"
    /\ pc' = "down" /\ widx' = 0 /\ begun' = 0 /\ rec' = Unreadable
    /\ UNCHANGED <<file, disk, env>>

\* The header's page, or the file's size, reaches the disk.  What is there
\* matters only if the power is still to fail.
WritebackHeader ==
    /\ losses < MaxLoss /\ dhdr # hdr
    /\ dhdr' = hdr
    /\ dslots' = IF hdr = NoFile THEN NoRecords ELSE dslots
    /\ UNCHANGED <<file, proc, env>>

\* A slot's page does, or one of the two pages it lies across.
WritebackSlot(s) ==
    /\ losses < MaxLoss /\ dhdr # NoFile /\ dslots[s] # slots[s]
    /\ \E content \in {slots[s], Unreadable} :
          dslots' = [dslots EXCEPT ![s] = content]
    /\ UNCHANGED <<file, dhdr, proc, env>>

PowerLoss ==
    /\ losses < MaxLoss
    /\ losses' = losses + 1
    /\ hdr' = dhdr /\ slots' = dslots
    /\ pc' = "down" /\ widx' = 0 /\ begun' = 0 /\ rec' = Unreadable
    /\ UNCHANGED <<disk, clock, backs>>

ClockAdvances ==
    /\ clock < MaxTime
    /\ clock' = clock + 1
    /\ UNCHANGED <<file, disk, proc, backs, losses>>

ClockStepsBack ==
    /\ backs < MaxBack
    /\ backs' = backs + 1
    /\ \E now \in 0 .. clock - 1 : clock' = now
    /\ UNCHANGED <<file, disk, proc, losses>>

Next ==
    \/ OpenExisting \/ OpenFresh \/ WriteHeader \/ HeaderFails
    \/ Recover \/ FsckRepair
    \/ AppendBegin \/ PwriteStarts \/ PwriteDone \/ PwriteFails
    \/ StoreHeaderIndex \/ StoreWriteIndex
    \/ Stop \/ PowerLoss
    \/ WritebackHeader \/ \E s \in Slot : WritebackSlot(s)
    \/ ClockAdvances \/ ClockStepsBack

Spec == Init /\ [][Next]_vars
-----------------------------------------------------------------------------
(* What the ring promises.                                                 *)

PC == {"down", "sized", "mapped", "idle", "begun", "writing", "placed", "indexed"}
Content == Record \cup {Unreadable}

\* Every variable stays in its range, and a process past open() works on a
\* file that has a header.
TypeOK ==
    /\ hdr \in Nat \cup {NoFile, BlankHdr} /\ dhdr \in Nat \cup {NoFile, BlankHdr}
    /\ slots \in [Slot -> Content] /\ dslots \in [Slot -> Content]
    /\ pc \in PC /\ widx \in Nat /\ begun \in Nat /\ rec \in Content
    /\ clock \in Nat /\ backs \in Nat /\ losses \in Nat
    /\ pc \notin {"down", "sized"} => hdr \in Nat

\* Records are stamped in the order they are appended, and what the process
\* wrote is what the next one reads.
Orderly == backs = 0 /\ losses = 0

\* append() places the record before it counts it, so a process killed at any
\* point loses no indexed record: under every index but the oldest of a full
\* ring, which the next append() writes over, is the record appended there.
OnlyOldestAtRisk ==
    Orderly => \A l \in Live(hdr) : l # hdr - Cap => At(slots, l).seq = l

\* Recover counts in every record that was placed and not indexed when the
\* last process was killed: between two appends no slot holds a record past
\* the index (the next append() would write over it).
NothingLeftOut ==
    Orderly /\ pc = "idle" => \A s \in Slot : slots[s].seq < widx

\* A start that follows no crash counts nothing in: between two appends
\* count_unindexed() finds no record, the ring wrapped or not, the last append
\* failed or not, even when an earlier power loss left older records under
\* the index or the header's page lost.
CleanRestartIsNoop ==
    backs = 0 /\ pc = "idle" => count_unindexed(hdr, slots, clock) = 0

\* A start counts in all there is to count: whatever a power loss and a clock
\* step have left in the slots, a second start right after finds nothing more
\* (or the index would creep over old records, start by start).
RecoverySettles ==
    [][pc = "mapped" /\ pc' = "idle" => count_unindexed(hdr', slots', clock') = 0]_vars

\* ring_check.h on count_unindexed(): "in a wrapped ring the oldest record
\* ends the run, and so does one from before the clock stepped back".  What a
\* start would count in is a record whose append() had not indexed it.
OldRecordsEndTheRun ==
    losses = 0 /\ pc = "down" /\ hdr >= 0 =>
        \A j \in 0 .. count_unindexed(hdr, slots, clock) - 1 :
            At(slots, hdr + j).seq >= hdr

\* The ring as the log a reader sees: the index, and the indexed records that
\* are still the ones appended there.
Held == {At(slots, l) : l \in {k \in Live(hdr) : At(slots, k).seq = k}}
Log == INSTANCE BoundedLog WITH next <- IF hdr < 0 THEN 0 ELSE hdr, held <- Held

\* The ring, its writer killed and restarted at any point, its writes failing
\* at any point, implements the bounded log.
ImplementsLog == Log!Spec
=============================================================================
