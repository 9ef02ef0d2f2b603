----------------------------- MODULE RingProofs -----------------------------
(***************************************************************************)
(* Proofs about RingFile, for every capacity and every bound: the type     *)
(* invariant, that a killed process costs no indexed record but the oldest *)
(* of a full ring, that a restart leaves no placed record out, and that    *)
(* the ring implements BoundedLog. And about RingQuery, for every          *)
(* lookback too: what a query walked without a lock may and must return    *)
(* while the collection loop writes over the ring.                         *)
(***************************************************************************)
EXTENDS RingQuery, FiniteSetTheorems, TLAPS

(* Arithmetic of slot numbers.                                             *)

LEMMA DivMod ==
    ASSUME NEW c \in Nat, c > 0, NEW a \in Int
    PROVE  /\ a % c \in 0 .. c - 1
           /\ (a \div c) \in Int
           /\ a = c * (a \div c) + (a % c)
OBVIOUS

LEMMA SmallMultiple ==
    ASSUME NEW c \in Nat, c > 0, NEW q \in Int, c * q < c, c * q > -c
    PROVE  q = 0
OBVIOUS

LEMMA ModUnique ==
    ASSUME NEW c \in Nat, c > 0, NEW q \in Int, NEW r \in 0 .. c - 1
    PROVE  (c * q + r) % c = r
OBVIOUS

\* Two indexes less than a lap apart share no slot.
LEMMA ModWindow ==
    ASSUME NEW c \in Nat, c > 0, NEW a \in Int, NEW b \in Int,
           a % c = b % c, a - b < c, b - a < c
    PROVE  a = b
<1> DEFINE qa == a \div c
           qb == b \div c
<1>1. /\ a = c * qa + (a % c) /\ qa \in Int
      /\ b = c * qb + (b % c) /\ qb \in Int
      /\ a % c \in Int
  BY DivMod
<1>2. a - b = c * (qa - qb)
  BY <1>1
<1> HIDE DEF qa, qb
<1>3. qa - qb = 0
  BY <1>1, <1>2, SmallMultiple
<1> QED
  BY <1>1, <1>2, <1>3

\* Indexes a lap apart share their slot.
LEMMA ModLap ==
    ASSUME NEW c \in Nat, c > 0, NEW a \in Int
    PROVE  (a - c) % c = a % c
<1> DEFINE q == a \div c
           r == a % c
<1>1. a = c * q + r /\ q \in Int /\ r \in 0 .. c - 1
  BY DivMod, Zenon
<1> HIDE DEF q, r
<1>2. a - c = c * (q - 1) + r
  BY <1>1
<1>3. (a - c) % c = r
  BY <1>1, <1>2, ModUnique
<1> QED
  BY <1>3, Zenon DEF r

LEMMA SlotOf ==
    ASSUME NEW a \in Int
    PROVE  a % Cap \in Slot
BY RingAssumption, DivMod DEF Slot

-----------------------------------------------------------------------------
(* Types.                                                                  *)

LEMMA CountType ==
    ASSUME NEW w, NEW ss, NEW now
    PROVE  count_unindexed(w, ss, now) \in Nat
<1> DEFINE S == {n \in 1 .. Cap : UnindexedRun(w, ss, now, n)}
<1>1. IsFiniteSet(1 .. Cap)
  BY RingAssumption, FS_Interval
<1>2. S \in SUBSET (1 .. Cap)
  BY Zenon
<1>3. IsFiniteSet(S)
  BY <1>1, <1>2, FS_Subset, Zenon
<1> QED
  BY <1>3, FS_CardinalityType, Zenon DEF count_unindexed

\* Every variable of the ring stays in its range, whatever crashes, power
\* losses and clock steps it meets (RingFile::open, append, recover).
THEOREM TypeCorrect == Spec => []TypeOK
<1> USE RingAssumption DEF TypeOK, Content, Record, Unreadable, NoRecords, NoFile, BlankHdr, PC
<1>1. Init => TypeOK
  BY DEF Init
<1>2. TypeOK /\ [Next]_vars => TypeOK'
  <2> SUFFICES ASSUME TypeOK, [Next]_vars
               PROVE  TypeOK'
    BY Zenon
  <2>1. CASE OpenExisting \/ OpenFresh \/ WriteHeader \/ HeaderFails
    BY <2>1 DEF OpenExisting, OpenFresh, WriteHeader, HeaderFails, file, disk, env
  <2>2. CASE Recover
    BY <2>2, CountType DEF Recover, disk, env
  <2>3. CASE FsckRepair
    BY <2>3, CountType DEF FsckRepair, disk, proc, env
  <2>4. CASE AppendBegin \/ PwriteStarts \/ PwriteDone \/ PwriteFails
    BY <2>4 DEF AppendBegin, PwriteStarts, PwriteDone, PwriteFails, file, disk, env
  <2>5. CASE StoreHeaderIndex \/ StoreWriteIndex \/ Stop
    BY <2>5 DEF StoreHeaderIndex, StoreWriteIndex, Stop, file, disk, env
  <2>6. CASE PowerLoss \/ WritebackHeader \/ \E s \in Slot : WritebackSlot(s)
    BY <2>6 DEF PowerLoss, WritebackHeader, WritebackSlot, file, disk, proc, env
  <2>7. CASE ClockAdvances \/ ClockStepsBack
    BY <2>7 DEF ClockAdvances, ClockStepsBack, file, disk, proc, env
  <2>8. CASE UNCHANGED vars
    BY <2>8, Zenon DEF vars, file, disk, proc, env
  <2> QED
    BY <2>1, <2>2, <2>3, <2>4, <2>5, <2>6, <2>7, <2>8, Zenon DEF Next
<1> QED
  BY <1>1, <1>2, PTL DEF Spec

-----------------------------------------------------------------------------
(* The inductive invariant behind the safety of the ring.                  *)

Appending == pc \in {"begun", "writing", "placed", "indexed"}

\* Where the process's indexes stand against the header's.
IndexInv ==
    /\ pc = "sized" => hdr = BlankHdr
    /\ pc \in {"idle", "begun", "writing", "placed"} => hdr = widx
    /\ pc = "indexed" => hdr = widx + 1
    /\ begun = IF Appending THEN widx + 1 ELSE widx

\* A record sits in its own slot and is at most a lap behind the index; one
\* at the index is there only until it is indexed.
SlotInv ==
    \A s \in Slot : slots[s] # Unreadable =>
        /\ slots[s].seq % Cap = s
        /\ slots[s].seq >= hdr - Cap
        /\ \/ slots[s].seq < hdr
           \/ slots[s].seq = hdr /\ pc \in {"down", "mapped", "placed"}
        /\ slots[s].ts > 0 /\ slots[s].ts <= clock

\* Stamps follow indexes.
OrderInv ==
    \A s, t \in Slot :
        slots[s] # Unreadable /\ slots[t] # Unreadable /\ slots[s].seq < slots[t].seq
            => slots[s].ts < slots[t].ts

\* The record being appended is stamped after the others; once it is placed
\* its slot holds it.
RecInv ==
    Appending =>
        /\ rec \in Record /\ rec.seq = widx /\ rec.ts > 0 /\ rec.ts <= clock
        /\ \A s \in Slot : slots[s].seq < widx => slots[s].ts < rec.ts
        /\ pc \in {"placed", "indexed"} => At(slots, widx) = rec

\* OnlyOldestAtRisk without its hypothesis.
IndexedInv ==
    \A l \in Live(hdr) : l # hdr - Cap => At(slots, l).seq = l

RingInv == Orderly => IndexInv /\ SlotInv /\ OrderInv /\ RecInv /\ IndexedInv

\* What a start counts in: the one record placed and not indexed, if there is.
LEMMA RecoverCount ==
    ASSUME TypeOK, Orderly, RingInv, hdr \in Nat, pc \in {"down", "mapped"}
    PROVE  count_unindexed(hdr, slots, clock) = IF At(slots, hdr).seq = hdr THEN 1 ELSE 0
<1> DEFINE Run(n) == UnindexedRun(hdr, slots, clock, n)
           S == {n \in 1 .. Cap : Run(n)}
<1> USE RingAssumption
<1>1. hdr % Cap \in Slot /\ (hdr + 1) % Cap \in Slot /\ (hdr - 1) % Cap \in Slot
  <2>1. hdr \in Int /\ hdr + 1 \in Int /\ hdr - 1 \in Int
    OBVIOUS
  <2> QED
    BY <2>1, SlotOf, Zenon
<1>2. \A s \in Slot : slots[s] \in Content
  BY Zenon DEF TypeOK
<1>3. hdr > 0 => /\ At(slots, hdr - 1) # Unreadable
                 /\ At(slots, hdr - 1).seq = hdr - 1
                 /\ PrevTs(hdr, slots) = At(slots, hdr - 1).ts
  <2> SUFFICES ASSUME hdr > 0
               PROVE  /\ At(slots, hdr - 1) # Unreadable
                      /\ At(slots, hdr - 1).seq = hdr - 1
                      /\ PrevTs(hdr, slots) = At(slots, hdr - 1).ts
    BY Zenon
  <2> DEFINE R == {l \in Live(hdr) : At(slots, l) # Unreadable}
  <2>1. At(slots, hdr - 1).seq = hdr - 1
    BY DEF RingInv, IndexedInv, Live
  <2>2. At(slots, hdr - 1) # Unreadable
    BY <2>1 DEF Unreadable
  <2>3. hdr - 1 \in R /\ \A l \in R : l \in Int /\ l <= hdr - 1
    BY <2>2 DEF Live
  <2>4. Max(R) = hdr - 1
    <3>1. \A y \in R : hdr - 1 >= y
      BY <2>3, Zenon
    <3>2. Max(R) \in R /\ \A y \in R : Max(R) >= y
      BY <2>3, <3>1, Zenon DEF Max
    <3> QED
      BY <2>3, <3>2
  <2> QED
    BY <2>1, <2>2, <2>3, <2>4, Zenon DEF PrevTs
<1>4. hdr = 0 => PrevTs(hdr, slots) = 0
  BY DEF PrevTs, Live
<1>5. CASE At(slots, hdr).seq = hdr
  <2>1. At(slots, hdr) # Unreadable
    BY <1>5 DEF Unreadable
  <2>2. Run(1)
    <3>1. At(slots, hdr).ts > 0 /\ At(slots, hdr).ts <= clock
      BY <2>1, <1>1, Zenon DEF RingInv, SlotInv, At
    <3>2. At(slots, hdr).ts > PrevTs(hdr, slots)
      <4>1. CASE hdr = 0
        BY <4>1, <3>1, <1>4, Zenon
      <4>2. CASE hdr > 0
        <5>1. At(slots, hdr - 1).ts < At(slots, hdr).ts
          BY <4>2, <1>1, <1>3, <1>5, <2>1 DEF RingInv, OrderInv, At
        <5> QED
          BY <5>1, <4>2, <1>1, <1>2, <1>3, Zenon DEF At, Content, Record, Unreadable
      <4> QED
        BY <4>1, <4>2
    <3> QED
      BY <2>1, <3>1, <3>2 DEF UnindexedRun
  <2>3. ASSUME NEW n \in 2 .. Cap
        PROVE  ~Run(n)
    <3> SUFFICES ASSUME At(slots, hdr + 1) # Unreadable,
                        At(slots, hdr + 1).ts > At(slots, hdr).ts
                 PROVE  FALSE
      <4>1. 1 \in 0 .. n - 1
        OBVIOUS
      <4> QED
        BY <4>1 DEF UnindexedRun
    <3> DEFINE next == At(slots, hdr + 1)
    <3>1. next.seq % Cap = (hdr + 1) % Cap /\ next.seq <= hdr /\ next.seq \in Nat
      BY <1>1, <1>2 DEF RingInv, SlotInv, At, Content, Record
    <3>2. next.seq # hdr
      BY <3>1, ModWindow
    <3>3. next.ts < At(slots, hdr).ts
      BY <3>1, <3>2, <1>1, <1>5, <2>1 DEF RingInv, OrderInv, At
    <3> QED
      BY <3>3, <1>1, <1>2 DEF At, Content, Record, Unreadable
  <2>4. S = {1}
    BY <2>2, <2>3
  <2> QED
    BY <2>4, <1>5, FS_Singleton, Zenon DEF count_unindexed
<1>6. CASE At(slots, hdr).seq # hdr
  <2>1. ASSUME NEW n \in 1 .. Cap
        PROVE  ~Run(n)
    <3> SUFFICES ASSUME At(slots, hdr) # Unreadable,
                        At(slots, hdr).ts > PrevTs(hdr, slots)
                 PROVE  FALSE
      <4>1. 0 \in 0 .. n - 1
        OBVIOUS
      <4> QED
        BY <4>1 DEF UnindexedRun
    <3> DEFINE old == At(slots, hdr)
    <3>1. old.seq < hdr /\ old.seq \in Nat /\ old.seq % Cap = hdr % Cap
      BY <1>1, <1>2, <1>6, Zenon DEF RingInv, SlotInv, At, Content, Record
    <3>2. old.seq # hdr - 1
      <4> SUFFICES ASSUME (hdr - 1) % Cap = hdr % Cap
                   PROVE  FALSE
        BY <3>1, Zenon
      <4> QED
        BY ModWindow
    <3>3. old.ts < At(slots, hdr - 1).ts
      <4>1. old.seq < At(slots, hdr - 1).seq
        BY <3>1, <3>2, <1>3
      <4> QED
        BY <4>1, <3>1, <1>1, <1>3 DEF RingInv, OrderInv, At
    <3> QED
      BY <3>1, <3>3, <1>1, <1>2, <1>3 DEF At, Content, Record, Unreadable
  <2>2. S = {}
    BY <2>1, Zenon
  <2> QED
    BY <2>2, <1>6, FS_EmptySet, Zenon DEF count_unindexed
<1> QED
  BY <1>5, <1>6, Zenon

\* A slot written at index hdr belongs to no indexed record but the oldest.
LEMMA SlotIsFree ==
    ASSUME hdr \in Nat, NEW l \in Live(hdr), l # hdr - Cap
    PROVE  l % Cap # hdr % Cap
BY RingAssumption, ModWindow DEF Live

\* Nothing a lap behind the index is left once the slot holds the record at
\* the index.
LEMMA LapIsOver ==
    ASSUME TypeOK, SlotInv, hdr \in Nat, At(slots, hdr).seq = hdr,
           NEW s \in Slot, slots[s] # Unreadable
    PROVE  slots[s].seq > hdr - Cap
<1>1. slots[s].seq \in Nat /\ slots[s].seq % Cap = s /\ slots[s].seq >= hdr - Cap
  BY Zenon DEF TypeOK, Content, Record, SlotInv
<1>2. ASSUME slots[s].seq = hdr - Cap
      PROVE  FALSE
  <2>1. s = hdr % Cap
    BY <1>1, <1>2, RingAssumption, ModLap
  <2> QED
    BY <1>2, <2>1, RingAssumption DEF At
<1> QED
  BY <1>1, <1>2, RingAssumption

\* One more record is indexed, the one already in its slot.
LEMMA IndexOneMore ==
    ASSUME TypeOK, SlotInv, IndexedInv, hdr \in Nat, At(slots, hdr).seq = hdr,
           hdr' = hdr + 1, slots' = slots, clock' = clock
    PROVE  SlotInv' /\ IndexedInv'
<1>1. SlotInv'
  <2> SUFFICES ASSUME NEW s \in Slot, slots[s] # Unreadable
               PROVE  /\ slots[s].seq % Cap = s
                      /\ slots[s].seq >= hdr' - Cap
                      /\ slots[s].seq < hdr'
                      /\ slots[s].ts > 0 /\ slots[s].ts <= clock
    BY Zenon DEF SlotInv
  <2>1. slots[s].seq > hdr - Cap
    BY LapIsOver, Zenon
  <2>2. slots[s].seq \in Nat
    BY Zenon DEF TypeOK, Content, Record
  <2> QED
    BY <2>1, <2>2, RingAssumption DEF SlotInv
<1>2. IndexedInv'
  <2> SUFFICES ASSUME NEW l \in Live(hdr)', l # hdr' - Cap
               PROVE  At(slots, l)'.seq = l
    BY Zenon DEF IndexedInv
  <2>0. l \in 0 .. hdr /\ l >= hdr + 1 - Cap /\ l # hdr + 1 - Cap
    BY RingAssumption DEF Live
  <2>1. CASE l = hdr
    BY <2>1, Zenon DEF At
  <2>2. CASE l # hdr
    <3>1. l \in Live(hdr) /\ l # hdr - Cap
      BY <2>0, <2>2, RingAssumption DEF Live
    <3> QED
      BY <3>1, Zenon DEF IndexedInv, At
  <2> QED
    BY <2>1, <2>2, Zenon
<1> QED
  BY <1>1, <1>2, Zenon

\* No step of the ring, the process killed or restarted included, leaves the
\* invariant.
LEMMA RingStep ==
    ASSUME TypeOK, RingInv, [Next]_vars
    PROVE  RingInv'
<1> SUFFICES ASSUME Orderly'
             PROVE  (IndexInv /\ SlotInv /\ OrderInv /\ RecInv /\ IndexedInv)'
  BY Zenon DEF RingInv
<1> USE RingAssumption
<1>a. Orderly /\ ~PowerLoss /\ ~ClockStepsBack
  <2>1. PowerLoss => losses' > 0
    BY DEF PowerLoss, TypeOK
  <2>2. ClockStepsBack => backs' > 0
    BY DEF ClockStepsBack, TypeOK
  <2>3. ~PowerLoss /\ ~ClockStepsBack
    BY <2>1, <2>2 DEF Orderly
  <2>4. UNCHANGED <<backs, losses>>
    BY <2>3, Zenon DEF Next, vars, env, OpenExisting, OpenFresh, WriteHeader, HeaderFails, Recover,
        FsckRepair, AppendBegin, PwriteStarts, PwriteDone, PwriteFails, StoreHeaderIndex,
        StoreWriteIndex, Stop, WritebackHeader, WritebackSlot, ClockAdvances
  <2> QED
    BY <2>3, <2>4, Zenon DEF Orderly
<1>b. IndexInv /\ SlotInv /\ OrderInv /\ RecInv /\ IndexedInv
  BY <1>a, Zenon DEF RingInv
<1>c. \A s \in Slot : slots[s] \in Content
  BY Zenon DEF TypeOK
<1>1. CASE OpenExisting
  BY <1>1, <1>b, Zenon DEF OpenExisting, IndexInv, SlotInv, OrderInv, RecInv, IndexedInv, Appending,
                    At, file, disk, env
<1>2. CASE OpenFresh
  BY <1>2, <1>b, <1>c DEF OpenFresh, IndexInv, SlotInv, OrderInv, RecInv, IndexedInv, Appending,
                    At, Live, disk, env, BlankHdr, NoFile, TypeOK, Content, Record
<1>3. CASE WriteHeader
  BY <1>3, <1>b, <1>c DEF WriteHeader, IndexInv, SlotInv, OrderInv, RecInv, IndexedInv, Appending,
                    At, Live, disk, env, BlankHdr, NoFile, TypeOK, Content, Record
<1>4. CASE HeaderFails
  BY <1>4, <1>b DEF HeaderFails, IndexInv, SlotInv, OrderInv, RecInv, IndexedInv, Appending,
                    At, Live, disk, env, NoRecords, NoFile
<1>5. CASE Recover
  <2>1. hdr \in Nat /\ ~Appending /\ ~Appending' /\ pc' = "idle" /\ slots' = slots /\ clock' = clock
    BY <1>5, Zenon DEF Recover, Appending, TypeOK, env
  <2>2. IndexInv' /\ RecInv' /\ OrderInv'
    BY <1>5, <1>b, <2>1, Zenon DEF Recover, IndexInv, RecInv, OrderInv, env, Appending
  <2>3. CASE At(slots, hdr).seq = hdr
    <3>1. hdr' = hdr + 1
      BY <1>5, <1>a, <2>1, <2>3, RecoverCount, Zenon DEF Recover
    <3> QED
      BY <1>b, <2>1, <2>2, <2>3, <3>1, IndexOneMore, Zenon
  <2>4. CASE At(slots, hdr).seq # hdr
    <3>1. hdr' = hdr
      BY <1>5, <1>a, <2>1, <2>4, RecoverCount DEF Recover
    <3>2. SlotInv'
      BY <1>b, <1>c, <2>1, <2>4, <3>1, Zenon DEF SlotInv, At, Content, Record
    <3>3. IndexedInv'
      BY <1>b, <2>1, <3>1, Zenon DEF IndexedInv, At
    <3> QED
      BY <2>2, <3>2, <3>3, Zenon
  <2> QED
    BY <2>3, <2>4, Zenon
<1>6. CASE FsckRepair
  <2>1. hdr \in Nat /\ pc = "down" /\ UNCHANGED <<pc, widx, begun, rec, slots, clock>>
    BY <1>6 DEF FsckRepair, TypeOK, NoFile, BlankHdr, proc, env
  <2>2. IndexInv' /\ RecInv' /\ OrderInv'
    BY <1>b, <2>1, Zenon DEF IndexInv, RecInv, OrderInv, Appending
  <2>3. CASE At(slots, hdr).seq = hdr
    <3>1. hdr' = hdr + 1
      BY <1>6, <1>a, <2>1, <2>3, RecoverCount, Zenon DEF FsckRepair
    <3> QED
      BY <1>b, <2>1, <2>2, <2>3, <3>1, IndexOneMore, Zenon
  <2>4. CASE At(slots, hdr).seq # hdr
    <3>1. hdr' = hdr
      BY <1>6, <1>a, <2>1, <2>4, RecoverCount DEF FsckRepair
    <3>2. SlotInv' /\ IndexedInv'
      BY <1>b, <2>1, <3>1, Zenon DEF SlotInv, IndexedInv, At
    <3> QED
      BY <2>2, <3>2, Zenon
  <2> QED
    BY <2>3, <2>4, Zenon
<1>7. CASE AppendBegin
  <2>1. /\ hdr = widx /\ hdr' = hdr /\ widx' = widx /\ slots' = slots /\ clock' = clock + 1
        /\ rec' = [seq |-> widx, ts |-> clock + 1] /\ begun' = widx + 1 /\ pc = "idle" /\ pc' = "begun"
    BY <1>7, <1>b, Zenon DEF AppendBegin, IndexInv, file
  <2>2. IndexInv' /\ OrderInv' /\ IndexedInv'
    BY <1>b, <2>1, Zenon DEF IndexInv, OrderInv, IndexedInv, At, Appending
  <2>3. SlotInv'
    BY <1>b, <1>c, <2>1 DEF SlotInv, TypeOK, Content, Record
  <2>4. RecInv'
    <3>1. ASSUME NEW s \in Slot
          PROVE  slots[s].ts < clock + 1
      BY <1>b, <1>c, <3>1 DEF SlotInv, TypeOK, Content, Record, Unreadable
    <3> QED
      BY <2>1, <3>1 DEF RecInv, TypeOK, Record
  <2> QED
    BY <2>2, <2>3, <2>4, Zenon
<1>8. CASE PwriteStarts
  <2>1. /\ hdr \in Nat /\ hdr = widx /\ hdr' = hdr /\ widx' = widx /\ clock' = clock /\ rec' = rec
        /\ begun' = begun /\ pc = "begun" /\ pc' = "writing"
        /\ slots' = [slots EXCEPT ![hdr % Cap] = Unreadable]
    BY <1>8, <1>b, Zenon DEF PwriteStarts, IndexInv, env, TypeOK
  <2>2. /\ slots \in [Slot -> Content] /\ hdr % Cap \in Slot
        /\ \A s \in Slot : slots'[s] = IF s = hdr % Cap THEN Unreadable ELSE slots[s]
    BY <2>1, SlotOf, SMTT(30) DEF TypeOK
  <2>3. IndexInv'
    BY <1>b, <2>1, Zenon DEF IndexInv, Appending
  <2>4. SlotInv'
    BY <1>b, <2>1, <2>2, Zenon DEF SlotInv
  <2>5. OrderInv'
    BY <1>b, <2>2, Zenon DEF OrderInv
  <2>6. RecInv'
    BY <1>b, <2>1, <2>2, Zenon DEF RecInv, Appending, Unreadable, Record
  <2>7. IndexedInv'
    <3> SUFFICES ASSUME NEW l \in Live(hdr), l # hdr - Cap
                 PROVE  slots'[l % Cap].seq = l
      BY <2>1, Zenon DEF IndexedInv, At
    <3>1. l % Cap # hdr % Cap
      BY <2>1, SlotIsFree, Zenon
    <3>2. l \in Int
      BY DEF Live
    <3> QED
      BY <1>b, <2>2, <3>1, <3>2, SlotOf, Zenon DEF IndexedInv, At
  <2> QED
    BY <2>3, <2>4, <2>5, <2>6, <2>7, Zenon
<1>9. CASE PwriteDone
  <2>1. /\ hdr \in Nat /\ hdr = widx /\ hdr' = hdr /\ widx' = widx /\ clock' = clock /\ rec' = rec
        /\ begun' = begun /\ pc = "writing" /\ pc' = "placed"
        /\ slots' = [slots EXCEPT ![hdr % Cap] = rec]
    BY <1>9, <1>b, Zenon DEF PwriteDone, IndexInv, env, TypeOK
  <2>2. /\ slots \in [Slot -> Content] /\ hdr % Cap \in Slot
        /\ \A s \in Slot : slots'[s] = IF s = hdr % Cap THEN rec ELSE slots[s]
    BY <2>1, SlotOf DEF TypeOK
  <2>3. /\ rec \in Record /\ rec.seq = hdr /\ rec.ts > 0 /\ rec.ts <= clock
        /\ \A s \in Slot : slots[s].seq < hdr => slots[s].ts < rec.ts
    BY <1>b, <2>1, Zenon DEF RecInv, Appending
  <2>4. \A s \in Slot : slots[s] # Unreadable => slots[s].seq < hdr
    BY <1>b, <2>1, Zenon DEF SlotInv
  <2>5. IndexInv'
    BY <1>b, <2>1, Zenon DEF IndexInv, Appending
  <2>6. SlotInv'
    BY <1>b, <2>1, <2>2, <2>3 DEF SlotInv, Record
  <2>7. OrderInv'
    <3> SUFFICES ASSUME NEW s \in Slot, NEW t \in Slot,
                        slots'[s] # Unreadable, slots'[t] # Unreadable,
                        slots'[s].seq < slots'[t].seq
                 PROVE  slots'[s].ts < slots'[t].ts
      BY Zenon DEF OrderInv
    <3>1. CASE s = hdr % Cap
      BY <1>c, <2>1, <2>2, <2>3, <2>4, <3>1 DEF Record, Content
    <3>2. CASE s # hdr % Cap /\ t = hdr % Cap
      BY <2>2, <2>3, <2>4, <3>2, Zenon
    <3>3. CASE s # hdr % Cap /\ t # hdr % Cap
      BY <1>b, <2>2, <3>3, Zenon DEF OrderInv
    <3> QED
      BY <3>1, <3>2, <3>3, Zenon
  <2>8. RecInv'
    BY <2>1, <2>2, <2>3 DEF RecInv, At, Record
  <2>9. IndexedInv'
    <3> SUFFICES ASSUME NEW l \in Live(hdr), l # hdr - Cap
                 PROVE  slots'[l % Cap].seq = l
      BY <2>1, Zenon DEF IndexedInv, At
    <3>1. l % Cap # hdr % Cap
      BY <2>1, SlotIsFree, Zenon
    <3>2. l \in Int
      BY DEF Live
    <3> QED
      BY <1>b, <2>2, <3>1, <3>2, SlotOf, Zenon DEF IndexedInv, At
  <2> QED
    BY <2>5, <2>6, <2>7, <2>8, <2>9, Zenon
<1>10. CASE PwriteFails
  BY <1>10, <1>b, Zenon DEF PwriteFails, IndexInv, SlotInv, OrderInv, RecInv, IndexedInv, Appending,
                     At, file, disk, env
<1>11. CASE StoreHeaderIndex
  <2>1. /\ hdr \in Nat /\ hdr = widx /\ hdr' = hdr + 1 /\ slots' = slots /\ clock' = clock
        /\ UNCHANGED <<widx, begun, rec>> /\ pc = "placed" /\ pc' = "indexed"
    BY <1>11, <1>b, Zenon DEF StoreHeaderIndex, IndexInv, env, TypeOK
  <2>2. At(slots, hdr).seq = hdr
    BY <1>b, <2>1, Zenon DEF RecInv, Appending
  <2>3. SlotInv' /\ IndexedInv'
    BY <1>b, <2>1, <2>2, IndexOneMore, Zenon
  <2>4. IndexInv' /\ OrderInv' /\ RecInv'
    BY <1>b, <2>1, SMTT(30) DEF IndexInv, OrderInv, RecInv, Appending, At
  <2> QED
    BY <2>3, <2>4, Zenon
<1>12. CASE StoreWriteIndex
  BY <1>12, <1>b, SMTT(30) DEF StoreWriteIndex, IndexInv, SlotInv, OrderInv, RecInv, IndexedInv, Appending,
                     At, file, disk, env, TypeOK
<1>13. CASE Stop
  BY <1>13, <1>b, SMTT(30) DEF Stop, IndexInv, SlotInv, OrderInv, RecInv, IndexedInv, Appending,
                     At, file, disk, env, BlankHdr, TypeOK
<1>14. CASE WritebackHeader \/ \E s \in Slot : WritebackSlot(s)
  BY <1>14, <1>b DEF WritebackHeader, WritebackSlot, IndexInv, SlotInv, OrderInv, RecInv,
                     IndexedInv, Appending, At, file, proc, env
<1>15. CASE ClockAdvances
  <2>1. UNCHANGED <<file, proc>> /\ clock' = clock + 1
    BY <1>15, Zenon DEF ClockAdvances
  <2>2. IndexInv' /\ OrderInv' /\ IndexedInv'
    BY <1>b, <2>1, Zenon DEF IndexInv, OrderInv, IndexedInv, Appending, At, file, proc
  <2>3. SlotInv'
    BY <1>b, <1>c, <2>1 DEF SlotInv, file, proc, TypeOK, Content, Record
  <2>4. RecInv'
    BY <1>b, <2>1, SMTT(30) DEF RecInv, Appending, At, file, proc, TypeOK, Record
  <2> QED
    BY <2>2, <2>3, <2>4, Zenon
<1>16. CASE UNCHANGED vars
  BY <1>16, <1>b, Zenon DEF IndexInv, SlotInv, OrderInv, RecInv, IndexedInv, Appending,
                     At, vars, file, proc, env
<1> QED
  BY <1>a, <1>1, <1>2, <1>3, <1>4, <1>5, <1>6, <1>7, <1>8, <1>9, <1>10, <1>11, <1>12, <1>13,
     <1>14, <1>15, <1>16 DEF Next

\* The ring's safety invariant holds of every behaviour of the ring.
THEOREM RingInvariant == Spec => []RingInv
<1>1. Init => RingInv
  BY RingAssumption DEF Init, RingInv, IndexInv, SlotInv, OrderInv, RecInv, IndexedInv, Appending,
     Live, NoRecords, NoFile, BlankHdr
<1>2. TypeOK /\ RingInv /\ [Next]_vars => RingInv'
  BY RingStep, Zenon
<1> QED
  BY <1>1, <1>2, TypeCorrect, PTL DEF Spec

\* append() places a record before it counts it: however the process is
\* killed, no index but the oldest of a full ring loses its record.
THEOREM KillLosesOnlyOldest == Spec => []OnlyOldestAtRisk
<1>1. RingInv => OnlyOldestAtRisk
  BY Zenon DEF RingInv, IndexedInv, OnlyOldestAtRisk
<1> QED
  BY <1>1, RingInvariant, PTL

\* TierManager::recover() counts in whatever the last process placed and did
\* not index: the daemon never runs with a record past its write index.
THEOREM RestartLeavesNothingOut == Spec => []NothingLeftOut
<1>1. TypeOK /\ RingInv => NothingLeftOut
  BY DEF RingInv, IndexInv, SlotInv, NothingLeftOut, TypeOK, Unreadable
<1> QED
  BY <1>1, RingInvariant, TypeCorrect, PTL

-----------------------------------------------------------------------------
(* The ring implements the bounded log.                                    *)

\* The records in the slots, those at or past index h left out.
Kept(h, ss) == {ss[s] : s \in {t \in Slot : ss[t] # Unreadable /\ ss[t].seq < h}}

InOwnSlot(h, ss) ==
    \A s \in Slot : ss[s] # Unreadable => ss[s].seq % Cap = s /\ ss[s].seq >= h - Cap

\* What a reader sees by walking the indexes is what the slots hold.
LEMMA HeldIsKept ==
    ASSUME NEW h \in Int, NEW ss \in [Slot -> Content], InOwnSlot(h, ss)
    PROVE  {At(ss, l) : l \in {m \in Live(h) : At(ss, m).seq = m}} = Kept(h, ss)
<1> DEFINE L == {m \in Live(h) : At(ss, m).seq = m}
<1>1. ASSUME NEW l \in L
      PROVE  At(ss, l) \in Kept(h, ss)
  <2>1. l \in Nat /\ l < h /\ At(ss, l).seq = l /\ l % Cap \in Slot
    BY SlotOf, RingAssumption DEF Live
  <2>2. At(ss, l) # Unreadable
    BY <2>1 DEF Unreadable
  <2> QED
    BY <2>1, <2>2, Zenon DEF Kept, At
<1>2. ASSUME NEW s \in Slot, ss[s] # Unreadable, ss[s].seq < h
      PROVE  \E l \in L : ss[s] = At(ss, l)
  <2>1. ss[s].seq \in Nat /\ ss[s].seq % Cap = s /\ ss[s].seq >= h - Cap
    BY <1>2, Zenon DEF InOwnSlot, Content, Record
  <2>2. ss[s].seq \in Live(h) /\ At(ss, ss[s].seq) = ss[s]
    BY <1>2, <2>1, RingAssumption DEF Live, At
  <2> QED
    BY <2>2, Zenon
<1> QED
  BY <1>1, <1>2, Zenon DEF Kept

\* Indexing the record placed at the index appends it to the log.
LEMMA IndexingAppends ==
    ASSUME TypeOK, TypeOK', Orderly, Orderly', RingInv, RingInv', hdr \in Nat, At(slots, hdr).seq = hdr,
           hdr' = hdr + 1, slots' = slots
    PROVE  Log!Append
<1> USE RingAssumption
<1> DEFINE r == At(slots, hdr)
<1>1. /\ hdr % Cap \in Slot /\ r = slots[hdr % Cap] /\ r # Unreadable
      /\ \A s \in Slot : slots[s] \in Content
  BY SlotOf DEF At, Unreadable, TypeOK
<1>2. Held = Kept(hdr, slots) /\ Held' = Kept(hdr + 1, slots)
  <2>1. InOwnSlot(hdr, slots) /\ InOwnSlot(hdr + 1, slots)
    BY Zenon DEF RingInv, SlotInv, InOwnSlot
  <2> QED
    BY <2>1, HeldIsKept DEF Held, TypeOK
<1>3. Held' = Held \cup {r}
  <2>1. ASSUME NEW s \in Slot, slots[s] # Unreadable, slots[s].seq = hdr
        PROVE  slots[s] = r
    BY <2>1, <1>1, Zenon DEF RingInv, SlotInv
  <2>2. \A s \in Slot : slots[s] # Unreadable => slots[s].seq \in Nat
    BY <1>1, Zenon DEF Content, Record
  <2>3. ASSUME NEW x
        PROVE  x \in Kept(hdr + 1, slots) <=> x \in Kept(hdr, slots) \/ x = r
    BY <1>1, <2>1, <2>2 DEF Kept
  <2> QED
    BY <1>2, <2>3, Zenon
<1>4. \A h \in Held : h.seq > hdr - Cap
  BY <1>2, LapIsOver, Zenon DEF Kept, RingInv
<1>5. \A h \in Held : h.ts < r.ts
  BY <1>1, <1>2, Zenon DEF Kept, RingInv, OrderInv
<1>6. {h \in Held : h.seq > hdr - Cap} = Held
  BY <1>4, Zenon
<1>7. r.seq = hdr /\ r \in Held'
  BY <1>3, Zenon
<1> QED
  BY <1>3, <1>5, <1>6, <1>7 DEF Log!Append, Log!Younger

\* Writing into the slot at the index gives up the oldest record, if anything.
LEMMA WritingMakesRoom ==
    ASSUME TypeOK, TypeOK', Orderly, Orderly', RingInv, RingInv', hdr \in Nat, hdr' = hdr,
           NEW c, c = Unreadable \/ c.seq = hdr,
           slots' = [slots EXCEPT ![hdr % Cap] = c]
    PROVE  Log!MakeRoom
<1> USE RingAssumption
<1>1. /\ hdr % Cap \in Slot
      /\ \A s \in Slot : slots[s] \in Content
      /\ \A s \in Slot : slots'[s] = IF s = hdr % Cap THEN c ELSE slots[s]
  BY SlotOf DEF TypeOK
<1>2. Held = Kept(hdr, slots) /\ Held' = Kept(hdr, slots')
  <2>1. InOwnSlot(hdr, slots) /\ InOwnSlot(hdr, slots')
    BY Zenon DEF RingInv, SlotInv, InOwnSlot
  <2>2. Held = Kept(hdr, slots)
    BY <2>1, HeldIsKept DEF Held, TypeOK
  <2>3. slots' \in [Slot -> Content]
    BY Zenon DEF TypeOK
  <2>4. Held' = {At(slots', l) : l \in {m \in Live(hdr) : At(slots', m).seq = m}}
    BY Zenon DEF Held
  <2>5. Held' = Kept(hdr, slots')
    <3>1. hdr \in Int
      OBVIOUS
    <3> QED
      BY <2>1, <2>3, <2>4, <3>1, HeldIsKept, Zenon
  <2> QED
    BY <2>2, <2>5, Zenon
<1>3. ASSUME NEW s \in Slot, slots[s] # Unreadable, slots[s].seq < hdr
      PROVE  slots[s].seq > hdr - Cap <=> s # hdr % Cap
  <2>1. slots[s].seq \in Nat /\ slots[s].seq % Cap = s /\ slots[s].seq >= hdr - Cap
    BY <1>1, <1>3, Zenon DEF RingInv, SlotInv, Content, Record
  <2>2. ASSUME slots[s].seq = hdr - Cap
        PROVE  s = hdr % Cap
    BY <2>1, <2>2, ModLap
  <2>3. ASSUME slots[s].seq > hdr - Cap, s = hdr % Cap
        PROVE  FALSE
    BY <1>3, <2>1, <2>3, ModWindow
  <2> QED
    BY <2>1, <2>2, <2>3
<1>4. ASSUME NEW x
      PROVE  x \in Kept(hdr, slots') <=> x \in Kept(hdr, slots) /\ x.seq > hdr - Cap
  BY <1>1, <1>3 DEF Kept
<1>5. Held' = {h \in Held : h.seq > hdr - Cap}
  BY <1>2, <1>4, ZenonT(60)
<1> QED
  BY <1>5 DEF Log!MakeRoom, Log!Younger

\* With no power loss and no clock step, the ring with its writer killed and
\* restarted at any point, and its writes failing at any point, is the log.
THEOREM RingImplementsLog ==
    ASSUME MaxBack = 0, MaxLoss = 0
    PROVE  Spec => ImplementsLog
<1> USE RingAssumption
<1>1. Init => Log!Init
  BY DEF Init, Log!Init, Held, Live, NoFile
<1>2. TypeOK /\ TypeOK' /\ RingInv /\ RingInv' /\ Orderly /\ Orderly' /\ [Next]_vars
      => [Log!Next]_Log!vars
  <2> SUFFICES ASSUME TypeOK, TypeOK', RingInv, RingInv', Orderly, Orderly', [Next]_vars
               PROVE  Log!MakeRoom \/ Log!Append \/ UNCHANGED Log!vars
    BY Zenon DEF Log!Next
  <2>1. CASE UNCHANGED <<hdr, slots>>
    BY <2>1, Zenon DEF Log!vars, Held, At
  <2>2. CASE OpenFresh \/ WriteHeader \/ HeaderFails
    <3>1. Live(hdr) = {} /\ Live(hdr)' = {}
      BY <2>2 DEF OpenFresh, WriteHeader, HeaderFails, Live, RingInv, IndexInv, BlankHdr, NoFile, TypeOK
    <3>2. Held = {} /\ Held' = {}
      BY <3>1, Zenon DEF Held
    <3>3. (IF hdr < 0 THEN 0 ELSE hdr)' = IF hdr < 0 THEN 0 ELSE hdr
      BY <2>2 DEF OpenFresh, WriteHeader, HeaderFails, RingInv, IndexInv, BlankHdr, NoFile
    <3> QED
      BY <3>2, <3>3, Zenon DEF Log!vars
  <2>3. CASE Recover \/ FsckRepair
    <3>1. hdr \in Nat /\ pc \in {"down", "mapped"} /\ slots' = slots
          /\ hdr' = hdr + count_unindexed(hdr, slots, clock)
      BY <2>3 DEF Recover, FsckRepair, TypeOK, NoFile, BlankHdr
    <3>2. CASE At(slots, hdr).seq = hdr
      BY <3>1, <3>2, RecoverCount, IndexingAppends, Zenon
    <3>3. CASE At(slots, hdr).seq # hdr
      BY <3>1, <3>3, <2>1, RecoverCount, SMTT(30)
    <3> QED
      BY <3>2, <3>3, Zenon
  <2>4. CASE PwriteStarts
    BY <2>4, WritingMakesRoom, Zenon DEF PwriteStarts, RingInv, IndexInv, TypeOK
  <2>5. CASE PwriteDone
    BY <2>5, WritingMakesRoom, Zenon DEF PwriteDone, RingInv, IndexInv, RecInv, Appending, TypeOK
  <2>6. CASE StoreHeaderIndex
    BY <2>6, IndexingAppends, Zenon DEF StoreHeaderIndex, RingInv, IndexInv, RecInv, Appending, TypeOK
  <2> QED
    BY <2>1, <2>2, <2>3, <2>4, <2>5, <2>6 DEF Next, vars, file, OpenExisting, AppendBegin, PwriteFails,
       StoreWriteIndex, Stop, WritebackHeader, WritebackSlot, PowerLoss, ClockAdvances,
       ClockStepsBack, Orderly, TypeOK
<1>3. Spec => []Orderly
  <2>1. Init => Orderly
    BY SMTT(30) DEF Init, Orderly
  <2>2. TypeOK /\ Orderly /\ [Next]_vars => Orderly'
    BY DEF Orderly, Next, vars, env, OpenExisting, OpenFresh, WriteHeader, HeaderFails, Recover,
        FsckRepair, AppendBegin, PwriteStarts, PwriteDone, PwriteFails, StoreHeaderIndex,
        StoreWriteIndex, Stop, PowerLoss, WritebackHeader, WritebackSlot, ClockAdvances, ClockStepsBack
  <2> QED
    BY <2>1, <2>2, TypeCorrect, PTL DEF Spec
<1> QED
  BY <1>1, <1>2, <1>3, TypeCorrect, RingInvariant, PTL DEF Spec, ImplementsLog, Log!Spec

(* The inductive invariant.                                                *)

\* Every record the ring still has from before r is stamped before r.
Newest(r) ==
    \A s \in Slot : slots[s] # Unreadable /\ slots[s].seq < r.seq => slots[s].ts < r.ts

\* The writer has placed a later record in the slot of l, and shows it.
Overwritten(l) ==
    widx > l + Cap \/ (widx = l + Cap /\ pc \in {"placed", "indexed"})

\* The slots the writer will not touch before its index moves hold what was
\* appended there, between the two stores of the index too.
SettledInv ==
    Running => \A l \in Live(widx) : l # widx - Cap => At(slots, l).seq = l

\* The walk, whatever the writer has done since it began.
WalkInv ==
    /\ qpc = "none" => newest_first = <<>>
    /\ qpc # "none" =>
          /\ Running /\ qwidx <= widx
          /\ \A i \in 1 .. Len(newest_first) :
                /\ newest_first[i].seq < qwidx /\ newest_first[i].seq > logical
                /\ Newest(newest_first[i])
          /\ \A i, j \in 1 .. Len(newest_first) :
                i < j => /\ newest_first[i].seq > newest_first[j].seq
                         /\ newest_first[i].ts > newest_first[j].ts

\* The slot in the buffer.
BufferInv ==
    qpc = "read" =>
        /\ \/ buf = Unreadable \/ Overwritten(logical)
           \/ /\ buf.seq = logical /\ buf.ts > 0 /\ Newest(buf)
              /\ \A i \in 1 .. Len(newest_first) : buf.ts < newest_first[i].ts
        /\ logical > widx - Cap => buf = At(slots, logical)
        /\ Len(newest_first) < limit

\* A record of the window that the writer will not touch next is in the result.
Found(l) ==
    l > widx - Cap /\ At(slots, l).ts >= since =>
        \E i \in 1 .. Len(newest_first) : newest_first[i] = At(slots, l)

FoundInv ==
    /\ qpc \in {"walk", "read"} =>
          /\ Len(newest_first) <= limit
          /\ \A l \in Live(qwidx) : l > logical => Found(l)
    /\ qpc = "done" =>
          \A l \in Live(qwidx) :
              \/ Found(l)
              \/ /\ Len(newest_first) = limit
                 /\ \A i \in 1 .. Len(newest_first) : newest_first[i].seq > l

QueryInv == Orderly => SettledInv /\ WalkInv /\ BufferInv /\ FoundInv

-----------------------------------------------------------------------------
\* The ring under a query is the ring of RingFile.
LEMMA RingUnderQuery == QuerySpec => [](TypeOK /\ RingInv)
<1>1. QueryInit => Init
  BY Zenon DEF QueryInit
<1>2. [QueryNext]_qvars => [Next]_vars
  BY Zenon DEF QueryNext, StorageStep, QueryBegin, WalkEnds, ReadSlot, Lapped, SkipTorn, BelowWindow, TakeRecord, qvars
<1>3. QuerySpec => Spec
  BY <1>1, <1>2, PTL DEF QuerySpec, Spec
<1> QED
  BY <1>3, TypeCorrect, RingInvariant, PTL

LEMMA QueryTypeStep ==
    ASSUME TypeOK, QueryTypeOK, [QueryNext]_qvars
    PROVE  QueryTypeOK'
<1> USE RingAssumption, QueryAssumption
<1>t. /\ qpc \in {"none", "walk", "read", "done"}
      /\ since \in Nat /\ limit \in Nat /\ qwidx \in Nat /\ k \in 0 .. Cap
      /\ buf \in Content /\ older_run \in Nat /\ newest_first \in Seq(Record)
      /\ widx \in Nat
      /\ qpc = "read" => logical \in Live(qwidx)
  BY Zenon DEF QueryTypeOK, TypeOK
<1>1. CASE StorageStep
  <2>1. newest_first' \in Seq(Record)
    BY <1>1, <1>t DEF StorageStep
  <2>2. qpc' \in {"none", "walk", "read", "done"} /\ (qpc' = "read" => qpc = "read")
    BY <1>1, <1>t, Zenon DEF StorageStep
  <2> QED
    BY <1>1, <1>t, <2>1, <2>2, Zenon DEF StorageStep, QueryTypeOK, logical
<1>2. CASE QueryBegin
  <2>1. newest_first' \in Seq(Record) /\ buf' \in Content
    BY <1>2 DEF QueryBegin, Content
  <2>2. since' \in Nat /\ limit' \in Nat /\ k' \in 0 .. Cap
    BY <1>2 DEF QueryBegin
  <2> QED
    BY <1>2, <1>t, <2>1, <2>2, Zenon DEF QueryBegin, QueryTypeOK
<1>3. CASE WalkEnds \/ Lapped
  BY <1>3, <1>t, Zenon DEF WalkEnds, Lapped, QueryTypeOK
<1>4. CASE ReadSlot
  <2>1. logical \in Live(qwidx) /\ logical % Cap \in Slot
    BY <1>4, <1>t, SlotOf DEF ReadSlot, logical
  <2>2. buf' \in Content
    BY <1>4, <2>1, Zenon DEF ReadSlot, At, TypeOK
  <2> QED
    BY <1>4, <1>t, <2>1, <2>2, Zenon DEF ReadSlot, QueryTypeOK, logical
<1>5. qpc = "read" => k + 1 \in 0 .. Cap
  BY <1>t DEF logical, Live
<1>6. CASE SkipTorn \/ BelowWindow
  <2>1. /\ k' \in 0 .. Cap /\ qpc' \in {"walk", "done"} /\ older_run' \in Nat
        /\ UNCHANGED <<since, limit, qwidx, buf, newest_first>>
    BY <1>6, <1>t, <1>5 DEF SkipTorn, BelowWindow
  <2> QED
    BY <1>t, <2>1, Zenon DEF QueryTypeOK
<1>7. CASE TakeRecord
  <2>1. /\ k' \in 0 .. Cap /\ qpc' = "walk" /\ older_run' = 0 /\ buf \in Record
        /\ newest_first' = Append(newest_first, buf) /\ UNCHANGED <<since, limit, qwidx, buf>>
    BY <1>7, <1>t, <1>5, Zenon DEF TakeRecord, Content
  <2>2. newest_first' \in Seq(Record)
    BY <1>t, <2>1
  <2> QED
    BY <1>t, <2>1, <2>2, Zenon DEF QueryTypeOK
<1>8. CASE UNCHANGED qvars
  BY <1>8, <1>t, Zenon DEF qvars, query, QueryTypeOK, logical
<1> QED
  BY <1>1, <1>2, <1>3, <1>4, <1>6, <1>7, <1>8, Zenon DEF QueryNext

\* The walk reads only indexes of the ring it started from, and takes only
\* what decodes, whatever the ring meets meanwhile.
THEOREM QueryTypeCorrect == QuerySpec => []QueryTypeOK
<1>1. QueryInit => QueryTypeOK
  BY RingAssumption DEF QueryInit, QueryTypeOK, Content
<1>2. TypeOK /\ QueryTypeOK /\ [QueryNext]_qvars => QueryTypeOK'
  BY QueryTypeStep, Zenon
<1> QED
  BY <1>1, <1>2, RingUnderQuery, PTL DEF QuerySpec

-----------------------------------------------------------------------------
(* What the writer can do under a walk.                                    *)

LEMMA StaysRunning ==
    ASSUME Running, [Next]_vars, pc' # "down"
    PROVE  Running'
BY Zenon DEF Running, Next, vars, proc, OpenExisting, OpenFresh, WriteHeader, HeaderFails, Recover, FsckRepair,
       AppendBegin, PwriteStarts, PwriteDone, PwriteFails, StoreHeaderIndex, StoreWriteIndex, Stop, PowerLoss,
       WritebackHeader, WritebackSlot, ClockAdvances, ClockStepsBack

LEMMA WriterStep ==
    ASSUME TypeOK, RingInv, Orderly, Running, Running', [Next]_vars
    PROVE  /\ widx' = widx \/ widx' = widx + 1
           /\ \A l \in Int : Overwritten(l) => Overwritten(l)'
           /\ \/ slots' = slots
              \/ \E c \in Content : /\ slots' = [slots EXCEPT ![widx % Cap] = c]
                                    /\ c = Unreadable \/ c.seq = widx
<1> USE RingAssumption
<1>t. widx \in Nat /\ Cap \in Nat /\ Unreadable \in Content
  BY Zenon DEF TypeOK, Content
<1>1. CASE AppendBegin \/ PwriteFails
  <2>1. widx' = widx /\ slots' = slots /\ pc \notin {"placed", "indexed"}
    BY <1>1, Zenon DEF AppendBegin, PwriteFails, file
  <2> QED
    BY <1>t, <2>1, Zenon DEF Overwritten
<1>2. CASE PwriteStarts
  BY <1>2, <1>t, Zenon DEF PwriteStarts, Overwritten
<1>3. CASE PwriteDone
  <2>1. rec \in Content /\ rec.seq = widx
    BY <1>3, Zenon DEF PwriteDone, RingInv, RecInv, Appending, TypeOK
  <2> QED
    BY <1>3, <1>t, <2>1, Zenon DEF PwriteDone, Overwritten
<1>4. CASE StoreHeaderIndex
  BY <1>4, <1>t, Zenon DEF StoreHeaderIndex, Overwritten
<1>5. CASE StoreWriteIndex
  BY <1>5, <1>t DEF StoreWriteIndex, Overwritten, file
<1>6. CASE \/ WritebackHeader \/ ClockAdvances \/ ClockStepsBack \/ UNCHANGED vars
           \/ \E s \in Slot : WritebackSlot(s)
  <2>1. UNCHANGED <<pc, widx, slots>>
    BY <1>6, Zenon DEF WritebackHeader, WritebackSlot, ClockAdvances, ClockStepsBack, vars, file, proc
  <2> QED
    BY <2>1, Zenon DEF Overwritten
<1>7. ~(OpenExisting \/ OpenFresh \/ WriteHeader \/ HeaderFails \/ Recover \/ FsckRepair \/ Stop \/ PowerLoss)
  BY Zenon DEF Running, OpenExisting, OpenFresh, WriteHeader, HeaderFails, Recover, FsckRepair, Stop, PowerLoss
<1> QED
  BY <1>1, <1>2, <1>3, <1>4, <1>5, <1>6, <1>7, Zenon DEF Next

\* A slot behind the writer by less than a lap is left alone.
LEMMA SlotKept ==
    ASSUME TypeOK, RingInv, Orderly, Running, Running', [Next]_vars,
           NEW l \in Int, l < widx, l > widx - Cap
    PROVE  At(slots', l) = At(slots, l)
<1>1. CASE slots' = slots
  BY <1>1, Zenon DEF At
<1>2. ASSUME NEW c \in Content, slots' = [slots EXCEPT ![widx % Cap] = c]
      PROVE  At(slots', l) = At(slots, l)
  <2>1. l % Cap # widx % Cap
    BY RingAssumption, ModWindow DEF TypeOK
  <2>2. l % Cap \in Slot
    BY SlotOf, Zenon
  <2> QED
    BY <1>2, <2>1, <2>2, Zenon DEF At, TypeOK
<1> QED
  BY <1>1, <1>2, WriterStep, Zenon

\* What is stamped after all that was appended before it remains so.
LEMMA NewestKept ==
    ASSUME TypeOK, RingInv, Orderly, Running, Running', [Next]_vars,
           NEW r \in Record, r.seq <= widx, Newest(r)
    PROVE  \A s \in Slot : slots'[s] # Unreadable /\ slots'[s].seq < r.seq => slots'[s].ts < r.ts
<1>1. CASE slots' = slots
  BY <1>1, Zenon DEF Newest
<1>2. ASSUME NEW c \in Content, slots' = [slots EXCEPT ![widx % Cap] = c], c = Unreadable \/ c.seq = widx
      PROVE  \A s \in Slot : slots'[s] # Unreadable /\ slots'[s].seq < r.seq => slots'[s].ts < r.ts
  <2>1. \A s \in Slot : slots'[s] = slots[s] \/ slots'[s] = c
    BY <1>2, Zenon DEF TypeOK
  <2>2. r.seq \in Nat /\ widx \in Nat
    BY Zenon DEF Record, TypeOK
  <2> QED
    BY <1>2, <2>1, <2>2 DEF Newest
<1> QED
  BY <1>1, <1>2, WriterStep, Zenon

LEMMA SettledStep ==
    ASSUME TypeOK, TypeOK', RingInv, RingInv', Orderly, Orderly', SettledInv, [Next]_vars
    PROVE  SettledInv'
<1> USE RingAssumption
<1> SUFFICES ASSUME Running'
             PROVE  \A l \in Live(widx') : l # widx' - Cap => At(slots', l).seq = l
  BY Zenon DEF SettledInv
<1>1. CASE pc' # "indexed"
  <2>1. hdr' = widx'
    BY <1>1, Zenon DEF Running, RingInv, IndexInv
  <2> QED
    BY <2>1, Zenon DEF RingInv, IndexedInv
<1>2. CASE pc' = "indexed"
  <2>1. widx' = widx /\ slots' = slots /\ pc \in {"placed", "indexed"}
    BY <1>2, Zenon DEF Next, vars, file, proc, OpenExisting, OpenFresh, WriteHeader, HeaderFails, Recover, FsckRepair,
       AppendBegin, PwriteStarts, PwriteDone, PwriteFails, StoreHeaderIndex, StoreWriteIndex, Stop, PowerLoss,
       WritebackHeader, WritebackSlot, ClockAdvances, ClockStepsBack
  <2> QED
    BY <2>1, SMTT(30) DEF SettledInv, Running
<1> QED
  BY <1>1, <1>2, Zenon

-----------------------------------------------------------------------------
(* The steps of the query.                                                 *)

\* A slot the walk reads holds the record of its index, unless the record is
\* torn or the writer has lapped the walk.
LEMMA SlotReads ==
    ASSUME TypeOK, RingInv, Orderly, Running,
           NEW l \in Int, l < widx, At(slots, l) # Unreadable
    PROVE  At(slots, l).seq = l \/ Overwritten(l)
<1> USE RingAssumption
<1> DEFINE q == At(slots, l).seq
<1>1. l % Cap \in Slot /\ slots[l % Cap] \in Content /\ widx \in Nat
  BY SlotOf, Zenon DEF TypeOK
<1>2. /\ q \in Nat /\ q % Cap = l % Cap /\ q >= hdr - Cap
      /\ q < hdr \/ (q = hdr /\ pc = "placed")
  BY <1>1, Zenon DEF At, Content, Record, RingInv, SlotInv, Running
<1>3. (hdr = widx /\ pc # "indexed") \/ (hdr = widx + 1 /\ pc = "indexed")
  BY Zenon DEF RingInv, IndexInv, Running
<1> HIDE DEF q
<1>4. q = l \/ q - l >= Cap
  <2>1. q = l \/ q - l >= Cap \/ l - q >= Cap
    BY <1>2, ModWindow
  <2> QED
    BY <1>1, <1>2, <1>3, <2>1
<1>5. CASE q - l >= Cap
  BY <1>1, <1>2, <1>3, <1>5 DEF Overwritten
<1> QED
  BY <1>4, <1>5, Zenon DEF q

\* begun_ shows every slot the writer has placed a record in.
LEMMA BegunShows ==
    ASSUME TypeOK, RingInv, Orderly, Running, NEW l \in Int
    PROVE  /\ begun <= l + Cap => ~Overwritten(l)
           /\ begun > l + Cap => l <= widx - Cap
BY RingAssumption DEF TypeOK, RingInv, IndexInv, Appending, Running, Overwritten

LEMMA StorageUnderQuery ==
    ASSUME TypeOK, RingInv, QueryTypeOK, Orderly, WalkInv, BufferInv, FoundInv,
           [Next]_vars, pc' # "down", UNCHANGED query
    PROVE  WalkInv' /\ BufferInv' /\ FoundInv'
<1> USE RingAssumption
<1>u. UNCHANGED <<qpc, since, limit, qwidx, k, buf, older_run, newest_first, logical>>
  BY Zenon DEF query, logical
<1>1. CASE qpc = "none"
  BY <1>1, <1>u, Zenon DEF WalkInv, BufferInv, FoundInv
<1>2. CASE qpc # "none"
  <2>1. Running /\ Running' /\ qwidx <= widx /\ qwidx \in Nat /\ widx \in Nat /\ k \in Nat /\ logical \in Int
        /\ logical < widx
    <3>1. Running /\ qwidx <= widx
      BY <1>2, Zenon DEF WalkInv
    <3>2. Running'
      BY <3>1, StaysRunning, Zenon
    <3> QED
      BY <3>1, <3>2 DEF QueryTypeOK, TypeOK, logical
  <2>2. widx' \in Nat /\ widx' >= widx
    BY <2>1, WriterStep
  <2>3. ASSUME NEW i \in 1 .. Len(newest_first)
        PROVE  /\ newest_first[i] \in Record
               /\ newest_first[i].seq < qwidx /\ newest_first[i].seq > logical
               /\ \A s \in Slot : slots'[s] # Unreadable /\ slots'[s].seq < newest_first[i].seq
                                    => slots'[s].ts < newest_first[i].ts
    <3>1. newest_first[i] \in Record
      BY DEF QueryTypeOK
    <3>2. newest_first[i].seq < qwidx /\ newest_first[i].seq > logical /\ Newest(newest_first[i])
      BY <1>2, Zenon DEF WalkInv
    <3>3. newest_first[i].seq <= widx
      BY <2>1, <3>1, <3>2, SMTT(30) DEF Record
    <3> QED
      BY <2>1, <3>1, <3>2, <3>3, NewestKept, Zenon
  <2>4. WalkInv'
    <3>1. Running' /\ qwidx <= widx'
      BY <2>1, <2>2
    <3>2. \A i, j \in 1 .. Len(newest_first) :
             i < j => newest_first[i].seq > newest_first[j].seq /\ newest_first[i].ts > newest_first[j].ts
      BY <1>2, Zenon DEF WalkInv
    <3>3. \A i \in 1 .. Len(newest_first) : Newest(newest_first[i])'
      BY <1>u, <2>3, Zenon DEF Newest
    <3> QED
      BY <1>2, <1>u, <2>3, <3>1, <3>2, <3>3, Zenon DEF WalkInv
  <2>5. BufferInv'
    <3> SUFFICES ASSUME qpc = "read"
                 PROVE  /\ \/ buf = Unreadable \/ Overwritten(logical)'
                           \/ /\ buf.seq = logical /\ buf.ts > 0 /\ Newest(buf)'
                              /\ \A i \in 1 .. Len(newest_first) : buf.ts < newest_first[i].ts
                        /\ logical > widx' - Cap => buf = At(slots', logical)
                        /\ Len(newest_first) < limit
      BY <1>u, Zenon DEF BufferInv
    <3>1. CASE buf = Unreadable \/ Overwritten(logical)
      <4>1. Overwritten(logical) => Overwritten(logical)'
        BY <1>u, <2>1, WriterStep, Zenon DEF Overwritten
      <4>2. logical > widx' - Cap => buf = At(slots', logical)
        BY <2>1, <2>2, SlotKept DEF BufferInv
      <4> QED
        BY <3>1, <4>1, <4>2, Zenon DEF BufferInv
    <3>2. CASE ~(buf = Unreadable \/ Overwritten(logical))
      <4>1. /\ buf.seq = logical /\ buf.ts > 0 /\ Newest(buf)
            /\ \A i \in 1 .. Len(newest_first) : buf.ts < newest_first[i].ts
        BY <3>2, Zenon DEF BufferInv
      <4>2. buf \in Record /\ buf.seq <= widx
        BY <2>1, <3>2, <4>1, SMTT(30) DEF QueryTypeOK, Content
      <4>3. Newest(buf)'
        BY <1>u, <2>1, <4>1, <4>2, NewestKept, SMTT(30) DEF Newest
      <4>4. logical > widx' - Cap => buf = At(slots', logical)
        BY <2>1, <2>2, SlotKept DEF BufferInv
      <4> QED
        BY <4>1, <4>3, <4>4, Zenon DEF BufferInv
    <3> QED
      BY <3>1, <3>2, Zenon
  <2>6. ASSUME NEW l \in Live(qwidx), Found(l)
        PROVE  Found(l)'
    <3>1. l \in Int /\ l < widx
      BY <2>1 DEF Live
    <3>2. l > widx' - Cap => l > widx - Cap
      <4>1. widx' = widx \/ widx' = widx + 1
        BY <2>1, WriterStep, Zenon
      <4> QED
        BY <2>1, <3>1, <4>1
    <3>3. l > widx - Cap => At(slots', l) = At(slots, l)
      BY <2>1, <3>1, SlotKept, Zenon
    <3> QED
      BY <1>u, <2>6, <3>2, <3>3, Zenon DEF Found
  <2>7. FoundInv'
    BY <1>u, <2>6, Zenon DEF FoundInv
  <2> QED
    BY <2>4, <2>5, <2>7, Zenon
<1> QED
  BY <1>1, <1>2, Zenon

\* The steps of the walk: the ring stands still.
LEMMA WalkStep ==
    ASSUME TypeOK, RingInv, Orderly, QueryTypeOK, SettledInv, WalkInv, BufferInv, FoundInv, UNCHANGED vars,
           QueryBegin \/ WalkEnds \/ ReadSlot \/ Lapped \/ SkipTorn \/ BelowWindow \/ TakeRecord
    PROVE  WalkInv' /\ BufferInv' /\ FoundInv'
<1> USE RingAssumption
<1>u. UNCHANGED <<pc, widx, begun, slots>>
  BY Zenon DEF vars, proc, file
<1>t. /\ widx \in Nat /\ qwidx \in Nat /\ k \in Nat /\ limit \in Nat /\ since \in Nat /\ Cap \in Nat
      /\ logical \in Int /\ logical = qwidx - 1 - k /\ newest_first \in Seq(Record) /\ Len(newest_first) \in Nat
      /\ \A i \in 1 .. Len(newest_first) : newest_first[i].seq \in Nat /\ newest_first[i].ts \in Nat
  <2>1. widx \in Nat /\ qwidx \in Nat /\ k \in Nat /\ limit \in Nat /\ since \in Nat /\ Cap \in Nat
    BY DEF TypeOK, QueryTypeOK
  <2>2. logical \in Int /\ logical = qwidx - 1 - k
    BY <2>1 DEF logical
  <2>3. newest_first \in Seq(Record)
    BY Zenon DEF QueryTypeOK
  <2>4. Len(newest_first) \in Nat /\ \A i \in 1 .. Len(newest_first) : newest_first[i] \in Record
    BY <2>3
  <2>5. \A r \in Record : r.seq \in Nat /\ r.ts \in Nat
    BY Zenon DEF Record
  <2> QED
    BY <2>1, <2>2, <2>3, <2>4, <2>5, Zenon
<1>1. CASE QueryBegin
  <2>1. /\ Running /\ qwidx' = widx /\ k' = 0 /\ newest_first' = <<>> /\ qpc' = "walk" /\ limit' \in 1 .. Cap
    BY <1>1, Zenon DEF QueryBegin
  <2>2. Len(newest_first') = 0
    BY <2>1, Zenon
  <2>3. WalkInv' /\ BufferInv'
    BY <1>t, <1>u, <2>1, <2>2 DEF WalkInv, BufferInv, Running
  <2>4. FoundInv'
    BY <1>t, <1>u, <2>1, <2>2 DEF FoundInv, Live, logical
  <2> QED
    BY <2>3, <2>4, Zenon
\* The walk is under way.
<1>w. qpc # "none" =>
         /\ Running /\ qwidx <= widx /\ logical < widx
         /\ \A i \in 1 .. Len(newest_first) :
               /\ newest_first[i].seq < qwidx /\ newest_first[i].seq > logical
               /\ Newest(newest_first[i])
         /\ \A i, j \in 1 .. Len(newest_first) :
               i < j => newest_first[i].seq > newest_first[j].seq /\ newest_first[i].ts > newest_first[j].ts
  BY <1>t DEF WalkInv
<1>f. ASSUME NEW l \in Live(qwidx), UNCHANGED <<since, newest_first>>, Found(l)
      PROVE  Found(l)'
  BY <1>f, <1>u, Zenon DEF Found
<1>2. CASE WalkEnds
  <2>1. /\ qpc = "walk" /\ (logical \notin Live(qwidx) \/ Len(newest_first) >= limit) /\ qpc' = "done"
        /\ UNCHANGED <<since, limit, qwidx, k, newest_first, logical>>
    BY <1>2, Zenon DEF WalkEnds, logical
  <2>2. WalkInv' /\ BufferInv'
    BY <1>u, <1>w, <2>1, Zenon DEF WalkInv, BufferInv, Newest, Running
  <2>3. ASSUME NEW l \in Live(qwidx)
        PROVE  Found(l)' \/ (Len(newest_first) = limit
                             /\ \A i \in 1 .. Len(newest_first) : newest_first[i].seq > l)
    <3>1. CASE l > logical
      BY <1>f, <2>1, <3>1, Zenon DEF FoundInv
    <3>2. CASE l <= logical
      <4>1. l \in Int /\ logical \in Live(qwidx)
        BY <1>t, <3>2 DEF Live
      <4>2. Len(newest_first) = limit
        BY <1>t, <2>1, <4>1 DEF FoundInv
      <4>3. ASSUME NEW i \in 1 .. Len(newest_first) PROVE newest_first[i].seq > l
        <5>1. newest_first[i].seq \in Nat /\ logical \in Int
          BY <1>t, Zenon
        <5>2. newest_first[i].seq > logical
          BY <1>w, <2>1
        <5> QED
          BY <3>2, <4>1, <5>1, <5>2
      <4> QED
        BY <4>2, <4>3, Zenon
    <3> QED
      BY <1>t, <3>1, <3>2 DEF Live
  <2>4. FoundInv'
    BY <2>1, <2>3, Zenon DEF FoundInv
  <2> QED
    BY <2>2, <2>4, Zenon
<1>3. CASE ReadSlot
  <2>1. /\ qpc = "walk" /\ logical \in Live(qwidx) /\ Len(newest_first) < limit
        /\ buf' = At(slots, logical) /\ qpc' = "read"
        /\ UNCHANGED <<since, limit, qwidx, k, newest_first, logical>>
    BY <1>3, SMTT(30) DEF ReadSlot, logical
  <2>2. WalkInv'
    BY <1>u, <1>w, <2>1, SMTT(30) DEF WalkInv, Newest, Running
  <2>3. FoundInv'
    BY <1>f, <2>1, Zenon DEF FoundInv
  <2>4. logical % Cap \in Slot /\ At(slots, logical) = slots[logical % Cap] /\ slots[logical % Cap] \in Content
    BY <1>t, SlotOf, ZenonT(60) DEF At, TypeOK
  <2>5. ASSUME buf' # Unreadable, ~Overwritten(logical)
        PROVE  /\ buf'.seq = logical /\ buf'.ts > 0
               /\ \A s \in Slot : slots[s] # Unreadable /\ slots[s].seq < buf'.seq => slots[s].ts < buf'.ts
               /\ \A i \in 1 .. Len(newest_first) : buf'.ts < newest_first[i].ts
    <3>1. buf'.seq = logical
      BY <1>t, <1>w, <2>1, <2>5, SlotReads
    <3>2. buf'.ts > 0
      BY <2>1, <2>4, <2>5, Zenon DEF RingInv, SlotInv
    <3>3. \A s \in Slot : slots[s] # Unreadable /\ slots[s].seq < buf'.seq => slots[s].ts < buf'.ts
      BY <2>1, <2>4, <2>5, SMTT(30) DEF RingInv, OrderInv
    <3>4. \A i \in 1 .. Len(newest_first) : buf'.ts < newest_first[i].ts
      BY <1>w, <2>1, <2>4, <2>5, <3>1, SMTT(90) DEF Newest
    <3> QED
      BY <3>1, <3>2, <3>3, <3>4, Zenon
  <2>6. BufferInv'
    <3>1. Overwritten(logical)' <=> Overwritten(logical)
      BY <1>u, <2>1, Zenon DEF Overwritten
    <3>2. Newest(buf)' <=> \A s \in Slot : slots[s] # Unreadable /\ slots[s].seq < buf'.seq => slots[s].ts < buf'.ts
      BY <1>u, Zenon DEF Newest
    <3> QED
      BY <1>u, <2>1, <2>5, <3>1, <3>2, Zenon DEF BufferInv
  <2> QED
    BY <2>2, <2>3, <2>6, Zenon
\* Past the slot in the buffer.
<1>r. qpc = "read" =>
         /\ logical \in Live(qwidx) /\ logical < widx /\ Len(newest_first) < limit
         /\ logical > widx - Cap => /\ buf = At(slots, logical)
                                    /\ At(slots, logical).seq = logical
  <2> SUFFICES ASSUME qpc = "read"
               PROVE  /\ logical \in Live(qwidx) /\ logical < widx /\ Len(newest_first) < limit
                      /\ logical > widx - Cap => /\ buf = At(slots, logical)
                                                 /\ At(slots, logical).seq = logical
    BY Zenon
  <2>1. logical \in Live(qwidx) /\ logical < widx
    BY <1>w, Zenon DEF QueryTypeOK
  <2>2. logical > widx - Cap => logical \in Live(widx) /\ logical # widx - Cap
    BY <1>t, <2>1 DEF Live
  <2> QED
    BY <1>w, <2>1, <2>2, Zenon DEF BufferInv, SettledInv
<1>4. CASE Lapped
  <2>1. /\ qpc = "read" /\ begun > logical + Cap /\ qpc' = "done"
        /\ UNCHANGED <<since, limit, qwidx, k, newest_first, logical>>
    BY <1>4, SMTT(30) DEF Lapped, logical
  <2>2. WalkInv' /\ BufferInv'
    BY <1>u, <1>w, <2>1, SMTT(30) DEF WalkInv, BufferInv, Newest, Running
  <2>3. logical <= widx - Cap
    BY <1>t, <1>w, <2>1, BegunShows
  <2>4. ASSUME NEW l \in Live(qwidx)
        PROVE  Found(l)'
    <3>1. CASE l > logical
      BY <1>f, <2>1, <3>1, Zenon DEF FoundInv
    <3>2. CASE l <= logical
      <4>1. ~(l > widx - Cap)
        BY <1>t, <2>3, <3>2 DEF Live
      <4> QED
        BY <1>u, <4>1 DEF Found
    <3> QED
      BY <1>t, <3>1, <3>2 DEF Live
  <2>5. FoundInv'
    BY <2>1, <2>4, SMTT(30) DEF FoundInv
  <2> QED
    BY <2>2, <2>5, Zenon
<1>5. CASE SkipTorn \/ (BelowWindow /\ qpc' = "walk")
  <2>1. /\ qpc = "read" /\ qpc' = "walk" /\ k' = k + 1
        /\ UNCHANGED <<since, limit, qwidx, newest_first>>
        /\ buf = Unreadable \/ buf.ts < since
    BY <1>5, Zenon DEF SkipTorn, BelowWindow
  <2>2. logical' = logical - 1
    <3>1. qwidx \in Nat /\ k \in Nat
      BY <1>t, Zenon
    <3>2. qwidx' = qwidx /\ k' = k + 1
      BY <2>1, Zenon
    <3> QED
      BY <3>1, <3>2 DEF logical
  <2>3. WalkInv' /\ BufferInv'
    <3>1. ASSUME NEW i \in 1 .. Len(newest_first) PROVE newest_first[i].seq > logical'
      <4>1. newest_first[i].seq \in Nat /\ newest_first[i].seq > logical /\ logical \in Int
        BY <1>t, <1>w, <2>1, SMTT(30)
      <4> QED
        BY <2>2, <4>1, SMTT(30)
    <3> QED
      BY <1>u, <1>w, <2>1, <3>1 DEF WalkInv, BufferInv, Newest, Running
  <2>4. ~(logical > widx - Cap /\ At(slots, logical).ts >= since)
    <3>1. logical >= 0
      BY <1>r, <2>1, SMTT(30) DEF Live
    <3>2. logical > widx - Cap => buf # Unreadable /\ At(slots, logical).ts < since
      BY <1>r, <1>t, <2>1, <3>1, SMTT(30) DEF Unreadable
    <3>3. logical > widx - Cap => At(slots, logical).ts \in Nat
      BY <1>r, <2>1, <3>2, SMTT(30) DEF QueryTypeOK, Content, Record
    <3> QED
      BY <1>t, <3>2, <3>3
  <2>5. ASSUME NEW l \in Live(qwidx), l > logical'
        PROVE  Found(l)'
    <3>1. CASE l = logical
      BY <1>u, <2>1, <2>4, <3>1, SMTT(30) DEF Found
    <3>2. CASE l > logical
      BY <1>f, <2>1, <3>2, SMTT(30) DEF FoundInv
    <3> QED
      BY <1>t, <2>2, <2>5, <3>1, <3>2, SMTT(30) DEF Live
  <2>6. FoundInv'
    BY <2>1, <2>5, SMTT(30) DEF FoundInv
  <2> QED
    BY <2>3, <2>6, Zenon
<1>6. CASE BelowWindow /\ qpc' # "walk"
  <2>1. /\ qpc = "read" /\ qpc' = "done" /\ k' = k /\ buf # Unreadable /\ buf.ts < since
        /\ UNCHANGED <<since, limit, qwidx, newest_first, logical>>
    BY <1>6, SMTT(90) DEF BelowWindow, logical
  <2>2. WalkInv' /\ BufferInv'
    BY <1>u, <1>w, <2>1, SMTT(30) DEF WalkInv, BufferInv, Newest, Running
  <2>3. ASSUME NEW l \in Live(qwidx), l <= logical, l > widx - Cap
        PROVE  At(slots, l).ts < since
    <3>1. l \in Nat /\ l < widx /\ logical > widx - Cap
      BY <1>t, <1>r, <2>1, <2>3 DEF Live
    <3>2. l \in Live(widx) /\ l # widx - Cap
      BY <1>t, <2>3, <3>1, SMTT(30) DEF Live
    <3>3. At(slots, l).seq = l /\ At(slots, logical).seq = logical /\ buf = At(slots, logical)
      BY <1>r, <1>w, <2>1, <3>1, <3>2 DEF SettledInv
    <3>4. l % Cap \in Slot /\ logical % Cap \in Slot
      <4>1. l \in Int /\ logical \in Int
        BY <1>t, <3>1
      <4> QED
        BY <4>1, SlotOf, Zenon
    <3>5. At(slots, l) # Unreadable
      BY <3>1, <3>3, SMTT(30) DEF Unreadable
    <3>6. l < logical => At(slots, l).ts < buf.ts
      BY <2>1, <3>3, <3>4, <3>5, SMTT(30) DEF RingInv, OrderInv, At
    <3>7. At(slots, l).ts \in Nat /\ buf.ts \in Nat
      BY <2>1, <3>4, <3>5, SMTT(30) DEF QueryTypeOK, TypeOK, Content, Record, At
    <3> QED
      BY <1>t, <2>1, <2>3, <3>1, <3>3, <3>6, <3>7, SMTT(90)
  <2>4. ASSUME NEW l \in Live(qwidx)
        PROVE  Found(l)'
    <3>1. CASE l > logical
      BY <1>f, <2>1, <3>1, SMTT(30) DEF FoundInv
    <3>2. CASE l <= logical
      <4>1. l > widx - Cap => ~(At(slots, l).ts >= since)
        <5> SUFFICES ASSUME l > widx - Cap PROVE ~(At(slots, l).ts >= since)
          BY Zenon
        <5>1. At(slots, l).ts < since
          BY <2>3, <3>2, Zenon
        <5>2. l % Cap \in Slot
          BY SlotOf DEF Live
        <5>3. At(slots, l).ts \in Int
          BY <5>2, SMTT(30) DEF TypeOK, Content, Record, At, Unreadable
        <5> QED
          BY <1>t, <5>1, <5>3
      <4> QED
        BY <1>u, <2>1, <4>1 DEF Found
    <3> QED
      BY <1>t, <3>1, <3>2 DEF Live
  <2>5. FoundInv'
    BY <2>1, <2>4, Zenon DEF FoundInv
  <2> QED
    BY <2>2, <2>5, Zenon
<1>7. CASE TakeRecord
  <2> DEFINE n == Len(newest_first)
  <2>1. /\ qpc = "read" /\ begun <= logical + Cap /\ buf # Unreadable /\ buf.ts >= since
        /\ newest_first' = Append(newest_first, buf) /\ k' = k + 1 /\ qpc' = "walk"
        /\ UNCHANGED <<since, limit, qwidx, buf>>
    BY <1>7, Zenon DEF TakeRecord
  <2>2. logical' = logical - 1
    BY <1>t, <2>1 DEF logical
  <2>3. /\ buf \in Record /\ buf.seq = logical /\ Newest(buf)
        /\ \A i \in 1 .. n : buf.ts < newest_first[i].ts
    <3>1. ~Overwritten(logical)
      BY <1>t, <1>w, <2>1, BegunShows, Zenon
    <3>2. buf \in Record
      BY <2>1, Zenon DEF QueryTypeOK, Content
    <3> QED
      BY <2>1, <3>1, <3>2, SMTT(30) DEF BufferInv
  <2>4. /\ Len(newest_first') = n + 1 /\ n \in Nat
        /\ \A i \in 1 .. n : newest_first'[i] = newest_first[i]
        /\ newest_first'[n + 1] = buf
        /\ \A i \in 1 .. n + 1 : i \in 1 .. n \/ i = n + 1
    BY <1>t, <2>1, <2>3, SMTT(90)
  <2> HIDE DEF n
  <2>5. WalkInv'
    <3>1. ASSUME NEW i \in 1 .. n + 1
          PROVE  /\ newest_first'[i].seq < qwidx /\ newest_first'[i].seq > logical'
                 /\ Newest(newest_first[i])'
      <4>1. CASE i \in 1 .. n
        <5>1. newest_first'[i] = newest_first[i] /\ newest_first[i].seq \in Nat
          BY <1>t, <2>4, <4>1, SMTT(30) DEF n
        <5>2. newest_first[i].seq < qwidx /\ newest_first[i].seq > logical /\ Newest(newest_first[i])
          BY <1>w, <2>1, <4>1, SMTT(30) DEF n
        <5> QED
          BY <1>t, <1>u, <2>2, <5>1, <5>2, SMTT(30) DEF Newest
      <4>2. CASE i = n + 1
        <5>1. newest_first'[i] = buf
          BY <2>4, <4>2, Zenon
        <5>2. logical < qwidx
          BY <1>t
        <5> QED
          BY <1>t, <1>u, <2>2, <2>3, <5>1, <5>2, SMTT(30) DEF Newest
      <4> QED
        BY <2>4, <4>1, <4>2, SMTT(30)
    <3>2. ASSUME NEW i \in 1 .. n + 1, NEW j \in 1 .. n + 1, i < j
          PROVE  newest_first'[i].seq > newest_first'[j].seq /\ newest_first'[i].ts > newest_first'[j].ts
      <4>1. i \in 1 .. n /\ newest_first'[i] = newest_first[i]
        BY <2>4, <3>2, SMTT(30)
      <4>2. CASE j \in 1 .. n
        BY <1>w, <2>1, <2>4, <3>2, <4>1, <4>2, SMTT(30) DEF n
      <4>3. CASE j = n + 1
        <5>1. newest_first[i].seq > logical /\ buf.ts < newest_first[i].ts
          BY <1>w, <2>1, <2>3, <4>1, SMTT(30) DEF n
        <5>2. newest_first[i].ts \in Nat /\ buf.ts \in Nat
          BY <1>t, <2>3, <4>1, ZenonT(60) DEF n, Record
        <5> QED
          BY <2>3, <2>4, <4>1, <4>3, <5>1, <5>2, SMTT(30)
      <4> QED
        BY <2>4, <4>2, <4>3, SMTT(30)
    <3>3. Running' /\ qwidx' <= widx' /\ qpc' # "none"
      BY <1>u, <1>w, <2>1, Zenon DEF Running
    <3> QED
      BY <2>1, <2>4, <3>1, <3>2, <3>3, SMTT(30) DEF WalkInv
  <2>6. BufferInv'
    BY <2>1, Zenon DEF BufferInv
  <2>7. ASSUME NEW l \in Live(qwidx), l > logical'
        PROVE  Found(l)'
    <3>1. CASE l = logical
      <4>1. l > widx - Cap => newest_first'[n + 1] = At(slots, l)
        BY <1>r, <2>1, <2>4, <3>1, Zenon
      <4>2. n + 1 \in 1 .. Len(newest_first')
        BY <2>4, SMTT(30)
      <4> QED
        BY <1>u, <4>1, <4>2, SMTT(90) DEF Found
    <3>2. CASE l > logical
      <4>1. Found(l)
        BY <2>1, <3>2, Zenon DEF FoundInv
      <4>2. l > widx - Cap /\ At(slots, l).ts >= since => \E i \in 1 .. n : newest_first'[i] = At(slots, l)
        BY <2>4, <4>1, Zenon DEF Found, n
      <4>3. 1 .. n \subseteq 1 .. Len(newest_first')
        BY <2>4, SMTT(30)
      <4> QED
        BY <1>u, <2>1, <4>2, <4>3, SMTT(30) DEF Found
    <3> QED
      BY <1>t, <2>2, <2>7, <3>1, <3>2 DEF Live
  <2>8. Len(newest_first') <= limit'
    BY <1>r, <1>t, <2>1, <2>4, SMTT(30) DEF n
  <2>9. FoundInv'
    BY <2>1, <2>7, <2>8, Zenon DEF FoundInv
  <2> QED
    BY <2>5, <2>6, <2>9, Zenon
<1> QED
  BY <1>1, <1>2, <1>3, <1>4, <1>5, <1>6, <1>7, Zenon

LEMMA QueryInvStep ==
    ASSUME TypeOK, TypeOK', RingInv, RingInv', QueryTypeOK, QueryInv, [QueryNext]_qvars
    PROVE  QueryInv'
<1> SUFFICES ASSUME Orderly'
             PROVE  SettledInv' /\ WalkInv' /\ BufferInv' /\ FoundInv'
  BY SMTT(30) DEF QueryInv
<1>1. [Next]_vars
  BY Zenon DEF QueryNext, StorageStep, QueryBegin, WalkEnds, ReadSlot, Lapped, SkipTorn, BelowWindow, TakeRecord, qvars
<1>2. Orderly
  <2>1. PowerLoss => losses' > 0
    BY DEF PowerLoss, TypeOK
  <2>2. ClockStepsBack => backs' > 0
    BY SMTT(90) DEF ClockStepsBack, TypeOK
  <2>3. PowerLoss \/ ClockStepsBack \/ UNCHANGED <<backs, losses>>
    BY <1>1, Zenon DEF Next, vars, env, OpenExisting, OpenFresh, WriteHeader, HeaderFails, Recover, FsckRepair,
       AppendBegin, PwriteStarts, PwriteDone, PwriteFails, StoreHeaderIndex, StoreWriteIndex, Stop,
       WritebackHeader, WritebackSlot, ClockAdvances
  <2> QED
    BY <2>1, <2>2, <2>3 DEF Orderly
<1>3. SettledInv /\ WalkInv /\ BufferInv /\ FoundInv
  BY <1>2, Zenon DEF QueryInv
<1>4. SettledInv'
  BY <1>1, <1>2, <1>3, SettledStep, Zenon
<1>5. CASE StorageStep /\ pc' = "down"
  <2>1. qpc' = "none" /\ newest_first' = <<>>
    BY <1>5, Zenon DEF StorageStep
  <2> QED
    BY <1>4, <2>1, Zenon DEF WalkInv, BufferInv, FoundInv
<1>6. CASE (StorageStep /\ pc' # "down") \/ UNCHANGED qvars
  <2>1. UNCHANGED query
    BY <1>6, Zenon DEF StorageStep, query, qvars
  <2>2. CASE pc' # "down"
    BY <1>1, <1>2, <1>3, <1>4, <2>1, <2>2, StorageUnderQuery, SMTT(30)
  <2>3. CASE pc' = "down"
    <3>1. pc = "down" /\ UNCHANGED qpc /\ UNCHANGED newest_first
      BY <1>6, <2>1, <2>3 DEF qvars, vars, proc, query
    <3>2. qpc = "none"
      BY <1>3, <3>1, Zenon DEF WalkInv, Running
    <3> QED
      BY <1>3, <1>4, <3>1, <3>2, Zenon DEF WalkInv, BufferInv, FoundInv
  <2> QED
    BY <2>2, <2>3, Zenon
<1>7. CASE QueryBegin \/ WalkEnds \/ ReadSlot \/ Lapped \/ SkipTorn \/ BelowWindow \/ TakeRecord
  <2>1. UNCHANGED vars
    BY <1>7, Zenon DEF QueryBegin, WalkEnds, ReadSlot, Lapped, SkipTorn, BelowWindow, TakeRecord
  <2> QED
    BY <1>2, <1>3, <1>4, <1>7, <2>1, WalkStep, SMTT(30)
<1> QED
  BY <1>5, <1>6, <1>7, Zenon DEF QueryNext

LEMMA QueryInvariant == QuerySpec => []QueryInv
<1>1. QueryInit => QueryInv
  BY RingAssumption, Zenon DEF QueryInit, Init, QueryInv, SettledInv, WalkInv, BufferInv, FoundInv, Running
<1>2. /\ TypeOK /\ RingInv /\ (TypeOK /\ RingInv)' /\ QueryTypeOK
      /\ QueryInv /\ [QueryNext]_qvars
      => QueryInv'
  BY QueryInvStep
<1> QED
  BY <1>1, <1>2, RingUnderQuery, QueryTypeCorrect, PTL DEF QuerySpec

\* The writer may lap the walk at any point, between the read of a slot and the
\* look at begun_ too: query_ring() never returns a record appended after it
\* began, nor two records out of their order.
THEOREM WalkIsLapSafe == QuerySpec => []LapSafe
<1>1. QueryInv => LapSafe
  BY SMTT(90) DEF QueryInv, WalkInv, LapSafe
<1> QED
  BY <1>1, QueryInvariant, PTL

\* The early exits of query_ring() leave out no record of the window that was
\* indexed when it began and is still there, unless `limit` newer ones are in
\* the result.
THEOREM WalkIsComplete == QuerySpec => []QueryComplete
<1>1. QueryInv => QueryComplete
  BY Zenon DEF QueryInv, FoundInv, Found, QueryComplete
<1> QED
  BY <1>1, QueryInvariant, PTL
=============================================================================
