---------------------------- MODULE DataDirProofs ---------------------------
(***************************************************************************)
(* Proofs about DataDir, for every set of daemons, repairs and checks that *)
(* share a data directory, every list of rings and every number of records *)
(* in them: one writer at a time, and a verdict of `fsck` that is true.    *)
(***************************************************************************)
EXTENDS DataDir, TLAPS

-----------------------------------------------------------------------------
(* The processes on a data directory: the inductive invariant.             *)

Ring == [kind : AllKinds, idx : 0 .. MaxTop, top : 0 .. MaxTop]

Counts == [left : Nat, repaired : Nat, unchecked : Nat]
Places == {"off", "lock", "pid", "init", "run", "placed", "unlock", "list", "ring", "count"}

\* The steps of a process are those of its kind.
Role(p, l) ==
    /\ p \in Daemons => l \in {"off", "lock", "pid", "init", "run", "placed"}
    /\ p \in Repairs => l \in {"off", "lock", "pid", "list", "ring", "count"}
    /\ p \in Checks => l \in {"off", "lock", "unlock", "list", "ring", "count"}

DirTypes ==
    /\ pc \in [Procs -> Places] /\ \A p \in Procs : Role(p, pc[p])
    /\ at \in [Procs -> Nat] /\ seen \in [Fscks -> 0 .. MaxTop] /\ quiet \in [Fscks -> BOOLEAN]
    /\ pidfile \in Procs \cup {None} /\ writer \in [Fscks -> Procs \cup {None, "?"}]
    /\ count \in [Fscks -> Counts]
    /\ before \in [Fscks -> [Files -> Ring]]

\* Who is past the lock holds it.
Holding(p) == \/ pc[p] \in {"pid", "init", "run", "placed"}
              \/ p \in Repairs /\ pc[p] \in {"list", "ring", "count"}
LockHeld == (\A p \in Procs : Holding(p) => ex = p) /\ ex \notin Checks

\* The index is behind the records by the append in hand, or by what a crash
\* left and the next start has yet to count.
Indexed ==
    /\ \A f \in Files : file[f].idx <= file[f].top
    /\ \A d \in Daemons : pc[d] = "run" => \A f \in Files : file[f].idx = file[f].top
    /\ \A d \in Daemons : pc[d] = "placed" =>
          /\ at[d] \in 1 .. Len(RingNames)
          /\ \A f \in Files : file[f].top = file[f].idx + (IF f = RingNames[at[d]] THEN 1 ELSE 0)

\* A fsck is at a ring, or past the last one.
Walking ==
    \A f \in Fscks :
        /\ pc[f] # "off" => at[f] \in 1 .. Len(RingNames) + 1
        /\ pc[f] = "count" => at[f] <= Len(RingNames)
        /\ \A r \in Files : before[f][r].idx <= before[f][r].top

\* Under a fsck that nobody else has held the lock from, the rings ahead are
\* as they were when it began.
Was(f, i) == before[f][RingNames[i]]
Undisturbed(f) == quiet[f] /\ pc[f] # "off"
AheadOf(f) ==
    /\ ex \in {None, f} /\ writer[f] = None
    /\ \A i \in at[f] .. Len(RingNames) : file[RingNames[i]] = Was(f, i)
    /\ pc[f] \notin {"ring", "count"} => at[f] = 1
    /\ pc[f] = "count" => seen[f] = Was(f, at[f]).idx /\ Was(f, at[f]).kind \notin {"missing", "unreachable"}
Ahead == \A f \in Fscks : Undisturbed(f) => AheadOf(f)

\* It has counted those behind as what they were.
LeftAs(f, r) == errors_but_unindexed(r.kind) \/ (f \notin Repairs /\ Mendable(r))
MendedBy(f, r) == f \in Repairs /\ r.kind \in {"ok", "damaged"} /\ r.idx < r.top
Tally(f, c, n) ==
    /\ c.unchecked > 0 <=> \E i \in 1 .. n : Was(f, i).kind = "unreachable"
    /\ c.left > 0 <=> \E i \in 1 .. n : LeftAs(f, Was(f, i))
    /\ c.repaired > 0 <=> \E i \in 1 .. n : MendedBy(f, Was(f, i))
Behind == \A f \in Fscks : Undisturbed(f) => Tally(f, count[f], at[f] - 1)

DirInv ==
    /\ DirTypeOK /\ ExitTrue
    /\ DirTypes /\ LockHeld /\ Indexed /\ Walking /\ Ahead /\ Behind

\* The verdicts of those that ended stand.
LEMMA ExitKept ==
    ASSUME ExitTrue, UNCHANGED before,
           \A f \in Fscks : pc'[f] = "off" /\ quiet'[f] => pc[f] = "off" /\ quiet[f] /\ exit'[f] = exit[f]
    PROVE  ExitTrue'
<1>1. ASSUME NEW f, NEW code PROVE Verdict(f, code) <=> Verdict(f, code)'
  BY DEF Verdict
<1> QED
  BY <1>1, Zenon DEF ExitTrue

\* One more ring behind: what it was is what the counters take in.
LEMMA TallyNext ==
    ASSUME NEW f, NEW c, NEW e, NEW n \in Nat, Tally(f, c, n),
           e.unchecked > 0 <=> c.unchecked > 0 \/ Was(f, n + 1).kind = "unreachable",
           e.left > 0 <=> c.left > 0 \/ LeftAs(f, Was(f, n + 1)),
           e.repaired > 0 <=> c.repaired > 0 \/ MendedBy(f, Was(f, n + 1))
    PROVE  Tally(f, e, n + 1)
<1>1. \A i : i \in 1 .. (n + 1) <=> i \in 1 .. n \/ i = n + 1
  OBVIOUS
<1> QED
  BY <1>1, Zenon DEF Tally

\* A fsck goes from ring to ring: only a repair, which holds the lock, writes.
Walks(p, l, n, s, e) ==
    /\ pc[p] \in {"ring", "count"} /\ Go(p, l) /\ at' = [at EXCEPT ![p] = n]
    /\ seen' = [seen EXCEPT ![p] = s] /\ count' = [count EXCEPT ![p] = e]
    /\ UNCHANGED <<ex, sh, pidfile, writer, before, exit, quiet>>
Writes(p) ==
    /\ file' \in [Files -> Ring]
    /\ file' = file \/ (p \in Repairs /\ \A r \in Files : file'[r].idx <= file'[r].top)
Keeps(p, l, n, s, e) ==
    /\ \A i \in n .. Len(RingNames) : file'[RingNames[i]] = Was(p, i)
    /\ l = "count" => s = Was(p, n).idx /\ Was(p, n).kind \notin {"missing", "unreachable"}
    /\ Tally(p, e, n - 1)

LEMMA WalkStep ==
    ASSUME DirAssumption, DirInv, NEW p \in Fscks, NEW l \in {"ring", "count"},
           NEW n \in 1 .. Len(RingNames) + 1, NEW s \in 0 .. MaxTop, NEW e \in Counts, l = "count" => n <= Len(RingNames),
           Walks(p, l, n, s, e), Writes(p), Undisturbed(p) => Keeps(p, l, n, s, e)
    PROVE  DirInv'
<1> USE DEF DirInv
<1>1. /\ pc \in [Procs -> Places] /\ pc' = [pc EXCEPT ![p] = l] /\ p \in Procs
      /\ at \in [Procs -> Nat] /\ seen \in [Fscks -> 0 .. MaxTop] /\ count \in [Fscks -> Counts]
      /\ at' = [at EXCEPT ![p] = n] /\ seen' = [seen EXCEPT ![p] = s] /\ count' = [count EXCEPT ![p] = e]
      /\ n \in Nat /\ pc[p] \in {"ring", "count"}
  BY DEF DirTypes, Walks, Go, Procs
<1>0. UNCHANGED <<ex, sh, pidfile, writer, before, exit, quiet>>
  BY Zenon DEF Walks
<1>2. /\ pc'[p] = l /\ at'[p] = n /\ seen'[p] = s /\ count'[p] = e
      /\ \A q \in Procs \ {p} : pc'[q] = pc[q] /\ at'[q] = at[q]
      /\ \A f \in Fscks \ {p} : seen'[f] = seen[f] /\ count'[f] = count[f]
  BY <1>1, Zenon
<1>3. DirTypeOK'
  BY <1>0, Zenon DEF DirTypeOK, Writes, Ring
<1>4. DirTypes'
  <2>1. /\ at' \in [Procs -> Nat] /\ seen' \in [Fscks -> 0 .. MaxTop] /\ pc' \in [Procs -> Places]
        /\ count' \in [Fscks -> Counts]
    BY <1>1, Zenon DEF Places
  <2>2. Role(p, pc'[p])
    BY <1>2, Zenon DEF Role, DirAssumption
  <2> QED
    BY <1>0, <1>2, <2>1, <2>2, Zenon DEF DirTypes
<1>5. LockHeld'
  <2>1. ASSUME NEW q \in Procs, Holding(q)' PROVE Holding(q)
    BY <1>1, <1>2, <2>1, Zenon DEF Holding
  <2> QED
    BY <1>0, <2>1, Zenon DEF LockHeld
<1>6. Indexed'
  <2>1. \A d \in Daemons : d \in Procs \ {p} /\ pc'[d] = pc[d] /\ at'[d] = at[d]
    BY <1>2, Zenon DEF DirAssumption, Procs
  <2>2. CASE file' = file
    BY <2>1, <2>2 DEF Indexed
  <2>3. CASE p \in Repairs /\ \A r \in Files : file'[r].idx <= file'[r].top
    <3>1. ex = p
      BY <1>1, <2>3, Zenon DEF LockHeld, Holding
    <3>2. \A d \in Daemons : pc[d] \notin {"run", "placed"}
      BY <2>1, <3>1 DEF LockHeld, Holding
    <3> QED
      BY <2>1, <2>3, <3>2, Zenon DEF Indexed
  <2> QED
    BY <2>2, <2>3, Zenon DEF Writes
<1>7. Walking'
  BY <1>1, <1>2, <1>0, Zenon DEF Walking, Procs
<1>8. ASSUME NEW f \in Fscks, Undisturbed(f)' PROVE Undisturbed(f)
  BY <1>1, <1>2, <1>0, <1>8, Zenon DEF Undisturbed, Procs
<1>9. ASSUME NEW f \in Fscks, Undisturbed(f), f # p PROVE file' = file
  <2>1. p \in Repairs => ex = p
    BY <1>1, Zenon DEF LockHeld, Holding
  <2>2. ex \in {None, f}
    BY <1>9, Zenon DEF Ahead, AheadOf
  <2> QED
    BY <1>1, <1>9, <2>1, <2>2, Zenon DEF DirAssumption, Writes
<1>10. Ahead'
  <2> SUFFICES ASSUME NEW f \in Fscks, Undisturbed(f)' PROVE AheadOf(f)'
    BY Zenon DEF Ahead
  <2>1. Undisturbed(f) /\ AheadOf(f) /\ f \in Procs
    BY <1>8, Zenon DEF Ahead, Procs
  <2>2. CASE f = p
    <3>1. /\ \A i \in n .. Len(RingNames) : file'[RingNames[i]] = Was(f, i)
          /\ l = "count" => s = Was(f, n).idx /\ Was(f, n).kind \notin {"missing", "unreachable"}
      BY <2>1, <2>2, Zenon DEF Keeps
    <3>2. ex' \in {None, f} /\ writer'[f] = None /\ pc'[f] = l /\ at'[f] = n /\ seen'[f] = s /\ before' = before
      BY <1>2, <1>0, <2>1, <2>2, Zenon DEF AheadOf
    <3> QED
      BY <3>1, <3>2, Zenon DEF AheadOf, Was
  <2>3. CASE f # p
    <3>1. file' = file
      BY <1>9, <2>1, <2>3, Zenon
    <3>2. pc'[f] = pc[f] /\ at'[f] = at[f] /\ seen'[f] = seen[f]
      BY <1>2, <2>1, <2>3, Zenon
    <3> QED
      BY <1>0, <2>1, <3>1, <3>2, Zenon DEF AheadOf, Was
  <2> QED
    BY <2>2, <2>3, Zenon
<1>11. Behind'
  <2> SUFFICES ASSUME NEW f \in Fscks, Undisturbed(f)'
               PROVE  Tally(f, count'[f], at'[f] - 1)
    BY <1>0, Zenon DEF Behind, Tally, Was
  <2>1. Undisturbed(f) /\ f \in Procs
    BY <1>8, Zenon DEF Procs
  <2>2. CASE f = p
    BY <1>2, <2>1, <2>2, Zenon DEF Keeps
  <2>3. CASE f # p
    <3>1. at'[f] = at[f] /\ count'[f] = count[f]
      BY <1>2, <2>1, <2>3, Zenon
    <3> QED
      BY <2>1, <3>1, Zenon DEF Behind
  <2> QED
    BY <2>2, <2>3, Zenon
<1>12. ExitTrue'
  BY <1>0, <1>2, ExitKept, Zenon DEF Procs
<1> QED
  BY <1>3, <1>4, <1>5, <1>6, <1>7, <1>10, <1>11, <1>12, Zenon

\* A ring that is not there or out of reach is passed; the others are opened.
LEMMA OpenStep == ASSUME DirAssumption, DirInv, NEW p \in Fscks, OpenRing(p) PROVE DirInv'
<1> USE DEF DirInv
<1> DEFINE n == at[p]  c == count[p]  k == here(p).kind
           u == IF k = "unreachable" THEN c.unchecked + 1 ELSE c.unchecked
           e == [c EXCEPT !.unchecked = u]
<1>1. /\ pc[p] = "ring" /\ n \in 1 .. Len(RingNames) /\ Len(RingNames) \in Nat /\ p \in Procs
      /\ c \in Counts /\ RingNames[n] \in Files
      /\ file \in [Files -> Ring] /\ here(p) \in Ring /\ at \in [Procs -> Nat]
      /\ seen \in [Fscks -> 0 .. MaxTop] /\ pc \in [Procs -> Places]
      /\ count \in [Fscks -> Counts]
      /\ UNCHANGED <<ex, sh, pidfile, file, writer, before, exit, quiet>>
  <2>1. /\ p \in Procs /\ file \in [Files -> Ring] /\ at \in [Procs -> Nat]
        /\ seen \in [Fscks -> 0 .. MaxTop] /\ pc \in [Procs -> Places]
        /\ count \in [Fscks -> Counts]
    BY Zenon DEF DirTypes, DirTypeOK, Ring, Procs
  <2>2. /\ pc[p] = "ring" /\ n <= Len(RingNames)
        /\ UNCHANGED <<ex, sh, pidfile, file, writer, before, exit, quiet>>
    BY Zenon DEF OpenRing
  <2>3. n \in 1 .. Len(RingNames) /\ Len(RingNames) \in Nat
    BY <2>1, <2>2 DEF Walking, DirAssumption
  <2>4. RingNames[n] \in Files
    BY <2>3, Zenon DEF Files
  <2> QED
    BY <2>1, <2>2, <2>3, <2>4, Zenon DEF here
<1>2. Undisturbed(p) => /\ here(p) = Was(p, n) /\ Tally(p, c, n - 1)
                        /\ \A i \in n .. Len(RingNames) : file[RingNames[i]] = Was(p, i)
  BY <1>1 DEF Ahead, AheadOf, Behind, here
<1>3. CASE k \in {"missing", "unreachable"}
  <2>1. /\ count' = [count EXCEPT ![p] = e] /\ at' = [at EXCEPT ![p] = n + 1]
        /\ seen' = [seen EXCEPT ![p] = seen[p]] /\ Go(p, "ring")
    BY <1>1, <1>3, Zenon DEF OpenRing, Passed, Go
  <2>2. e \in Counts /\ seen[p] \in 0 .. MaxTop
    <3>1. u \in Nat
      BY <1>1 DEF Counts
    <3> HIDE DEF u
    <3> QED
      BY <1>1, <3>1, Zenon DEF Counts
  <2>3. Undisturbed(p) => Tally(p, e, n)
    <3> SUFFICES ASSUME Undisturbed(p) PROVE Tally(p, e, n)
      BY Zenon
    <3>1. /\ e.unchecked > 0 <=> c.unchecked > 0 \/ Was(p, n).kind = "unreachable"
          /\ e.left = c.left /\ e.repaired = c.repaired
          /\ ~LeftAs(p, Was(p, n)) /\ ~MendedBy(p, Was(p, n))
      BY <1>1, <1>2, <1>3 DEF Counts, LeftAs, MendedBy, Mendable, errors_but_unindexed
    <3>2. n - 1 \in Nat /\ (n - 1) + 1 = n
      BY <1>1
    <3> HIDE DEF n, c, e
    <3> QED
      BY <1>2, <3>1, <3>2, TallyNext, Zenon
  <2> DEFINE m == n + 1
  <2>4. m \in 1 .. Len(RingNames) + 1 /\ m - 1 = n /\ \A i \in m .. Len(RingNames) : i \in n .. Len(RingNames)
    BY <1>1
  <2>5. at' = [at EXCEPT ![p] = m]
    BY <2>1, Zenon
  <2> HIDE DEF n, c, e, k, m
  <2>6. Undisturbed(p) =>
           /\ \A i \in m .. Len(RingNames) : file'[RingNames[i]] = Was(p, i)
           /\ Tally(p, e, m - 1)
    BY <1>1, <1>2, <2>3, <2>4, Zenon
  <2>7. Walks(p, "ring", m, seen[p], e)
    BY <1>1, <2>1, <2>5, Zenon DEF Walks
  <2>8. Writes(p)
    BY <1>1, Zenon DEF Writes
  <2>9. Undisturbed(p) => Keeps(p, "ring", m, seen[p], e)
    BY <2>6, Zenon DEF Keeps
  <2> QED
    BY <2>2, <2>4, <2>7, <2>8, <2>9, WalkStep, Zenon
<1>4. CASE k \notin {"missing", "unreachable"}
  <2>1. /\ count' = [count EXCEPT ![p] = c] /\ at' = [at EXCEPT ![p] = n]
        /\ seen' = [seen EXCEPT ![p] = here(p).idx] /\ Go(p, "count")
    BY <1>1, <1>4, Zenon DEF OpenRing
  <2>2. here(p).idx \in 0 .. MaxTop /\ n \in 1 .. Len(RingNames) + 1 /\ n <= Len(RingNames)
    BY <1>1 DEF Ring
  <2>3. Undisturbed(p) => here(p).idx = Was(p, n).idx /\ Was(p, n).kind \notin {"missing", "unreachable"}
    BY <1>2, <1>4, Zenon
  <2> HIDE DEF n, c, e, k
  <2>4. Walks(p, "count", n, here(p).idx, c)
    BY <1>1, <2>1, Zenon DEF Walks
  <2>5. Writes(p)
    BY <1>1, Zenon DEF Writes
  <2>6. Undisturbed(p) => Keeps(p, "count", n, here(p).idx, c)
    BY <1>1, <1>2, <2>3, Zenon DEF Keeps
  <2> QED
    BY <1>1, <2>2, <2>4, <2>5, <2>6, WalkStep, Zenon
<1> QED
  BY <1>3, <1>4, Zenon

\* A ring is checked: what is past the index is counted in by a repair.
LEMMA CheckStep == ASSUME DirAssumption, DirInv, NEW p \in Fscks, CheckRing(p) PROVE DirInv'
<1> USE DEF DirInv
<1> DEFINE n == at[p]  c == count[p]  h == here(p)  k == here(p).kind  r == RingNames[n]  m == n + 1
           over == IF k \in {"ok", "damaged"} THEN h.top - seen[p] ELSE 0
           rec == IF p \in Repairs THEN over ELSE 0
           left == IF report(k, over, rec, writer[p]) THEN c.left + 1 ELSE c.left
           mended == IF rec > 0 THEN c.repaired + 1 ELSE c.repaired
           e == [c EXCEPT !.left = left, !.repaired = mended]
<1>1. /\ p \in Procs /\ file \in [Files -> Ring] /\ at \in [Procs -> Nat]
      /\ seen \in [Fscks -> 0 .. MaxTop] /\ pc \in [Procs -> Places]
      /\ count \in [Fscks -> Counts]
  BY Zenon DEF DirTypes, DirTypeOK, Ring, Procs
<1>2. /\ pc[p] = "count" /\ file' = (IF rec > 0 THEN [file EXCEPT ![r].idx = seen[p] + rec] ELSE file)
      /\ count' = [count EXCEPT ![p].left = IF report(k, over, rec, writer[p]) THEN @ + 1 ELSE @,
                                ![p].repaired = IF rec > 0 THEN @ + 1 ELSE @]
      /\ at' = [at EXCEPT ![p] = @ + 1] /\ Go(p, "ring")
      /\ UNCHANGED <<ex, sh, pidfile, seen, writer, before, exit, quiet>>
  BY Zenon DEF CheckRing
<1>3. n \in 1 .. Len(RingNames) /\ Len(RingNames) \in Nat /\ r \in Files
  <2>1. n \in 1 .. Len(RingNames) /\ Len(RingNames) \in Nat
    BY <1>1, <1>2 DEF Walking, DirAssumption
  <2> QED
    BY <2>1, Zenon DEF Files
<1>4. /\ c \in Counts /\ h \in Ring /\ h = file[r]
      /\ k = h.kind /\ seen[p] \in 0 .. MaxTop /\ h.top \in 0 .. MaxTop /\ h.idx \in 0 .. MaxTop
      /\ MaxTop \in Nat
  BY <1>1, <1>3, Zenon DEF here, Ring, DirAssumption
<1>5. over \in Int /\ rec \in Int /\ (rec > 0 => seen[p] + rec = h.top)
  BY <1>4
<1>6. left \in Nat /\ mended \in Nat
  BY <1>4 DEF Counts
<1>7. /\ at' = [at EXCEPT ![p] = m] /\ count' = [count EXCEPT ![p] = e]
      /\ seen' = [seen EXCEPT ![p] = seen[p]]
  <2>1. at' = [at EXCEPT ![p] = m] /\ seen' = [seen EXCEPT ![p] = seen[p]]
    BY <1>1, <1>2, Zenon
  <2>2. count' = [count EXCEPT ![p] = e]
    BY <1>1, <1>2, Zenon
  <2> QED
    BY <2>1, <2>2, Zenon
<1>8. /\ e \in Counts
      /\ e.left = left /\ e.repaired = mended /\ e.unchecked = c.unchecked
  <2> HIDE DEF c, left, mended
  <2> QED
    BY <1>4, <1>6, Zenon DEF Counts
<1>9. file' = (IF rec > 0 THEN [file EXCEPT ![r].idx = h.top] ELSE file)
  <2> HIDE DEF rec, over, h, r
  <2> QED
    BY <1>2, <1>5, Zenon
<1>10. /\ file' \in [Files -> Ring] /\ \A g \in Files : g # r => file'[g] = file[g]
       /\ \A g \in Files : file'[g].idx <= file'[g].top
       /\ file' = file \/ p \in Repairs
  <2>1. \A g \in Files : file[g].idx <= file[g].top
    BY Zenon DEF Indexed
  <2>2. rec > 0 => p \in Repairs
    OBVIOUS
  <2> HIDE DEF rec, over, h, r
  <2>3. CASE rec > 0
    <3>1. file' = [file EXCEPT ![r].idx = h.top]
      BY <1>9, <2>3, Zenon
    <3>2. [h EXCEPT !.idx = h.top] \in Ring /\ [h EXCEPT !.idx = h.top].idx <= [h EXCEPT !.idx = h.top].top
      BY <1>4 DEF Ring
    <3>3. file'[r] = [h EXCEPT !.idx = h.top] /\ \A g \in Files : g # r => file'[g] = file[g]
      BY <1>1, <1>3, <1>4, <3>1, Zenon
    <3>4. file' \in [Files -> Ring]
      BY <1>1, <1>4, <3>1, <3>2, Zenon
    <3> QED
      BY <2>1, <2>2, <2>3, <3>2, <3>3, <3>4, Zenon
  <2>4. CASE ~(rec > 0)
    BY <1>1, <1>9, <2>1, <2>4, Zenon
  <2> QED
    BY <2>3, <2>4, Zenon
<1>11. m \in 1 .. Len(RingNames) + 1 /\ m - 1 = n /\ n - 1 \in Nat /\ (n - 1) + 1 = n
  <2> HIDE DEF n, r
  <2> QED
    BY <1>3
<1>12. ASSUME Undisturbed(p)
       PROVE  /\ \A i \in m .. Len(RingNames) : file'[RingNames[i]] = Was(p, i)
              /\ Tally(p, e, n)
  <2>1. /\ writer[p] = None /\ h = Was(p, n) /\ seen[p] = h.idx /\ k \notin {"missing", "unreachable"}
        /\ \A i \in n .. Len(RingNames) : file[RingNames[i]] = Was(p, i)
        /\ Tally(p, c, n - 1)
    BY <1>2, <1>3, <1>12 DEF Ahead, AheadOf, Behind, here
  <2>2. ASSUME NEW i \in m .. Len(RingNames) PROVE file'[RingNames[i]] = Was(p, i)
    <3>1. i \in n .. Len(RingNames) /\ i \in 1 .. Len(RingNames) /\ i # n
      BY <1>3
    <3>2. RingNames[i] \in Files /\ RingNames[i] # r
      BY <1>3, <3>1, Zenon DEF DirAssumption, Files
    <3> QED
      BY <1>10, <2>1, <3>1, <3>2, Zenon
  <2>3. c.left \in Nat /\ c.repaired \in Nat
    BY <1>4, Zenon DEF Counts
  <2>4. over > 0 <=> k \in {"ok", "damaged"} /\ h.idx < h.top
    BY <1>4, <2>1
  <2>5. e.repaired > 0 <=> c.repaired > 0 \/ MendedBy(p, Was(p, n))
    <3>1. rec > 0 <=> MendedBy(p, h)
      BY <1>4, <2>4 DEF MendedBy
    <3> HIDE DEF rec, c
    <3> QED
      BY <1>8, <2>1, <2>3, <3>1
  <2>6. e.left > 0 <=> c.left > 0 \/ LeftAs(p, Was(p, n))
    <3>1. over > rec <=> p \notin Repairs /\ over > 0
      BY <1>5
    <3>2. report(k, over, rec, writer[p]) <=> LeftAs(p, h)
      <4> HIDE DEF over, rec
      <4> QED
        BY <1>4, <2>1, <2>4, <3>1, Zenon DEF report, LeftAs, Mendable, errors_but_unindexed
    <3>3. left > 0 <=> c.left > 0 \/ report(k, over, rec, writer[p])
      <4> HIDE DEF over, rec, c, k
      <4> QED
        BY <2>3
    <3> QED
      BY <1>8, <2>1, <3>2, <3>3, Zenon
  <2>7. e.unchecked > 0 <=> c.unchecked > 0 \/ Was(p, n).kind = "unreachable"
    BY <1>4, <1>8, <2>1, Zenon
  <2> HIDE DEF n, c, e
  <2>8. Tally(p, e, n)
    BY <1>11, <2>1, <2>5, <2>6, <2>7, TallyNext, Zenon
  <2> QED
    BY <2>2, <2>8, Zenon
<1> HIDE DEF n, c, e, k, h, m, r, over, rec, left, mended
<1>13. Writes(p)
  BY <1>10, Zenon DEF Writes
<1>14. Walks(p, "ring", m, seen[p], e)
  BY <1>2, <1>7, Zenon DEF Walks
<1>15. Undisturbed(p) => Keeps(p, "ring", m, seen[p], e)
  BY <1>11, <1>12, Zenon DEF Keeps
<1> QED
  BY <1>4, <1>8, <1>11, <1>13, <1>14, <1>15, WalkStep, Zenon

LEMMA DirStart == DirAssumption /\ DirInit => DirInv
<1> SUFFICES ASSUME DirAssumption, DirInit PROVE DirInv
  BY Zenon
<1>1. file \in [Files -> Ring] /\ \A f \in Files : file[f].idx <= file[f].top
  <2>1. file \in [Files -> {[kind |-> k, idx |-> 0, top |-> t] : k \in Kinds, t \in {0, 1}}]
    BY DEF DirInit
  <2>2. ASSUME NEW f \in Files
        PROVE  file[f] \in Ring /\ file[f].idx <= file[f].top
    <3>1. PICK k \in Kinds, t \in {0, 1} : file[f] = [kind |-> k, idx |-> 0, top |-> t]
      BY <2>1
    <3> QED
      BY <3>1 DEF DirAssumption, Ring
  <2> QED
    BY <2>1, <2>2
<1>2. DirTypeOK
  BY <1>1, Zenon DEF DirInit, DirTypeOK, Ring
<1>3. DirTypes
  <2>1. before \in [Fscks -> [Files -> Ring]]
    BY <1>1, Zenon DEF DirInit
  <2> HIDE DEF Ring
  <2> QED
    BY <2>1 DEF DirAssumption, DirInit, DirTypes, Role, Counts, Places
<1>4. LockHeld
  BY Zenon DEF DirAssumption, DirInit, LockHeld, Holding, Procs, Fscks
<1>5. Indexed
  BY <1>1, Zenon DEF DirInit, Indexed, Procs
<1>6. Walking /\ Ahead /\ Behind
  BY <1>1, Zenon DEF DirInit, Walking, Ahead, Behind, Undisturbed, Procs
<1>7. ExitTrue
  BY Zenon DEF DirAssumption, DirInit, ExitTrue, Procs
<1> QED
  BY <1>2, <1>3, <1>4, <1>5, <1>6, <1>7, Zenon DEF DirInv

\* A process that ends, whatever it was doing: the lock is let go and nothing
\* on the disk changes. A fsck that ends owes a true verdict.
LEMMA EndStep ==
    ASSUME DirAssumption, DirInv, NEW p \in Procs, NEW code \in {0, 1, 4, 8, 9}, Ends(p, code),
           UNCHANGED <<pidfile, file, at, seen, writer, count, before, quiet>>,
           p \in Fscks /\ quiet[p] /\ code \in {0, 1, 4} => Verdict(p, code)
    PROVE  DirInv'
<1> USE DEF DirInv
<1>1. /\ pc \in [Procs -> Places] /\ pc' = [pc EXCEPT ![p] = "off"]
      /\ exit \in [Procs -> {None, 0, 1, 4, 8, 9}] /\ exit' = [exit EXCEPT ![p] = code]
      /\ ex' = (IF ex = p THEN None ELSE ex) /\ sh' = sh \ {p}
  <2>1. pc \in [Procs -> Places]
    BY Zenon DEF DirTypes
  <2> QED
    BY <2>1, Zenon DEF Ends, Go, DirTypeOK
<1>2. pc'[p] = "off" /\ \A q \in Procs \ {p} : pc'[q] = pc[q]
  BY <1>1, Zenon
<1>3. DirTypeOK'
  BY <1>1, Zenon DEF DirTypeOK
<1>4. DirTypes'
  <2>1. pc' \in [Procs -> Places] /\ Role(p, pc'[p])
    BY <1>1, <1>2, Zenon DEF Places, Role
  <2> QED
    BY <1>2, <2>1, Zenon DEF DirTypes
<1>5. LockHeld'
  <2>1. ASSUME NEW q \in Procs, Holding(q)' PROVE ex' = q
    <3>1. q # p /\ Holding(q)
      BY <1>2, <2>1, Zenon DEF Holding
    <3> QED
      BY <1>1, <3>1, Zenon DEF LockHeld
  <2>2. ex' \notin Checks
    BY <1>1, Zenon DEF LockHeld, DirAssumption, Procs, Fscks
  <2> QED
    BY <2>1, <2>2, Zenon DEF LockHeld
<1>6. Indexed'
  BY <1>2 DEF Indexed, Procs
<1>7. Walking'
  BY <1>2, Zenon DEF Walking, Procs
<1>8. ASSUME NEW f \in Fscks, Undisturbed(f)' PROVE Undisturbed(f) /\ f # p /\ pc'[f] = pc[f]
  BY <1>2, <1>8, Zenon DEF Undisturbed, Procs
<1>9. Ahead'
  BY <1>1, <1>8 DEF Ahead, AheadOf, Was
<1>10. Behind'
  BY <1>8, Zenon DEF Behind, Tally, Was
<1>11. ExitTrue'
  <2> SUFFICES ASSUME NEW f \in Fscks, pc'[f] = "off", quiet'[f], exit'[f] \in {0, 1, 4}
               PROVE  Verdict(f, exit'[f])
    BY DEF ExitTrue, Verdict
  <2>1. CASE f = p
    BY <1>1, <2>1, Zenon
  <2>2. CASE f # p
    BY <1>1, <1>2, <2>2, Zenon DEF ExitTrue, Procs
  <2> QED
    BY <2>1, <2>2, Zenon
<1> QED
  BY <1>3, <1>4, <1>5, <1>6, <1>7, <1>9, <1>10, <1>11, Zenon

\* A process that goes on to its next step, with nothing changed that the
\* others see but the pid in the lock file and a shared lock in passing.
LEMMA MoveStep ==
    ASSUME DirAssumption, DirInv, NEW p \in Procs, NEW l \in {"lock", "init", "unlock", "list", "ring"}, Go(p, l),
           UNCHANGED <<ex, file, at, seen, count, before, quiet, exit>>,
           sh' \subseteq Checks, pidfile' \in Procs \cup {None},
           writer' \in [Fscks -> Procs \cup {None, "?"}],
           \A f \in Fscks : writer'[f] = writer[f] \/ ~Undisturbed(f),
           p \in Daemons => l \in {"lock", "init"},
           p \in Repairs => l \in {"list", "ring"},
           p \in Checks => l \in {"unlock", "list", "ring"},
           p \in Fscks => pc[p] \in {"lock", "pid", "unlock", "list"},
           l = "init" \/ p \in Repairs => ex = p
    PROVE  DirInv'
<1> USE DEF DirInv
<1>1. pc \in [Procs -> Places] /\ pc' = [pc EXCEPT ![p] = l]
  <2>1. pc \in [Procs -> Places]
    BY Zenon DEF DirTypes
  <2> QED
    BY <2>1, Zenon DEF Go
<1>2. pc'[p] = l /\ \A q \in Procs \ {p} : pc'[q] = pc[q]
  BY <1>1, Zenon
<1>3. DirTypeOK'
  BY Zenon DEF DirTypeOK
<1>4. DirTypes'
  <2>1. pc' \in [Procs -> Places] /\ Role(p, pc'[p])
    BY <1>1, <1>2, Zenon DEF Places, Role
  <2> QED
    BY <1>2, <2>1, Zenon DEF DirTypes
<1>5. LockHeld'
  <2>1. ASSUME NEW q \in Procs, Holding(q)' PROVE ex' = q
    <3>1. CASE q = p
      BY <1>2, <2>1, <3>1, Zenon DEF Holding
    <3>2. CASE q # p
      BY <1>2, <2>1, <3>2, Zenon DEF Holding, LockHeld
    <3> QED
      BY <3>1, <3>2, Zenon
  <2> QED
    BY <2>1, Zenon DEF LockHeld
<1>6. Indexed'
  BY <1>2 DEF Indexed, Procs
<1>7. Walking'
  BY <1>2, Zenon DEF Walking, Procs
<1>8. ASSUME NEW f \in Fscks, Undisturbed(f)'
      PROVE  /\ Undisturbed(f) /\ writer'[f] = writer[f]
             /\ pc'[f] = pc[f] \/ (pc[f] \notin {"ring", "count"} /\ pc'[f] # "count")
  BY <1>2, <1>8, Zenon DEF Undisturbed, Procs
<1>9. Ahead'
  BY <1>8 DEF Ahead, AheadOf, Was
<1>10. Behind'
  BY <1>8, Zenon DEF Behind, Tally, Was
<1>11. ExitTrue'
  BY <1>2, ExitKept, Zenon DEF Procs
<1> QED
  BY <1>3, <1>4, <1>5, <1>6, <1>7, <1>9, <1>10, <1>11, Zenon

\* The lock is had: nobody held it, and every check that runs is disturbed.
LEMMA LockStep == ASSUME DirAssumption, DirInv, NEW p \in Procs, Lock(p) PROVE DirInv'
<1> USE DEF DirInv
<1>1. /\ pc \in [Procs -> Places] /\ pc' = [pc EXCEPT ![p] = "pid"] /\ pc[p] = "lock"
      /\ p \notin Checks /\ ex = None /\ ex' = p /\ quiet \in [Fscks -> BOOLEAN]
      /\ quiet' = [f \in Fscks |-> quiet[f] /\ (f = p \/ pc[f] = "off")]
      /\ UNCHANGED <<sh, pidfile, file, at, seen, writer, count, before, exit>>
  BY Zenon DEF Lock, Go, granted, fsckVars, DirTypes
<1>2. pc'[p] = "pid" /\ \A q \in Procs \ {p} : pc'[q] = pc[q]
  BY <1>1, Zenon
<1>3. \A q \in Procs : ~Holding(q)
  BY <1>1, Zenon DEF LockHeld, DirAssumption
<1>4. DirTypeOK'
  BY <1>1, Zenon DEF DirTypeOK
<1>5. DirTypes'
  <2>1. quiet' \in [Fscks -> BOOLEAN]
    BY <1>1, Zenon
  <2> QED
    <3>1. pc' \in [Procs -> Places] /\ Role(p, pc'[p])
      BY <1>1, <1>2, Zenon DEF Places, Role
    <3> QED
      BY <1>1, <1>2, <2>1, <3>1, Zenon DEF DirTypes
<1>6. LockHeld'
  <2>1. ASSUME NEW q \in Procs, Holding(q)' PROVE q = p
    BY <1>2, <1>3, <2>1, Zenon DEF Holding
  <2> QED
    BY <1>1, <2>1, Zenon DEF LockHeld
<1>7. Indexed'
  BY <1>1, <1>2, Zenon DEF Indexed, Procs
<1>8. Walking'
  BY <1>1, <1>2, Zenon DEF Walking, Procs
<1>9. ASSUME NEW f \in Fscks, Undisturbed(f)' PROVE f = p /\ Undisturbed(f)
  BY <1>1, <1>2, <1>9, Zenon DEF Undisturbed, Procs
<1>10. Ahead'
  BY <1>1, <1>2, <1>9, Zenon DEF Ahead, AheadOf, Was
<1>11. Behind'
  BY <1>1, <1>9, Zenon DEF Behind, Tally, Was
<1>12. ExitTrue'
  BY <1>1, <1>2, ExitKept, Zenon DEF Procs
<1> QED
  BY <1>4, <1>5, <1>6, <1>7, <1>8, <1>10, <1>11, <1>12, Zenon

\* A daemon that holds the lock writes the rings: no other process writes, and
\* no check is left undisturbed.
LEMMA DaemonStep ==
    ASSUME DirAssumption, DirInv, NEW d \in Daemons, NEW l \in {"run", "placed"}, NEW i \in Nat,
           Holding(d), Go(d, l), at' = [at EXCEPT ![d] = i], file' \in [Files -> Ring],
           UNCHANGED <<ex, sh, pidfile, seen, writer, count, before, exit, quiet>>,
           \A f \in Files : file'[f].idx <= file'[f].top,
           l = "run" => \A f \in Files : file'[f].idx = file'[f].top,
           l = "placed" => /\ i \in 1 .. Len(RingNames)
                           /\ \A f \in Files : file'[f].top = file'[f].idx + (IF f = RingNames[i] THEN 1 ELSE 0)
    PROVE  DirInv'
<1> USE DEF DirInv
<1>1. /\ pc \in [Procs -> Places] /\ pc' = [pc EXCEPT ![d] = l] /\ d \in Procs /\ d \notin Fscks
      /\ at \in [Procs -> Nat] /\ ex = d /\ ex # None
  BY Zenon DEF Go, DirTypes, Procs, LockHeld, DirAssumption
<1>2. /\ pc'[d] = l /\ at'[d] = i
      /\ \A q \in Procs \ {d} : pc'[q] = pc[q] /\ at'[q] = at[q]
  BY <1>1, Zenon
<1>3. \A q \in Procs \ {d} : ~Holding(q) /\ ~Holding(q)'
  BY <1>1, <1>2, Zenon DEF LockHeld, Holding
<1>4. DirTypeOK'
  BY Zenon DEF DirTypeOK, Ring
<1>5. DirTypes'
  <2>1. pc' \in [Procs -> Places] /\ at' \in [Procs -> Nat] /\ Role(d, pc'[d])
    BY <1>1, <1>2, Zenon DEF Places, Role, Fscks
  <2> QED
    BY <1>2, <2>1, Zenon DEF DirTypes
<1>6. LockHeld'
  BY <1>1, <1>3, Zenon DEF LockHeld
<1>7. Indexed'
  <2>1. ASSUME NEW e \in Daemons, pc'[e] \in {"run", "placed"} PROVE e = d
    BY <1>3, <2>1, Zenon DEF Holding, Procs
  <2> QED
    BY <1>2, <2>1 DEF Indexed
<1>8. Walking'
  BY <1>1, <1>2, Zenon DEF Walking, Procs
<1>9. \A f \in Fscks : ~Undisturbed(f)'
  <2> SUFFICES ASSUME NEW f \in Fscks PROVE ~Undisturbed(f)'
    BY Zenon
  <2>1. ~Undisturbed(f)
    BY <1>1, Zenon DEF Ahead, AheadOf
  <2> QED
    BY <1>1, <1>2, <2>1, Zenon DEF Undisturbed, Procs
<1>10. Ahead' /\ Behind'
  BY <1>9, Zenon DEF Ahead, Behind
<1>11. ExitTrue'
  BY <1>1, <1>2, ExitKept, Zenon DEF Procs
<1> QED
  BY <1>4, <1>5, <1>6, <1>7, <1>8, <1>10, <1>11, Zenon

\* A fsck begins, or ends at once on its arguments: its counters are empty and
\* all rings are ahead.
LEMMA BeginStep == ASSUME DirAssumption, DirInv, NEW p \in Fscks, FsckBegins(p) PROVE DirInv'
<1> USE DEF DirInv
<1>1. /\ pc \in [Procs -> Places] /\ exit \in [Procs -> {None, 0, 1, 4, 8, 9}] /\ p \in Procs
      /\ at \in [Procs -> Nat] /\ quiet \in [Fscks -> BOOLEAN] /\ before \in [Fscks -> [Files -> Ring]]
      /\ writer \in [Fscks -> Procs \cup {None, "?"}]
      /\ count \in [Fscks -> Counts]
      /\ file \in [Files -> Ring]
  BY Zenon DEF DirTypes, DirTypeOK, Procs, Ring
<1>2. /\ pc[p] = "off" /\ UNCHANGED <<pidfile, file, seen>>
      /\ count' = [count EXCEPT ![p] = [left |-> 0, repaired |-> 0, unchecked |-> 0]]
      /\ writer' = [writer EXCEPT ![p] = None] /\ at' = [at EXCEPT ![p] = 1]
      /\ before' = [before EXCEPT ![p] = file] /\ quiet' = [quiet EXCEPT ![p] = (ex = None)]
  BY Zenon DEF FsckBegins
<1>3. \/ pc' = [pc EXCEPT ![p] = "lock"] /\ UNCHANGED <<ex, sh, exit>>
      \/ /\ pc' = [pc EXCEPT ![p] = "off"] /\ exit' = [exit EXCEPT ![p] = 8]
         /\ ex' = (IF ex = p THEN None ELSE ex) /\ sh' = sh \ {p}
  BY Zenon DEF FsckBegins, Go, Ends
<1>4. pc'[p] \in {"off", "lock"} /\ exit'[p] \in {exit[p], 8} /\ (pc'[p] = "off" => exit'[p] = 8)
  BY <1>1, <1>3, Zenon
<1>5. \A q \in Procs \ {p} : pc'[q] = pc[q] /\ exit'[q] = exit[q] /\ at'[q] = at[q]
  BY <1>1, <1>2, <1>3, Zenon
<1>6. \A f \in Fscks \ {p} : /\ count'[f] = count[f] /\ writer'[f] = writer[f]
                              /\ before'[f] = before[f] /\ quiet'[f] = quiet[f]
  BY <1>1, <1>2, Zenon
<1>7. /\ count'[p] = [left |-> 0, repaired |-> 0, unchecked |-> 0] /\ writer'[p] = None
      /\ before'[p] = file /\ quiet'[p] = (ex = None) /\ at'[p] = 1
  BY <1>1, <1>2, Zenon
<1>8. /\ ex' = ex \/ (ex = p /\ ex' = None)
      /\ sh' \subseteq sh /\ exit' \in [Procs -> {None, 0, 1, 4, 8, 9}] /\ pc' \in [Procs -> Places]
  BY <1>1, <1>3, Zenon DEF Places
<1>9. DirTypeOK'
  BY <1>2, <1>8, Zenon DEF DirTypeOK
<1>10. DirTypes'
  <2>1. /\ at' \in [Procs -> Nat] /\ writer' \in [Fscks -> Procs \cup {None, "?"}]
        /\ before' \in [Fscks -> [Files -> Ring]]
    BY <1>1, <1>2, Zenon
  <2>2. count' \in [Fscks -> Counts]
    BY <1>1, <1>2, Zenon DEF Counts
  <2>3. quiet' \in [Fscks -> BOOLEAN]
    BY <1>1, <1>2, Zenon
  <2> QED
    <3>1. Role(p, pc'[p]) /\ UNCHANGED <<pidfile, seen>>
      BY <1>2, <1>4, Zenon DEF Role, DirAssumption
    <3> QED
      BY <1>5, <1>8, <2>1, <2>2, <2>3, <3>1, Zenon DEF DirTypes
<1>11. LockHeld'
  <2>1. ASSUME NEW q \in Procs, Holding(q)' PROVE ex' = q
    <3>1. q # p /\ Holding(q)
      BY <1>4, <1>5, <2>1, Zenon DEF Holding
    <3> QED
      BY <1>8, <3>1, Zenon DEF LockHeld
  <2>2. ex' \notin Checks
    BY <1>8, Zenon DEF LockHeld, DirAssumption, Procs, Fscks
  <2> QED
    BY <2>1, <2>2, Zenon DEF LockHeld
<1>12. Indexed'
  <2>1. \A d \in Daemons : pc'[d] = pc[d] /\ at'[d] = at[d]
    BY <1>5, Zenon DEF DirAssumption, Procs
  <2> QED
    BY <1>2, <2>1 DEF Indexed
<1>13. Walking'
  <2>1. Len(RingNames) \in Nat
    BY DEF DirAssumption
  <2> QED
    BY <1>4, <1>5, <1>6, <1>7, <2>1 DEF Walking, Indexed, Procs
<1>14. ASSUME NEW f \in Fscks, Undisturbed(f)', f # p PROVE Undisturbed(f)
  BY <1>5, <1>6, <1>14, Zenon DEF Undisturbed, Procs
<1>15. Ahead'
  <2> SUFFICES ASSUME NEW f \in Fscks, Undisturbed(f)' PROVE AheadOf(f)'
    BY Zenon DEF Ahead
  <2>1. CASE f = p
    <3>1. ex = None /\ ex' = None
      BY <1>7, <1>8, <2>1, Zenon DEF Undisturbed
    <3>2. file' = file
      BY <1>2, Zenon
    <3> QED
      BY <1>4, <1>7, <2>1, <3>1, <3>2, Zenon DEF AheadOf, Was
  <2>2. CASE f # p
    <3>1. AheadOf(f) /\ f \in Procs
      BY <1>14, <2>2, Zenon DEF Ahead, Procs
    <3>2. /\ ex' \in {None, f} /\ file' = file /\ seen' = seen /\ pc'[f] = pc[f] /\ at'[f] = at[f]
          /\ writer'[f] = writer[f] /\ before'[f] = before[f]
      BY <1>2, <1>5, <1>6, <1>8, <2>2, <3>1, Zenon DEF AheadOf
    <3> QED
      BY <3>1, <3>2, Zenon DEF AheadOf, Was
  <2> QED
    BY <2>1, <2>2, Zenon
<1>16. Behind'
  <2> SUFFICES ASSUME NEW f \in Fscks, Undisturbed(f)'
               PROVE  Tally(f, count[f], at[f] - 1)'
    BY Zenon DEF Behind
  <2>1. CASE f = p
    BY <1>7, <2>1 DEF Tally
  <2>2. CASE f # p
    <3>1. Undisturbed(f) /\ f \in Procs
      BY <1>14, <2>2, Zenon DEF Procs
    <3> QED
      BY <1>5, <1>6, <2>2, <3>1 DEF Behind, Tally, Was
  <2> QED
    BY <2>1, <2>2, Zenon
<1>17. ExitTrue'
  <2> SUFFICES ASSUME NEW f \in Fscks, pc'[f] = "off", quiet'[f], exit'[f] \in {0, 1, 4}
               PROVE  Verdict(f, exit[f])'
    BY Zenon DEF ExitTrue
  <2>1. f # p /\ f \in Procs
    BY <1>4 DEF Procs
  <2> QED
    BY <1>5, <1>6, <2>1 DEF ExitTrue, Verdict
<1> QED
  BY <1>9, <1>10, <1>11, <1>12, <1>13, <1>15, <1>16, <1>17, Zenon

\* The counters of a fsck that went through undisturbed tell what the rings were.
LEMMA VerdictAtEnd ==
    ASSUME DirAssumption, DirInv, NEW p \in Fscks, FsckEnds(p), quiet[p], exit_code(count[p]) \in {0, 1, 4}
    PROVE  Verdict(p, exit_code(count[p]))
<1> USE DEF DirInv
<1> DEFINE N == Len(RingNames)  c == count[p]  code == exit_code(c)
<1>1. N \in Nat /\ at[p] - 1 = N /\ Undisturbed(p) /\ c \in Counts
  <2>1. p \in Procs /\ pc[p] = "ring" /\ at[p] > N /\ at \in [Procs -> Nat] /\ N \in Nat
    BY DEF FsckEnds, Procs, DirTypes, DirAssumption
  <2> QED
    <3>1. at[p] \in 1 .. N + 1
      BY <2>1, Zenon DEF Walking
    <3>2. Undisturbed(p) /\ c \in Counts
      BY <2>1, Zenon DEF DirTypes, Undisturbed
    <3> QED
      BY <2>1, <3>1, <3>2
<1>2. Tally(p, c, N)
  BY <1>1, Zenon DEF Behind
<1>3. /\ c.unchecked = 0 /\ (code = 0 <=> ~(c.left > 0) /\ ~(c.repaired > 0))
      /\ (code = 1 => ~(c.left > 0)) /\ (code = 4 => c.left > 0)
  BY <1>1 DEF Counts, exit_code
<1>4. \A x : x \in {before[p][f] : f \in Files} <=> \E i \in 1 .. N : x = Was(p, i)
  BY Zenon DEF Files, Was
<1>5. ASSUME NEW i \in 1 .. N
      PROVE  /\ Was(p, i).kind # "unreachable"
             /\ Clean(Was(p, i)) <=> ~LeftAs(p, Was(p, i)) /\ ~MendedBy(p, Was(p, i))
             /\ ~LeftAs(p, Was(p, i)) <=> Clean(Was(p, i)) \/ (p \in Repairs /\ Mendable(Was(p, i)))
  <2>1. Was(p, i) \in Ring /\ Was(p, i).idx <= Was(p, i).top
    <3>1. RingNames[i] \in Files
      BY Zenon DEF Files
    <3> QED
      BY <3>1, Zenon DEF Was, DirTypes, Walking
  <2>2. Was(p, i).kind # "unreachable"
    BY <1>2, <1>3 DEF Tally
  <2> QED
    BY <2>1, <2>2 DEF Ring, AllKinds, LeftAs, MendedBy, Clean, Mendable, errors_but_unindexed, DirAssumption
<1> HIDE DEF N, c, code
<1>6. /\ c.left > 0 <=> \E i \in 1 .. N : LeftAs(p, Was(p, i))
      /\ c.repaired > 0 <=> \E i \in 1 .. N : MendedBy(p, Was(p, i))
  BY <1>2, Zenon DEF Tally
<1> DEFINE rings == {before[p][f] : f \in Files}
<1>7. (\A x \in rings : Clean(x)) <=> \A i \in 1 .. N : Clean(Was(p, i))
  BY <1>4, ZenonT(60)
<1>8. /\ \A x \in rings : x.kind # "unreachable"
      /\ (\A x \in rings : Clean(x) \/ (p \in Repairs /\ Mendable(x))) <=> \A i \in 1 .. N : ~LeftAs(p, Was(p, i))
  <2>1. ASSUME NEW x \in rings PROVE x.kind # "unreachable"
    <3>1. PICK i \in 1 .. N : x = Was(p, i)
      BY <1>4, Zenon
    <3> QED
      BY <1>5, <3>1, Zenon
  <2>2. \A x \in rings : (Clean(x) \/ (p \in Repairs /\ Mendable(x))) <=> ~LeftAs(p, x)
    BY <1>4, <1>5, ZenonT(60)
  <2>3. (\A x \in rings : ~LeftAs(p, x)) <=> \A i \in 1 .. N : ~LeftAs(p, Was(p, i))
    BY <1>4, Zenon
  <2> QED
    BY <2>1, <2>2, <2>3, Zenon
<1>9. /\ code = 0 <=> \A x \in rings : Clean(x)
      /\ code = 1 => \A i \in 1 .. N : ~LeftAs(p, Was(p, i))
      /\ code = 4 => ~(\A i \in 1 .. N : ~LeftAs(p, Was(p, i)))
  BY <1>3, <1>5, <1>6, <1>7, Zenon
<1>10. Verdict(p, code)
  BY <1>8, <1>9, Zenon DEF Verdict
<1> QED
  BY <1>10, Zenon DEF code, c

LEMMA Stutter == ASSUME DirInv, UNCHANGED dirvars PROVE DirInv'
<1>1. /\ pc' = pc /\ ex' = ex /\ sh' = sh /\ pidfile' = pidfile /\ file' = file /\ at' = at /\ seen' = seen
      /\ writer' = writer /\ count' = count /\ exit' = exit /\ quiet' = quiet /\ before' = before
  BY Zenon DEF dirvars
<1> USE <1>1 DEF DirInv
<1>2. DirTypeOK' /\ LockHeld'
  BY Zenon DEF DirTypeOK, LockHeld, Holding
<1>3. DirTypes'
  BY Zenon DEF DirTypes
<1>4. Indexed' /\ Walking'
  BY Zenon DEF Indexed, Walking
<1>5. Ahead'
  BY ZenonT(60) DEF Ahead, AheadOf, Was, Undisturbed
<1>6. Behind'
  BY Zenon DEF Behind, Tally, Was, Undisturbed
<1>7. ExitTrue'
  BY DEF ExitTrue, Verdict
<1> QED
  BY <1>2, <1>3, <1>4, <1>5, <1>6, <1>7, Zenon

LEMMA DirStep == DirAssumption /\ DirInv /\ [DirNext]_dirvars => DirInv'
<1> SUFFICES ASSUME DirAssumption, DirInv, [DirNext]_dirvars PROVE DirInv'
  BY Zenon
<1>1. ASSUME NEW p \in Procs, Lock(p) PROVE DirInv'
  BY <1>1, LockStep, Zenon
<1>2. ASSUME NEW p \in Procs, LockRefused(p) \/ LockUnusable(p) PROVE DirInv'
  <2> DEFINE code == IF p \in Daemons THEN 1 ELSE 8
  <2>1. /\ Ends(p, code) /\ UNCHANGED <<pidfile, file, at, seen, writer, count, before, quiet>>
        /\ code \in {0, 1, 4, 8, 9} /\ (p \in Fscks => code = 8)
    BY <1>2, Zenon DEF LockRefused, LockUnusable, fsckVars, DirAssumption
  <2> HIDE DEF code
  <2>2. p \in Fscks => code \notin {0, 1, 4}
    BY <2>1
  <2> QED
    BY <2>1, <2>2, EndStep, Zenon
<1>3. ASSUME NEW p \in Procs, WritePid(p) PROVE DirInv'
  <2> DEFINE l == IF p \in Daemons THEN "init" ELSE "list"
  <2>1. /\ pc[p] = "pid" /\ Go(p, l) /\ pidfile' = p
        /\ UNCHANGED <<ex, sh, file, at, seen, writer, count, before, quiet, exit>>
    BY <1>3, Zenon DEF WritePid, fsckVars
  <2>2. p \notin Checks /\ ex = p /\ sh' \subseteq Checks /\ writer' \in [Fscks -> Procs \cup {None, "?"}]
    BY <2>1, Zenon DEF DirInv, DirTypes, Role, DirTypeOK, LockHeld, Holding
  <2>3. /\ l \in {"lock", "init", "unlock", "list", "ring"}
        /\ p \in Daemons => l \in {"lock", "init"}
        /\ p \in Repairs => l \in {"list", "ring"}
    BY Zenon DEF DirAssumption, Fscks
  <2> HIDE DEF l
  <2> QED
    BY <2>1, <2>2, <2>3, MoveStep, Zenon
<1>4. ASSUME NEW d \in Daemons, ServeBegins(d) PROVE DirInv'
  <2>1. d \in Procs /\ d \notin Fscks /\ d \notin Repairs /\ d \notin Checks
    BY Zenon DEF Procs, DirAssumption, Fscks
  <2>2. UNCHANGED <<pidfile, file, at, seen, writer, count, before, quiet>>
    BY <1>4, Zenon DEF ServeBegins, fsckVars
  <2>3. CASE Ends(d, 1)
    BY <2>1, <2>2, <2>3, EndStep, Zenon
  <2>4. CASE Go(d, "lock") /\ UNCHANGED <<ex, sh, exit>>
    <3>1. /\ sh' \subseteq Checks /\ pidfile' \in Procs \cup {None}
          /\ writer' \in [Fscks -> Procs \cup {None, "?"}]
      BY <2>2, <2>4, Zenon DEF DirInv, DirTypes, DirTypeOK
    <3> QED
      BY <2>1, <2>2, <2>4, <3>1, MoveStep
  <2> QED
    BY <1>4, <2>3, <2>4, Zenon DEF ServeBegins
<1>5. ASSUME NEW d \in Daemons, TierInit(d) PROVE DirInv'
  <2>1. d \in Procs /\ d \notin Fscks /\ at \in [Procs -> Nat] /\ Holding(d) /\ file \in [Files -> Ring]
    BY <1>5, Zenon DEF TierInit, Procs, DirAssumption, Holding, DirInv, DirTypes, DirTypeOK, Ring
  <2>2. UNCHANGED <<pidfile, at, seen, writer, count, before, quiet>>
    BY <1>5, Zenon DEF TierInit, fsckVars
  <2>3. CASE Ends(d, 1) /\ UNCHANGED file
    BY <2>1, <2>2, <2>3, EndStep, Zenon
  <2>4. CASE /\ file' = [f \in Files |-> recovered(file[f])]
             /\ Go(d, "run") /\ UNCHANGED <<ex, sh, exit>>
    <3>1. ASSUME NEW f \in Files
          PROVE  recovered(file[f]) \in Ring /\ recovered(file[f]).idx = recovered(file[f]).top
      BY <2>1, Zenon DEF recovered, Ring, AllKinds
    <3>2. file' \in [Files -> Ring] /\ \A f \in Files : file'[f].idx = file'[f].top
      BY <2>4, <3>1, Zenon
    <3>3. \A f \in Files : file'[f].idx <= file'[f].top
      BY <3>2 DEF Ring, DirAssumption
    <3>4. at' = [at EXCEPT ![d] = at[d]] /\ at[d] \in Nat
      BY <2>1, <2>2, Zenon
    <3> QED
      BY <2>1, <2>2, <2>4, <3>2, <3>3, <3>4, DaemonStep, Zenon
  <2> QED
    BY <1>5, <2>3, <2>4, Zenon DEF TierInit
<1>6. ASSUME NEW d \in Daemons, Place(d) PROVE DirInv'
  <2>1. /\ d \in Procs /\ Holding(d) /\ file \in [Files -> Ring] /\ MaxTop \in Nat
        /\ \A f \in Files : file[f].idx = file[f].top
    BY <1>6, Zenon DEF Place, Procs, Holding, DirInv, DirTypeOK, Ring, Indexed, DirAssumption
  <2>2. UNCHANGED <<ex, sh, pidfile, seen, writer, count, before, exit, quiet>> /\ Go(d, "placed")
    BY <1>6, Zenon DEF Place, fsckVars
  <2>3. PICK i \in 1 .. Len(RingNames) : /\ file[RingNames[i]].top < MaxTop
                                     /\ file' = [file EXCEPT ![RingNames[i]].top = @ + 1]
                                     /\ at' = [at EXCEPT ![d] = i]
    BY <1>6, Zenon DEF Place
  <2>4. RingNames[i] \in Files /\ i \in Nat
    BY DEF Files, DirAssumption
  <2>5. ASSUME NEW f \in Files
        PROVE  /\ file'[f] \in Ring /\ file'[f].idx <= file'[f].top
               /\ file'[f].top = file'[f].idx + (IF f = RingNames[i] THEN 1 ELSE 0)
    <3>1. file'[f] = IF f = RingNames[i] THEN [file[f] EXCEPT !.top = @ + 1] ELSE file[f]
      BY <2>1, <2>3, <2>4, Zenon
    <3>2. file[f] \in Ring /\ file[f].idx = file[f].top
      BY <2>1, Zenon
    <3>3. CASE f = RingNames[i]
      <4>1. file[f].top < MaxTop /\ file'[f] = [file[f] EXCEPT !.top = @ + 1]
        BY <2>3, <3>1, <3>3, Zenon
      <4> QED
        BY <2>1, <3>2, <3>3, <4>1 DEF Ring
    <3>4. CASE f # RingNames[i]
      BY <2>1, <3>1, <3>2, <3>4 DEF Ring
    <3> QED
      BY <3>3, <3>4, Zenon
  <2>6. file' \in [Files -> Ring]
    BY <2>1, <2>3, <2>5, Zenon
  <2> QED
    BY <2>1, <2>2, <2>3, <2>4, <2>5, <2>6, DaemonStep, Zenon
<1>7. ASSUME NEW d \in Daemons, Index(d) PROVE DirInv'
  <2> DEFINE g == RingNames[at[d]]
  <2>1. /\ d \in Procs /\ Holding(d) /\ file \in [Files -> Ring] /\ at[d] \in 1 .. Len(RingNames)
        /\ \A f \in Files : file[f].top = file[f].idx + (IF f = g THEN 1 ELSE 0)
        /\ at \in [Procs -> Nat]
    BY <1>7, Zenon DEF Index, Procs, Holding, DirInv, DirTypes, DirTypeOK, Ring, Indexed
  <2>2. /\ UNCHANGED <<ex, sh, pidfile, at, seen, writer, count, before, exit, quiet>> /\ Go(d, "run")
        /\ file' = [file EXCEPT ![g].idx = @ + 1]
    BY <1>7, Zenon DEF Index, fsckVars
  <2>3. g \in Files /\ at' = [at EXCEPT ![d] = at[d]] /\ at[d] \in Nat
    BY <2>1, <2>2, Zenon DEF Files
  <2> HIDE DEF g
  <2>4. ASSUME NEW f \in Files
        PROVE  file'[f] \in Ring /\ file'[f].idx = file'[f].top /\ file'[f].idx <= file'[f].top
    <3>1. file'[f] = IF f = g THEN [file[f] EXCEPT !.idx = @ + 1] ELSE file[f]
      BY <2>1, <2>2, <2>3, Zenon
    <3>2. file[f] \in Ring /\ file[f].top = file[f].idx + (IF f = g THEN 1 ELSE 0) /\ MaxTop \in Nat
      BY <2>1, Zenon DEF DirAssumption
    <3>3. CASE f = g
      BY <3>1, <3>2, <3>3 DEF Ring
    <3>4. CASE f # g
      BY <3>1, <3>2, <3>4 DEF Ring
    <3> QED
      BY <3>3, <3>4, Zenon
  <2>5. file' \in [Files -> Ring]
    BY <2>1, <2>2, <2>4, Zenon
  <2> QED
    BY <2>1, <2>2, <2>3, <2>4, <2>5, DaemonStep, Zenon
<1>8. ASSUME NEW d \in Daemons, Stop(d) \/ Crash(d) PROVE DirInv'
  <2>1. d \in Procs /\ d \notin Fscks
    BY Zenon DEF Procs, DirAssumption
  <2>2. PICK code \in {0, 9} : Ends(d, code) /\ UNCHANGED <<pidfile, file, at, seen, writer, count, before, quiet>>
    BY <1>8, Zenon DEF Stop, Crash, fsckVars
  <2>3. code \in {0, 1, 4, 8, 9}
    BY Zenon
  <2> QED
    BY <2>1, <2>2, <2>3, EndStep, Zenon
<1>9. ASSUME NEW f \in Fscks, FsckBegins(f) PROVE DirInv'
  BY <1>9, BeginStep, Zenon
<1>10. ASSUME NEW f \in Fscks, Probe(f) PROVE DirInv'
  <2>1. /\ f \in Checks /\ pc[f] = "lock" /\ f \in Procs /\ f \notin Daemons /\ f \notin Repairs
        /\ pidfile' \in Procs \cup {None} /\ sh \subseteq Checks
        /\ UNCHANGED <<ex, pidfile, file, at, seen, count, before, exit, quiet>>
        /\ writer \in [Fscks -> Procs \cup {None, "?"}]
    BY <1>10, Zenon DEF Probe, Procs, DirAssumption, DirInv, DirTypes, DirTypeOK
  <2>2. CASE ex # None
    <3>1. /\ writer' = [writer EXCEPT ![f] = IF pidfile = None THEN "?" ELSE pidfile]
          /\ Go(f, "list") /\ UNCHANGED sh
      BY <1>10, <2>2, Zenon DEF Probe
    <3>2. writer' \in [Fscks -> Procs \cup {None, "?"}] /\ \A h \in Fscks \ {f} : writer'[h] = writer[h]
      BY <2>1, <3>1, Zenon
    <3>3. ~Undisturbed(f)
      <4>1. ex # f
        BY <2>1, Zenon DEF DirInv, LockHeld
      <4> QED
        BY <2>2, <4>1, Zenon DEF DirInv, Ahead, AheadOf
    <3> QED
      BY <2>1, <3>1, <3>2, <3>3, MoveStep, Zenon
  <2>3. CASE ex = None
    <3>1. sh' = sh \cup {f} /\ Go(f, "unlock") /\ UNCHANGED writer
      BY <1>10, <2>3, Zenon DEF Probe
    <3>2. sh' \subseteq Checks
      BY <2>1, <3>1, Zenon
    <3> QED
      BY <2>1, <3>1, <3>2, MoveStep, Zenon
  <2> QED
    BY <2>2, <2>3, Zenon
<1>11. ASSUME NEW f \in Fscks, Unprobe(f) PROVE DirInv'
  <2>1. /\ f \in Checks /\ pc[f] = "unlock" /\ f \in Procs /\ f \notin Daemons /\ f \notin Repairs
        /\ pidfile' \in Procs \cup {None} /\ sh' \subseteq Checks /\ Go(f, "list")
        /\ UNCHANGED <<ex, pidfile, file, at, seen, writer, count, before, exit, quiet>>
        /\ writer' \in [Fscks -> Procs \cup {None, "?"}]
    BY <1>11, Zenon DEF Unprobe, fsckVars, Procs, Fscks, DirAssumption, DirInv, DirTypes, Role, DirTypeOK
  <2> QED
    BY <2>1, MoveStep, Zenon
<1>12. ASSUME NEW f \in Fscks, List(f) PROVE DirInv'
  <2>1. /\ pc[f] = "list" /\ f \in Procs /\ f \notin Daemons /\ (f \in Repairs => ex = f)
        /\ UNCHANGED <<pidfile, file, at, seen, writer, count, before, quiet>>
        /\ pidfile' \in Procs \cup {None} /\ writer' \in [Fscks -> Procs \cup {None, "?"}]
    BY <1>12, Zenon DEF List, fsckVars, Procs, DirAssumption, DirInv, DirTypes, LockHeld, Holding
  <2>2. CASE Ends(f, 8)
    BY <2>1, <2>2, EndStep
  <2>3. CASE Go(f, "ring") /\ UNCHANGED <<ex, sh, exit>>
    <3>1. sh' \subseteq Checks
      BY <2>3, Zenon DEF DirInv, DirTypeOK
    <3> QED
      BY <2>1, <2>3, <3>1, MoveStep, Zenon
  <2> QED
    BY <1>12, <2>2, <2>3, Zenon DEF List
<1>13. ASSUME NEW f \in Fscks, OpenRing(f) PROVE DirInv'
  BY <1>13, OpenStep, Zenon
<1>14. ASSUME NEW f \in Fscks, CheckRing(f) PROVE DirInv'
  BY <1>14, CheckStep, Zenon
<1>15. ASSUME NEW f \in Fscks, FsckEnds(f) PROVE DirInv'
  <2> DEFINE code == exit_code(count[f])
  <2>1. f \in Procs /\ Ends(f, code) /\ UNCHANGED <<pidfile, file, at, seen, writer, count, before, quiet>>
    BY <1>15, Zenon DEF FsckEnds, fsckVars, Procs
  <2>2. code \in {0, 1, 4, 8, 9}
    BY Zenon DEF exit_code
  <2>3. quiet[f] /\ code \in {0, 1, 4} => Verdict(f, code)
    BY <1>15, VerdictAtEnd, Zenon
  <2> HIDE DEF code
  <2> QED
    BY <2>1, <2>2, <2>3, EndStep, Zenon
<1>16. CASE UNCHANGED dirvars
  BY <1>16, Stutter, Zenon
<1> QED
  BY <1>1, <1>2, <1>3, <1>4, <1>5, <1>6, <1>7, <1>8, <1>9, <1>10, <1>11, <1>12, <1>13, <1>14, <1>15, <1>16, Zenon
  DEF DirNext

\* Whatever starts, stops, crashes and checks a data directory, in any order:
\* who is past the lock holds it, the index trails the records by the append in
\* hand or by what a crash left, and a fsck that nobody disturbed has counted
\* the rings behind it as what they were.
THEOREM DirInvariant == DirAssumption => (DirSpec => []DirInv)
<1> SUFFICES ASSUME DirAssumption PROVE DirSpec => []DirInv
  BY Zenon
<1>1. DirInit => DirInv
  BY DirStart, Zenon
<1>2. DirInv /\ [DirNext]_dirvars => DirInv'
  BY DirStep, Zenon
<1> QED
  BY <1>1, <1>2, PTL DEF DirSpec

\* For any number of daemons, checks, repairs and rings: never two processes
\* write a data directory together (lock_data_dir()), a daemon that runs has
\* every record counted and the index passes none (TierManager::init()), and
\* the exit status of a fsck that ran undisturbed is the state of the rings.
THEOREM DirectoryIsShared == DirAssumption => (DirSpec => []DirectoryShared)
<1> SUFFICES ASSUME DirAssumption PROVE DirSpec => []DirectoryShared
  BY Zenon
<1>1. DirInv => DirectoryShared
  <2> SUFFICES ASSUME DirInv PROVE DirectoryShared
    BY Zenon
  <2>1. OneWriter
    BY Zenon DEF DirInv, LockHeld, Holding, OneWriter, Writing
  <2>2. AllCounted
    BY Zenon DEF DirInv, Indexed, AllCounted
  <2> QED
    BY <2>1, <2>2, Zenon DEF DirInv, DirectoryShared
<1> QED
  BY <1>1, DirInvariant, PTL
=============================================================================
