------------------------------ MODULE DataDir -------------------------------
(***************************************************************************)
(* One data directory and the processes that come and go on it: `budyk     *)
(* serve` from its first line to its end, `budyk fsck` and `budyk fsck     *)
(* --repair`. They meet at the lock (flock(2) on budyk.lock, with the      *)
(* holder's pid in the file) and at the ring files.                        *)
(*                                                                         *)
(* A ring file is of a kind (what its header and records are worth), with  *)
(* `idx` records indexed and `top` in their slots: `top` is ahead of idx   *)
(* between an append's two writes, and stays ahead after a crash there.    *)
(***************************************************************************)
EXTENDS Integers, Sequences

CONSTANTS Daemons, Repairs, Checks,   \* processes
          RingNames,                      \* the ring files, in the order fsck has them
          Kinds,                      \* the kinds they may be of at first
          None, MaxTop, MaxRuns

Fscks == Repairs \cup Checks
Procs == Daemons \cup Fscks
Files == {RingNames[i] : i \in 1 .. Len(RingNames)}

AllKinds == {"ok", "missing", "unreachable", "denied", "blank", "badheader", "unknown_tier",
             "older", "newer", "damaged"}

DirAssumption ==
    /\ Daemons \cap Fscks = {} /\ Repairs \cap Checks = {}
    /\ None \notin Procs \cup {0, 1, 4, 8, 9}
    /\ RingNames \in Seq(Files) /\ \A i, j \in 1 .. Len(RingNames) : RingNames[i] = RingNames[j] => i = j
    /\ Kinds \subseteq AllKinds
    /\ MaxTop \in Nat \ {0} /\ MaxRuns \in Nat

VARIABLES pc,       \* of each process
          ex, sh,   \* who holds the lock, exclusively (or None) and shared
          pidfile,  \* what budyk.lock says
          file,     \* of each ring: [kind, idx, top]
          at,       \* of a fsck: the ring it is at; of a daemon: the ring it appends to
          seen,     \* of a fsck: idx as it was when the ring was opened
          writer,   \* of a fsck: the pid it found holding the lock
          count,    \* of a fsck: [left, repaired, unchecked]
          exit,     \* how each process last ended
          told,     \* the holder it named when the lock was not to be had
          runs,     \* how often each may still be started
          quiet,    \* of a fsck: nobody else has held the lock since it began
          before    \* of a fsck: the ring files when it began

dirvars == <<pc, ex, sh, pidfile, file, at, seen, writer, count, exit, told, runs, quiet, before>>
fsckVars == <<seen, writer, count, before, told>>

DirInit ==
    /\ pc = [p \in Procs |-> "off"]
    /\ ex = None /\ sh = {} /\ pidfile = None
    /\ file \in [Files -> {[kind |-> k, idx |-> 0, top |-> t] : k \in Kinds, t \in {0, 1}}]
    /\ \A f \in Files : file[f].kind \notin {"ok", "damaged", "blank"} => file[f].top = 0
    /\ at = [p \in Procs |-> 0]
    /\ seen = [p \in Fscks |-> 0] /\ writer = [p \in Fscks |-> None]
    /\ count = [p \in Fscks |-> [left |-> 0, repaired |-> 0, unchecked |-> 0]]
    /\ exit = [p \in Procs |-> None] /\ told = [p \in Procs |-> None] /\ runs \in [Procs -> 0 .. MaxRuns]
    /\ quiet = [p \in Fscks |-> TRUE] /\ before = [p \in Fscks |-> file]

Go(p, l) == pc' = [pc EXCEPT ![p] = l]

\* The process is gone and the kernel has dropped its locks.
Ends(p, code) ==
    /\ Go(p, "off")
    /\ exit' = [exit EXCEPT ![p] = code]
    /\ ex' = IF ex = p THEN None ELSE ex
    /\ sh' = sh \ {p}

-----------------------------------------------------------------------------
(* lock_data_dir(), for a daemon and for a repair. *)

\* flock(LOCK_EX | LOCK_NB) is granted. Faulty form: a shared lock, or none.
granted_always(p) == TRUE
granted(p) == ex = None /\ sh \subseteq {p}

Lock(p) ==
    /\ pc[p] = "lock" /\ p \notin Checks /\ granted(p)
    /\ ex' = p
    /\ Go(p, "pid")
    /\ quiet' = [f \in Fscks |-> quiet[f] /\ (f = p \/ pc[f] = "off")]
    /\ UNCHANGED <<sh, pidfile, file, at, fsckVars, exit, runs>>

\* -EWOULDBLOCK, said with the pid in the file.
LockRefused(p) ==
    /\ pc[p] = "lock" /\ p \notin Checks /\ ~granted(p)
    /\ told' = [told EXCEPT ![p] = IF pidfile = None THEN "?" ELSE pidfile]
    /\ Ends(p, IF p \in Daemons THEN 1 ELSE 8)
    /\ UNCHANGED <<pidfile, file, at, seen, writer, count, before, runs, quiet>>

\* The file cannot be opened, or is not a plain file with one name.
LockUnusable(p) ==
    /\ pc[p] = "lock" /\ p \notin Checks
    /\ Ends(p, IF p \in Daemons THEN 1 ELSE 8)
    /\ UNCHANGED <<pidfile, file, at, fsckVars, runs, quiet>>

WritePid(p) ==
    /\ pc[p] = "pid"
    /\ pidfile' = p
    /\ Go(p, IF p \in Daemons THEN "init" ELSE "list")
    /\ UNCHANGED <<ex, sh, file, at, fsckVars, exit, runs, quiet>>

-----------------------------------------------------------------------------
(* budyk serve *)

\* The arguments, the config, the password hash and the data_dir: all before
\* the lock, each an exit.
ServeBegins(d) ==
    /\ pc[d] = "off" /\ runs[d] > 0
    /\ runs' = [runs EXCEPT ![d] = @ - 1]
    /\ \/ Go(d, "lock") /\ UNCHANGED <<ex, sh, exit>>
       \/ Ends(d, 1)
    /\ UNCHANGED <<pidfile, file, at, fsckVars, quiet>>

\* TierManager::init(): a missing ring made, an older one converted, a blank
\* header written anew, and what a crash left unindexed counted in.
recovered(r) ==
    [r EXCEPT !.kind = IF @ \in {"missing", "older", "blank"} THEN "ok" ELSE @, !.idx = r.top]

Unopenable == {"badheader", "unknown_tier", "newer"}

TierInit(d) ==
    /\ pc[d] = "init"
    /\ IF \E f \in Files : file[f].kind \in Unopenable
       THEN Ends(d, 1) /\ UNCHANGED file
       ELSE /\ file' = [f \in Files |-> recovered(file[f])]
            /\ Go(d, "run")
            /\ UNCHANGED <<ex, sh, exit>>
    /\ UNCHANGED <<pidfile, at, fsckVars, runs, quiet>>

\* An append: the record reaches its slot, then the index moves.
Place(d) ==
    /\ pc[d] = "run"
    /\ \E i \in 1 .. Len(RingNames) :
          /\ file[RingNames[i]].top < MaxTop
          /\ file' = [file EXCEPT ![RingNames[i]].top = @ + 1]
          /\ at' = [at EXCEPT ![d] = i]
    /\ Go(d, "placed")
    /\ UNCHANGED <<ex, sh, pidfile, fsckVars, exit, runs, quiet>>

Index(d) ==
    /\ pc[d] = "placed"
    /\ file' = [file EXCEPT ![RingNames[at[d]]].idx = @ + 1]
    /\ Go(d, "run")
    /\ UNCHANGED <<ex, sh, pidfile, at, fsckVars, exit, runs, quiet>>

Stop(d) ==
    /\ d \in Daemons /\ pc[d] = "run"
    /\ Ends(d, 0)
    /\ UNCHANGED <<pidfile, file, at, fsckVars, runs, quiet>>

Crash(d) ==
    /\ d \in Daemons /\ pc[d] # "off"
    /\ Ends(d, 9)
    /\ UNCHANGED <<pidfile, file, at, fsckVars, runs, quiet>>

-----------------------------------------------------------------------------
(* budyk fsck *)

FsckBegins(f) ==
    /\ pc[f] = "off" /\ runs[f] > 0
    /\ runs' = [runs EXCEPT ![f] = @ - 1]
    /\ count' = [count EXCEPT ![f] = [left |-> 0, repaired |-> 0, unchecked |-> 0]]
    /\ writer' = [writer EXCEPT ![f] = None]
    /\ at' = [at EXCEPT ![f] = 1]
    /\ before' = [before EXCEPT ![f] = file]
    /\ quiet' = [quiet EXCEPT ![f] = (ex = None)]
    /\ \/ Go(f, "lock") /\ UNCHANGED <<ex, sh, exit>>
       \/ Ends(f, 8)                 \* usage, config or data_dir
    /\ UNCHANGED <<pidfile, file, seen, told>>

\* data_dir_locked(): a shared lock is asked for, and given back at once.
Probe(f) ==
    /\ pc[f] = "lock" /\ f \in Checks
    /\ IF ex # None
       THEN /\ writer' = [writer EXCEPT ![f] = IF pidfile = None THEN "?" ELSE pidfile]
            /\ Go(f, "list") /\ UNCHANGED sh
       ELSE sh' = sh \cup {f} /\ Go(f, "unlock") /\ UNCHANGED writer
    /\ UNCHANGED <<ex, pidfile, file, at, seen, count, before, exit, told, runs, quiet>>

Unprobe(f) ==
    /\ pc[f] = "unlock"
    /\ sh' = sh \ {f}
    /\ Go(f, "list")
    /\ UNCHANGED <<ex, pidfile, file, at, fsckVars, exit, runs, quiet>>

\* ring_files(): the directory may not be listable.
List(f) ==
    /\ pc[f] = "list"
    /\ \/ Go(f, "ring") /\ UNCHANGED <<ex, sh, exit>>
       \/ Ends(f, 8)
    /\ UNCHANGED <<pidfile, file, at, fsckVars, runs, quiet>>

here(f) == file[RingNames[at[f]]]

\* A ring not read at all: not there, or out of reach. The others are opened,
\* with the index the header has now.
Passed(f, k) == [count EXCEPT ![f].unchecked = IF k = "unreachable" THEN @ + 1 ELSE @]

OpenRing(f) ==
    /\ pc[f] = "ring" /\ at[f] <= Len(RingNames)
    /\ IF here(f).kind \in {"missing", "unreachable"}
       THEN /\ count' = Passed(f, here(f).kind)
            /\ at' = [at EXCEPT ![f] = @ + 1] /\ UNCHANGED <<pc, seen>>
       ELSE seen' = [seen EXCEPT ![f] = here(f).idx] /\ Go(f, "count") /\ UNCHANGED <<count, at>>
    /\ UNCHANGED <<ex, sh, pidfile, file, writer, before, exit, told, runs, quiet>>

\* RingCheck::errors_but_unindexed().
errors_but_unindexed(k) == k \in {"denied", "badheader", "unknown_tier", "newer", "damaged"}

\* report(): an error this run did not repair. A record past the index is the
\* one being written when there is a writer.
report(k, unindexed, rec, w) ==
    IF k \in {"blank", "older"} THEN FALSE
    ELSE IF unindexed > 0 /\ w # None /\ ~errors_but_unindexed(k) THEN FALSE
    ELSE errors_but_unindexed(k) \/ unindexed > rec

\* check_ring(): the records from the index that was read on. Only a ring of
\* this version, opened, is gone through.
CheckRing(f) ==
    LET k == here(f).kind
        r == RingNames[at[f]]
        unindexed == IF k \in {"ok", "damaged"} THEN here(f).top - seen[f] ELSE 0
        rec == IF f \in Repairs THEN unindexed ELSE 0
    IN  /\ pc[f] = "count"
        /\ file' = IF rec > 0 THEN [file EXCEPT ![r].idx = seen[f] + rec] ELSE file
        /\ count' = [count EXCEPT ![f].left = IF report(k, unindexed, rec, writer[f]) THEN @ + 1 ELSE @,
                                  ![f].repaired = IF rec > 0 THEN @ + 1 ELSE @]
        /\ at' = [at EXCEPT ![f] = @ + 1]
        /\ Go(f, "ring")
        /\ UNCHANGED <<ex, sh, pidfile, seen, writer, before, exit, told, runs, quiet>>

exit_code(c) ==
    IF c.unchecked > 0 THEN 8 ELSE IF c.left > 0 THEN 4 ELSE IF c.repaired > 0 THEN 1 ELSE 0

FsckEnds(f) ==
    /\ pc[f] = "ring" /\ at[f] > Len(RingNames)
    /\ Ends(f, exit_code(count[f]))
    /\ UNCHANGED <<pidfile, file, at, fsckVars, runs, quiet>>

DirNext ==
    \/ \E p \in Procs : Lock(p) \/ LockRefused(p) \/ LockUnusable(p) \/ WritePid(p)
    \/ \E d \in Daemons : ServeBegins(d) \/ TierInit(d) \/ Place(d) \/ Index(d) \/ Stop(d) \/ Crash(d)
    \/ \E f \in Fscks : FsckBegins(f) \/ Probe(f) \/ Unprobe(f) \/ List(f) \/ OpenRing(f)
                        \/ CheckRing(f) \/ FsckEnds(f)

DirSpec == DirInit /\ [][DirNext]_dirvars

-----------------------------------------------------------------------------
\* The variables stay in their ranges: an exit status is one of those
\* fsck.cpp lists, and the index fits the ring.
DirTypeOK ==
    /\ ex \in Procs \cup {None} /\ sh \subseteq Checks
    /\ file \in [Files -> [kind : AllKinds, idx : 0 .. MaxTop, top : 0 .. MaxTop]]
    /\ exit \in [Procs -> {None, 0, 1, 4, 8, 9}]

Writing(p) == \/ p \in Daemons /\ pc[p] \in {"init", "run", "placed"}
              \/ p \in Repairs /\ pc[p] \in {"list", "ring", "count"}

\* "One budyk at a time may write a data_dir": never two daemons, nor a repair
\* under one, whatever starts, stops and dies in between.
OneWriter == \A p, q \in Procs : Writing(p) /\ Writing(q) => p = q

\* No record a crash left past the index is lost or counted twice: the index
\* never passes the records, and a daemon that runs has them all counted.
AllCounted ==
    /\ \A f \in Files : file[f].idx <= file[f].top
    /\ \A d \in Daemons : pc[d] = "run" => \A f \in Files : file[f].idx = file[f].top

Clean(r) == r.kind \in {"missing", "blank", "older"} \/ (r.kind = "ok" /\ r.idx = r.top)
Mendable(r) == r.kind = "ok" /\ r.idx < r.top

\* What an exit status of f says of the rings as they were when it began.
Verdict(f, code) ==
    LET rings == {before[f][r] : r \in Files}
        clean == \A r \in rings : Clean(r)
        mended == \A r \in rings : Clean(r) \/ (f \in Repairs /\ Mendable(r))
    IN  /\ \A r \in rings : r.kind # "unreachable"
        /\ code = 0 <=> clean
        /\ code = 1 => mended
        /\ code = 4 => ~mended

\* fsck's exit status is the state of the directory, when nobody wrote to it
\* meanwhile: 0 all clean, 1 problems found and all repaired, 4 problems left;
\* and a ring that was out of reach is never any of them.
ExitTrue ==
    \A f \in Fscks : pc[f] = "off" /\ quiet[f] /\ exit[f] \in {0, 1, 4} => Verdict(f, exit[f])

\* Daemons and checks that share a directory never write it together, lose no
\* record and tell what they found.
DirectoryShared == OneWriter /\ AllCounted /\ ExitTrue /\ DirTypeOK
=============================================================================
