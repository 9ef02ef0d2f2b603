---------------------------- MODULE SessionStore -----------------------------
(***************************************************************************)
(* The web sessions: a table of tokens with deadlines on the wall clock,   *)
(* changed by the HTTP thread (login, request, logout) and by the          *)
(* collection loop (the hub's check of open WebSockets, the purge), and    *)
(* written as a whole to sessions.tsv after a change.  A save takes its    *)
(* turn (save_mtx_), copies the table, and renames a finished file over    *)
(* the old one; the daemon may be killed, or the save fail, at any point.  *)
(***************************************************************************)
EXTENDS Integers

CONSTANTS Tokens,        \* the tokens new_session_token() may return
          Creds,         \* the passwords (their fingerprints)
          AuthOff,       \* no password: set_credential() is not called
          ttl,           \* ttl_ns_
          MaxTime,       \* bound: real time
          BackSteps, FwdSteps,   \* sizes of the wall clock's steps, once each
          MaxStarts      \* bound: starts of the daemon

Epoch == 10                                \* the wall clock's first reading

(* The TTL is whole seconds in nanoseconds, so that it has an eighth; the  *)
(* wall clock does not step back behind its zero.                          *)
SessionAssumption ==
    /\ AuthOff \notin Creds
    /\ ttl \in Nat /\ ttl >= 8 /\ MaxTime \in Nat /\ MaxStarts \in Nat
    /\ BackSteps \subseteq 0 .. Epoch /\ FwdSteps \subseteq Nat

Threads == {"http", "main"}
None == 0                                  \* no entry in deadline_
Empty == [t \in Tokens |-> None]
NoFile == [cred |-> AuthOff, deadline |-> Empty]
Min2(a, b) == IF a < b THEN a ELSE b

VARIABLES up, credential, deadline,        \* the process
          pc, snap,                        \* per thread: "run", "save", "write"
          file,                            \* sessions.tsv
          clock, mono, back, fwd, starts,  \* wall clock, real time, steps taken
          \* History of each token, for the properties only.
          checked,       \* [at, back]: last time it was let in, steps back since
          used,          \* [at, fwd]: last login or request, steps forward since
          minted, over, dropped, lossy

process == <<up, credential, deadline>>
saving == <<pc, snap>>
time == <<clock, mono, back, fwd, starts>>
history == <<checked, used, minted, over, dropped, lossy>>
vars == <<process, saving, file, time, history>>

Init ==
    /\ up = FALSE /\ credential = AuthOff /\ deadline = Empty
    /\ pc = [h \in Threads |-> "run"] /\ snap = [h \in Threads |-> Empty]
    /\ file = NoFile
    /\ clock = Epoch /\ mono = 0 /\ back = FALSE /\ fwd = FALSE /\ starts = 0
    /\ checked = [t \in Tokens |-> [at |-> 0, back |-> 0]]
    /\ used = [t \in Tokens |-> [at |-> 0, fwd |-> 0]]
    /\ minted = [t \in Tokens |-> AuthOff]
    /\ over = {} /\ dropped = {} /\ lossy = FALSE

Live(d, t) == d[t] > clock
fresh == clock + ttl

\* Every change of the table ends in autosave(), which waits for its turn.
\* (RAM-only, autosave() returns at once: the same without a file.)
autosave(h) == pc' = [pc EXCEPT ![h] = "save"] /\ UNCHANGED snap
NoSave == UNCHANGED saving
Checked(T) == checked' = [t \in Tokens |-> IF t \in T THEN [at |-> mono, back |-> 0]
                                           ELSE checked[t]]
Used(t) == used' = [used EXCEPT ![t] = [at |-> mono, fwd |-> 0]]
Idle(h) == up /\ pc[h] = "run"

-----------------------------------------------------------------------------
\* load(): what has expired is left out, a deadline past now + TTL is cut to
\* it, and a file made under another password is left out whole.
Loaded(cred) ==
    IF cred # AuthOff /\ file.cred # cred THEN Empty
    ELSE [t \in Tokens |-> IF Live(file.deadline, t) THEN Min2(file.deadline[t], fresh)
                           ELSE None]

Start(cred) ==
    /\ ~up /\ starts < MaxStarts
    /\ up' = TRUE /\ starts' = starts + 1
    /\ credential' = cred
    /\ deadline' = Loaded(cred)
    /\ Checked({t \in Tokens : Loaded(cred)[t] # None})
    /\ dropped' = dropped \cup
          {t \in Tokens : minted[t] # AuthOff /\ cred # AuthOff /\ (minted[t] # cred \/ file.cred # cred)}
    /\ UNCHANGED <<saving, file, clock, mono, back, fwd, used, minted, over, lossy>>

\* A login (the token is new: 256 random bits).
create(t) ==
    /\ Idle("http") /\ credential # AuthOff
    /\ minted[t] = AuthOff
    /\ minted' = [minted EXCEPT ![t] = credential]
    /\ deadline' = [deadline EXCEPT ![t] = fresh]
    /\ Checked({t}) /\ Used(t)
    /\ autosave("http")
    /\ UNCHANGED <<up, credential, file, time, over, dropped, lossy>>

\* Both verify() and touch(): an expired token is erased, and that is saved.
Evict(h, t) ==
    /\ Idle(h) /\ credential # AuthOff /\ deadline[t] # None /\ ~Live(deadline, t)
    /\ deadline' = [deadline EXCEPT ![t] = None]
    /\ autosave(h)
    /\ UNCHANGED <<up, credential, file, time, history>>

\* Faulty form: the deadline not brought down after a clock step back.
verify_Uncapped(t) ==
    /\ Idle("main") /\ credential # AuthOff /\ Live(deadline, t)
    /\ Checked({t}) /\ NoSave
    /\ UNCHANGED <<process, file, time, used, minted, over, dropped, lossy>>

\* verify(), by the hub's check of an open WebSocket: the cut is not saved.
verify(t) ==
    /\ Idle("main") /\ credential # AuthOff /\ Live(deadline, t)
    /\ deadline' = [deadline EXCEPT ![t] = Min2(@, fresh)]
    /\ Checked({t}) /\ NoSave
    /\ UNCHANGED <<up, credential, file, time, used, minted, over, dropped, lossy>>

\* touch(), by a request: the deadline slides once an eighth of the TTL has
\* passed, and comes down after a clock step back.
touch(t) ==
    /\ Idle("http") /\ credential # AuthOff /\ Live(deadline, t)
    /\ IF (fresh > deadline[t] /\ fresh - deadline[t] >= ttl \div 8) \/ deadline[t] > fresh
       THEN deadline' = [deadline EXCEPT ![t] = fresh] /\ autosave("http")
       ELSE UNCHANGED deadline /\ NoSave
    /\ Checked({t}) /\ Used(t)
    /\ UNCHANGED <<up, credential, file, time, minted, over, dropped, lossy>>

\* A logout.
revoke(t) ==
    /\ Idle("http") /\ deadline[t] # None
    /\ deadline' = [deadline EXCEPT ![t] = None]
    /\ autosave("http")
    /\ UNCHANGED <<up, credential, file, time, history>>

\* The loop's housekeeping, every minute: not saved.
purge_expired ==
    /\ Idle("main")
    /\ \E t \in Tokens : deadline[t] # None /\ ~Live(deadline, t)
    /\ deadline' = [t \in Tokens |-> IF Live(deadline, t) THEN deadline[t] ELSE None]
    /\ UNCHANGED <<up, credential, saving, file, time, history>>

\* Faulty form: saves of both threads at once.
SaveBegin_AnyTurn(h) ==
    /\ up /\ pc[h] = "save"
    /\ snap' = [snap EXCEPT ![h] = deadline]
    /\ pc' = [pc EXCEPT ![h] = "write"]
    /\ UNCHANGED <<process, file, time, history>>

\* save(): one at a time, with the table as it is when its turn comes.
SaveBegin(h) ==
    /\ up /\ pc[h] = "save"
    /\ \A o \in Threads : pc[o] # "write"
    /\ snap' = [snap EXCEPT ![h] = deadline]
    /\ pc' = [pc EXCEPT ![h] = "write"]
    /\ UNCHANGED <<process, file, time, history>>

\* The temporary file is whole and on the disk: rename().
SaveEnd(h) ==
    /\ up /\ pc[h] = "write"
    /\ file' = [cred |-> credential, deadline |-> snap[h]]
    /\ pc' = [pc EXCEPT ![h] = "run"]
    /\ snap' = [snap EXCEPT ![h] = Empty]
    /\ over' = over \cup {t \in Tokens : /\ minted[t] # AuthOff
                                         /\ deadline[t] = None /\ snap[h][t] = None
                                         /\ t \notin dropped}
    /\ UNCHANGED <<process, time, checked, used, minted, dropped, lossy>>

\* A full disk, a file left another user's: the file there stays.
SaveFails(h) ==
    /\ up /\ pc[h] = "write"
    /\ pc' = [pc EXCEPT ![h] = "run"]
    /\ snap' = [snap EXCEPT ![h] = Empty]
    /\ lossy' = TRUE
    /\ UNCHANGED <<process, file, time, checked, used, minted, over, dropped>>

\* Stopped or killed: nothing is saved at the end.
Stop ==
    /\ up
    /\ up' = FALSE /\ deadline' = Empty /\ UNCHANGED credential
    /\ pc' = [h \in Threads |-> "run"] /\ snap' = [h \in Threads |-> Empty]
    /\ lossy' = (lossy \/ \E h \in Threads : pc[h] # "run")
    /\ UNCHANGED <<file, time, checked, used, minted, over, dropped>>

-----------------------------------------------------------------------------
TimePasses ==
    /\ mono < MaxTime
    /\ mono' = mono + 1 /\ clock' = clock + 1
    /\ UNCHANGED <<process, saving, file, back, fwd, starts, history>>

ClockStepsBack ==
    /\ ~back
    /\ \E d \in BackSteps :
          /\ clock' = clock - d
          /\ checked' = [t \in Tokens |-> [checked[t] EXCEPT !.back = @ + d]]
    /\ back' = TRUE
    /\ UNCHANGED <<process, saving, file, mono, fwd, starts, used, minted, over, dropped, lossy>>

ClockStepsForward ==
    /\ ~fwd
    /\ \E d \in FwdSteps :
          /\ clock' = clock + d
          /\ used' = [t \in Tokens |-> [used[t] EXCEPT !.fwd = @ + d]]
    /\ fwd' = TRUE
    /\ UNCHANGED <<process, saving, file, mono, back, starts, checked, minted, over, dropped, lossy>>

Next ==
    \/ \E c \in Creds \cup {AuthOff} : Start(c)
    \/ \E t \in Tokens : create(t) \/ verify(t) \/ touch(t) \/ revoke(t)
    \/ \E h \in Threads, t \in Tokens : Evict(h, t)
    \/ purge_expired
    \/ \E h \in Threads : SaveBegin(h) \/ SaveEnd(h) \/ SaveFails(h)
    \/ Stop
    \/ TimePasses \/ ClockStepsBack \/ ClockStepsForward

Spec == Init /\ [][Next]_vars

-----------------------------------------------------------------------------
\* Every deadline is a reading of the clock or none; the table and the file hold
\* tokens that a login made and no other; a process that is down has no table
\* and saves nothing.
TypeOK ==
    /\ up \in BOOLEAN /\ credential \in Creds \cup {AuthOff}
    /\ deadline \in [Tokens -> Nat]
    /\ file \in [cred : Creds \cup {AuthOff}, deadline : [Tokens -> Nat]]
    /\ pc \in [Threads -> {"run", "save", "write"}] /\ snap \in [Threads -> [Tokens -> Nat]]
    /\ \A t \in Tokens : deadline[t] # None \/ file.deadline[t] # None => minted[t] # AuthOff
    /\ ~up => deadline = Empty /\ \A h \in Threads : pc[h] = "run"
    /\ clock \in Nat /\ mono \in Nat

\* A session that ended, by a logout or by its time, and whose end has reached
\* the file is over: no save of the other thread, no restart and no step of
\* the clock brings the token back.
EndIsFinal == \A t \in over : deadline[t] = None

\* A session ends: left alone since it was last let in (a login, a request,
\* the hub's check, a start), it is refused after the TTL of real time plus
\* what the clock has stepped back since, and never later.
SessionEnds ==
    \A t \in Tokens :
        up /\ Live(deadline, t) => mono - checked[t].at < ttl + checked[t].back

\* How long since its last login or request, as the wall clock shows it; no
\* change waits to be saved.
Unused(t) == mono - used[t].at + used[t].fwd
AllSaved == \A h \in Threads : pc[h] = "run"

\* A session in use lasts: used within seven eighths of the TTL (less what the
\* clock has stepped forward), not logged out and not of another password, it
\* is still good, over restarts too, unless a save was lost.
SessionLasts ==
    \A t \in Tokens :
        /\ up /\ ~lossy /\ AllSaved
        /\ minted[t] = credential /\ credential # AuthOff /\ t \notin over
        /\ Unused(t) <= ttl - ttl \div 8
        => Live(deadline, t) \/ t \in dropped

\* A restart is not noticed: with the saves done and none lost, and the clock
\* not stepped back, the sessions a start would take from the file are the
\* ones the running daemon accepts.
RestartKeepsSessions ==
    /\ up /\ credential # AuthOff /\ file.cred = credential
    /\ ~back /\ ~lossy /\ AllSaved
    => \A t \in Tokens : Live(file.deadline, t) <=> Live(deadline, t)

\* Over restarts and clock steps a session left alone ends, one in use lasts,
\* and a restart keeps what was accepted.
SessionTimes == TypeOK /\ SessionEnds /\ SessionLasts /\ RestartKeepsSessions
=============================================================================
