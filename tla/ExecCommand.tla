---------------------------- MODULE ExecCommand -----------------------------
(***************************************************************************)
(* exec_command(): fork, a child that makes its own process group and      *)
(* execs, and a parent that polls it every 10 ms until it ends, the        *)
(* deadline passes or the call is cancelled, and then kills the group and  *)
(* reaps.  Parent and child run concurrently from the fork on; the child's *)
(* program may fork processes of its own.                                  *)
(***************************************************************************)
EXTENDS Integers

CONSTANTS Timeout,    \* timeout_seconds
          MaxTime,    \* bound: the last instant modelled
          MaxKids,    \* bound: processes the program starts
          Statuses    \* exit statuses of the program

ExecAssumption ==
    Timeout \in Nat \ {0} /\ MaxTime \in Nat /\ MaxKids \in Nat /\ 0 \in Statuses

VARIABLES
    ppc,      \* the parent: "idle", "poll", "check", "sleep", "group", "pid", "reap", "done"
    child,    \* "none", "forked", "leads" (setpgid done), "runs" (execvp done),
              \* "exited", "killed", "reaped"
    kids,     \* processes of the child's group besides it, alive
    ending,   \* how the child ended: its status, or its signal
    why,      \* the reason of the kill
    clock, deadline, x_cancel, interrupted,
    rc, out,
    grouped   \* the group existed when it was killed

execvars == <<ppc, child, kids, ending, why, clock, deadline, x_cancel, interrupted, rc, out, grouped>>

NoEnding == [status |-> 0, signal |-> 0]
NoResult == [exit_status |-> 0, signal |-> 0, timed_out |-> FALSE, cancelled |-> FALSE]
kSigKill == 9
kOwnSignal == 24          \* SIGXCPU, or a fault of the program's own
Alive == {"forked", "leads", "runs"}

ExecInit ==
    /\ ppc = "idle" /\ child = "none" /\ kids = 0 /\ ending = NoEnding /\ why = "none"
    /\ clock = 0 /\ deadline = 0 /\ x_cancel = FALSE /\ interrupted = FALSE
    /\ rc = 0 /\ out = NoResult /\ grouped = FALSE

-----------------------------------------------------------------------------
\* fork() may fail, with nothing started.

Call ==
    /\ ppc = "idle"
    /\ out' = NoResult
    /\ \/ rc' = -4 /\ ppc' = "done" /\ UNCHANGED <<child, deadline>>
       \/ rc' = 0 /\ ppc' = "poll" /\ child' = "forked" /\ deadline' = clock + Timeout
    /\ UNCHANGED <<kids, ending, why, clock, x_cancel, interrupted, grouped>>

\* waitpid(WNOHANG): a child that ended is reaped, and its fate is the result.
Poll ==
    /\ ppc = "poll"
    /\ IF child \in {"exited", "killed"}
       THEN /\ child' = "reaped" /\ ppc' = "done"
            /\ out' = [out EXCEPT !.exit_status = ending.status, !.signal = ending.signal]
       ELSE ppc' = "check" /\ UNCHANGED <<child, out>>
    /\ UNCHANGED <<kids, ending, why, clock, deadline, x_cancel, interrupted, rc, grouped>>

Check ==
    /\ ppc = "check"
    /\ CASE x_cancel -> ppc' = "group" /\ why' = "cancelled"
         [] ~x_cancel /\ clock >= deadline -> ppc' = "group" /\ why' = "timed_out"
         [] OTHER -> ppc' = "sleep" /\ UNCHANGED why
    /\ UNCHANGED <<child, kids, ending, clock, deadline, x_cancel, interrupted, rc, out, grouped>>

Sleep ==
    /\ ppc = "sleep"
    /\ ppc' = "poll"
    /\ UNCHANGED <<child, kids, ending, why, clock, deadline, x_cancel, interrupted, rc, out, grouped>>

\* kill(-pid): nothing to kill before the child's setpgid().

KillGroup ==
    /\ ppc = "group"
    /\ ppc' = "pid"
    /\ grouped' = (child # "forked")
    /\ IF child # "forked"
       THEN /\ kids' = 0
            /\ IF child \in Alive
               THEN child' = "killed" /\ ending' = [status |-> 0, signal |-> kSigKill]
               ELSE UNCHANGED <<child, ending>>
       ELSE UNCHANGED <<child, kids, ending>>
    /\ UNCHANGED <<why, clock, deadline, x_cancel, interrupted, rc, out>>

KillPid ==
    /\ ppc = "pid"
    /\ ppc' = "reap"
    /\ IF child \in Alive
       THEN child' = "killed" /\ ending' = [status |-> 0, signal |-> kSigKill]
       ELSE UNCHANGED <<child, ending>>
    /\ UNCHANGED <<kids, why, clock, deadline, x_cancel, interrupted, rc, out, grouped>>

\* waitpid() until the child is reaped: a SIGHUP or SIGTERM taken by this
\* thread ends the call early, once here, and it is made again.

\* Faulty form: made once.
Reap_Once ==
    /\ ppc = "reap"
    /\ child \in {"exited", "killed"} \/ interrupted
    /\ ppc' = "done"
    /\ child' = IF interrupted THEN child ELSE "reaped"
    /\ out' = [out EXCEPT !.signal = IF interrupted THEN 0 ELSE ending.signal,
                          !.timed_out = (why = "timed_out"),
                          !.cancelled = (why = "cancelled")]
    /\ UNCHANGED <<kids, ending, why, clock, deadline, x_cancel, interrupted, rc, grouped>>

Reap ==
    /\ ppc = "reap"
    /\ child \in {"exited", "killed"}
    /\ ppc' = "done"
    /\ child' = "reaped"
    /\ out' = [out EXCEPT !.signal = ending.signal,
                          !.timed_out = (why = "timed_out"),
                          !.cancelled = (why = "cancelled")]
    /\ UNCHANGED <<kids, ending, why, clock, deadline, x_cancel, interrupted, rc, grouped>>

Interrupt ==
    /\ ppc = "reap" /\ ~interrupted
    /\ interrupted' = TRUE
    /\ UNCHANGED <<ppc, child, kids, ending, why, clock, deadline, x_cancel, rc, out, grouped>>

-----------------------------------------------------------------------------
\* The child: its own group, the default signals, /dev/null, the limits, and
\* the program; 127 when it cannot get that far.
SetPgid ==
    /\ child = "forked"
    /\ child' = "leads"
    /\ UNCHANGED <<ppc, kids, ending, why, clock, deadline, x_cancel, interrupted, rc, out, grouped>>

ExecVp ==
    /\ child = "leads"
    /\ \/ child' = "runs" /\ UNCHANGED ending
       \/ child' = "exited" /\ ending' = [status |-> 127, signal |-> 0]
    /\ UNCHANGED <<ppc, kids, why, clock, deadline, x_cancel, interrupted, rc, out, grouped>>

\* What the program does: external.
ProgramForks ==
    /\ child = "runs" /\ kids < MaxKids
    /\ kids' = kids + 1
    /\ UNCHANGED <<ppc, child, ending, why, clock, deadline, x_cancel, interrupted, rc, out, grouped>>

ProgramEnds ==
    /\ child = "runs"
    /\ \/ child' = "exited" /\ \E s \in Statuses : ending' = [status |-> s, signal |-> 0]
       \/ child' = "killed" /\ ending' = [status |-> 0, signal |-> kOwnSignal]
    /\ UNCHANGED <<ppc, kids, why, clock, deadline, x_cancel, interrupted, rc, out, grouped>>

KidEnds ==
    /\ kids > 0
    /\ kids' = kids - 1
    /\ UNCHANGED <<ppc, child, ending, why, clock, deadline, x_cancel, interrupted, rc, out, grouped>>

\* The worker is stopped, or g_stop set.
Cancel ==
    /\ ~x_cancel
    /\ x_cancel' = TRUE
    /\ UNCHANGED <<ppc, child, kids, ending, why, clock, deadline, interrupted, rc, out, grouped>>

Passes ==
    /\ clock < MaxTime
    /\ clock' = clock + 1
    /\ UNCHANGED <<ppc, child, kids, ending, why, deadline, x_cancel, interrupted, rc, out, grouped>>

Parent == Call \/ Poll \/ Check \/ Sleep \/ KillGroup \/ KillPid \/ Reap
ExecNext ==
    \/ Parent \/ Interrupt
    \/ SetPgid \/ ExecVp \/ ProgramForks \/ ProgramEnds \/ KidEnds \/ Cancel \/ Passes

ExecSpec == ExecInit /\ [][ExecNext]_execvars

-----------------------------------------------------------------------------
\* The parent only waits for a child it has, and holds a fate only then.
ExecTypeOK ==
    /\ kids \in 0 .. MaxKids
    /\ ppc \notin {"idle", "done"} => child \in Alive \cup {"exited", "killed"}

\* No zombie: a call that started a child returns with it reaped, also when a
\* signal interrupts the wait, the child ends by itself between two looks, or
\* it is killed before it has its group.
NoZombie == (ppc = "done" /\ rc = 0) => child = "reaped"

\* The result says what happened: timed_out only past the deadline, cancelled
\* only when asked, and otherwise the child's own end.
FateTold ==
    (ppc = "done" /\ rc = 0) =>
        /\ out.timed_out => clock >= deadline
        /\ out.cancelled => x_cancel
        /\ ~(out.timed_out /\ out.cancelled)
        /\ (~out.timed_out /\ ~out.cancelled) =>
              out.exit_status = ending.status /\ out.signal = ending.signal

\* A kill takes the program's own processes with it, if the child had its
\* group by then.
GroupGone == (ppc = "done" /\ why # "none" /\ grouped) => kids = 0

\* A call returns with its child reaped, its fate told as it was, and after a
\* kill no process of the child's group left.
ExecRight == ExecTypeOK /\ NoZombie /\ FateTold /\ GroupGone

\* The call returns once it is cancelled or its deadline passed, whatever the
\* program does and however often the wait is interrupted.
Returns ==
    ((x_cancel \/ clock >= deadline) /\ ppc \notin {"idle", "done"}) ~> (ppc = "done")
=============================================================================
