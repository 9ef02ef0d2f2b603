----------------------------- MODULE BoundedLog -----------------------------
(***************************************************************************)
(* What a ring file promises a reader that comes back after a restart: a   *)
(* log that only grows at its end, that keeps at least the Cap - 1 records *)
(* before its end, and that gives up nothing but its oldest record, to     *)
(* make room.  A killed process is not visible here: it loses nothing.     *)
(***************************************************************************)
EXTENDS Integers

CONSTANT Cap        \* records the log can hold

VARIABLES next,     \* the position the next record takes
          held      \* the records held, each [seq, ts]

vars == <<next, held>>

Init == next = 0 /\ held = {}

Younger(r) == {h \in held : h.seq > r}

\* The oldest record of a full log makes room for the one being written.
MakeRoom ==
    /\ held' = Younger(next - Cap)
    /\ UNCHANGED next

\* One record joins at the end, stamped later than every other.
Append ==
    \E r \in held' :
        /\ r.seq = next
        /\ \A h \in held : h.ts < r.ts
        /\ held' = Younger(next - Cap) \cup {r}
        /\ next' = next + 1

Next == MakeRoom \/ Append

Spec == Init /\ [][Next]_vars
=============================================================================
