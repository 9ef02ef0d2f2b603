----------------------------- MODULE LuaActions -----------------------------
(***************************************************************************)
(* What the rules' builtins make of their arguments (rules/lua_stdlib.cpp, *)
(* rules/freeze.cpp): watch() and the rule it registers, exec() while the  *)
(* file loads and when a rule fires, escalate(), freeze().  Names and      *)
(* paths are sequences of characters.                                      *)
(***************************************************************************)
EXTENDS Integers, Sequences, SequencesExt

CONSTANTS kCommMax, kMaxExecArgvBytes

Absent == [is |-> "absent"]                    \* a field that is nil
Whole(n) == [is |-> "integer", n |-> n]
Other(t) == [is |-> t]                         \* "string", "float", "table", ...

-----------------------------------------------------------------------------
\* opts[key] as a whole number in lo .. hi, or the fallback: [ok, n].
opt_count_field(v, lo, hi, fallback) ==
    CASE v = Absent -> [ok |-> TRUE, n |-> fallback]
      [] v.is = "integer" -> [ok |-> v.n >= lo /\ v.n <= hi, n |-> v.n]
      [] OTHER -> [ok |-> FALSE, n |-> fallback]

\* The builtins themselves and their names are the built-in actions, any other
\* function is called.
action_kind(a) ==
    CASE a \in {"alert()", "'alert'"}       -> "alert"
      [] a \in {"escalate()", "'escalate'"} -> "escalate"
      [] a = "'log'"                        -> "log"
      [] a = "function"                     -> "function"
      [] OTHER                              -> "invalid"

\* The field is read raw, once: nil is the alert, a single action a list of
\* one, an empty list an error.
action_list(field) ==
    CASE field = Absent      -> [ok |-> TRUE, list |-> <<"alert">>]
      [] field.is = "list"   -> [ok |-> Len(field.items) > 0 /\
                                        \A k \in 1 .. Len(field.items) :
                                            action_kind(field.items[k]) # "invalid",
                                 list |-> [k \in 1 .. Len(field.items) |->
                                              action_kind(field.items[k])]]
      [] OTHER               -> [ok |-> action_kind(field.item) # "invalid",
                                 list |-> <<action_kind(field.item)>>]

Severities == {"info", "warning", "critical"}

\* By default as many ticks as for_ticks; for_ticks = 0 means 1 there too.
default_cooldown(given, for_ticks) == for_ticks

MaxTicksOf == 1000000

l_watch(o) ==
    LET ft == opt_count_field(o.for_ticks, 0, MaxTicksOf, 1)
        for_ticks == IF ft.n = 0 THEN 1 ELSE ft.n
        cd == opt_count_field(o.cooldown, 0, MaxTicksOf, default_cooldown(ft.n, for_ticks))
        acts == action_list(o.action)
    IN [ok |-> /\ o.when = "function"
               /\ acts.ok
               /\ o.severity \in Severities \cup {"nil"}
               /\ ft.ok /\ cd.ok,
        rule |-> [for_ticks |-> for_ticks, cooldown_ticks |-> cd.n, actions |-> acts.list,
                  severity |-> IF o.severity = "nil" THEN "warning" ELSE o.severity]]

-----------------------------------------------------------------------------
\* exec(). A path is a sequence of characters.
Slash == "/"
Dot == "."

\* Where "/.." starts at or after pos, 0 for nowhere.
find_up(s, pos) ==
    LET at == {k \in pos .. Len(s) - 2 : SubSeq(s, k, k + 2) = <<Slash, Dot, Dot>>}
    IN IF at = {} THEN 0 ELSE CHOOSE k \in at : \A l \in at : k <= l

contains_traversal(s) ==
    LET from[pos \in 1 .. Len(s) + 1] ==
            LET p == find_up(s, pos)
            IN IF p = 0 THEN FALSE
               ELSE IF p + 3 > Len(s) \/ s[p + 3] = Slash THEN TRUE
               ELSE from[p + 3]
    IN from[1]

\* The name after the last slash.
base(s) ==
    LET slashes == {k \in 1 .. Len(s) : s[k] = Slash}
        last == IF slashes = {} THEN 0 ELSE CHOOSE k \in slashes : \A l \in slashes : l <= k
    IN SubSeq(s, last + 1, Len(s))

\* The resolved path and the name as written must match one entry: a
\* multi-call binary does what its name says.
allowed(cmd, written, realpath) ==
    \/ written = <<>>
    \/ \E k \in 1 .. Len(written) :
          realpath[written[k]] = realpath[cmd] /\ base(written[k]) = base(cmd)

\* The timeout: 30 s by default, a whole number of at least 1, a day at most.
take_timeout(v) ==
    CASE v = Absent -> [ok |-> TRUE, n |-> 30]
      [] v.is = "integer" -> [ok |-> v.n >= 1, n |-> IF v.n < 86400 THEN v.n ELSE 86400]
      [] OTHER -> [ok |-> FALSE, n |-> 30]

BytesOf(argv) ==
    LET upto[k \in 0 .. Len(argv)] == IF k = 0 THEN 0 ELSE upto[k - 1] + Len(argv[k]) + 1
    IN upto[Len(argv)]

NulByte == "\\0"

\* exec_impl(): "Error", or what it did. `q` says whether the worker's queue
\* has room.

exec_impl(a, e, q) ==
    LET t == take_timeout(a.timeout)
    IN IF \/ ~t.ok \/ a.argv = <<>>
          \/ \E k \in 1 .. Len(a.argv) : \E c \in 1 .. Len(a.argv[k]) : a.argv[k][c] = NulByte
          \/ BytesOf(a.argv) > kMaxExecArgvBytes
          \/ a.argv[1] = <<>> \/ a.argv[1][1] # Slash
          \/ contains_traversal(a.argv[1])
          \/ ~allowed(a.argv[1], e.written, e.realpath)
       THEN [kind |-> "Error", timeout |-> 0]
       ELSE IF e.loading THEN [kind |-> "Checked", timeout |-> t.n]
       ELSE IF ~a.wait
            THEN [kind |-> IF q THEN "Queued" ELSE "QueueFull", timeout |-> t.n]
            ELSE [kind |-> "Ran", timeout |-> IF t.n > 60 THEN 60 ELSE t.n]

\* The gate, and what the rule gets: an error, a function that runs the
\* command (deferred_exec), or the outcome.
l_exec(a, e, q) ==
    IF ~e.exec_enabled THEN [kind |-> "Error", timeout |-> 0] ELSE exec_impl(a, e, q)

deferred_exec(a, e, q) == l_exec(a, [e EXCEPT !.loading = FALSE], q)

-----------------------------------------------------------------------------
\* freeze(pid), unfreeze(pid).
Comm(name) == SubSeq(name, 1, IF Len(name) < kCommMax THEN Len(name) ELSE kCommMax)

comm_matches(n, comm) ==
    \/ n = comm
    \/ Len(n) > kCommMax /\ Len(comm) = kCommMax /\ SubSeq(n, 1, kCommMax) = comm

freeze_refused(pid, own) == pid = 1 \/ pid \in own

\* "Error", "None" (a probe signals nothing), or the signal sent.
freeze_action(pid, comm, e, stops) ==
    CASE ~e.freeze_enabled -> "Error"
      [] e.freeze_enabled /\ (pid <= 0 \/ freeze_refused(pid, e.own)) -> "Error"
      [] e.freeze_enabled /\ pid > 0 /\ ~freeze_refused(pid, e.own)
            /\ e.freeze_allow # {} /\ ~\E n \in e.freeze_allow : comm_matches(n, comm) -> "Error"
      [] OTHER -> IF e.probe THEN "None" ELSE IF stops THEN "SIGSTOP" ELSE "SIGCONT"

-----------------------------------------------------------------------------
(* One state a call: every watch(), path, exec() and freeze() of the sets  *)
(* below.                                                                  *)

VARIABLE call

Counts == {Absent, Other("float")} \cup {Whole(n) : n \in {-1, 0, 1, 3, 1000000, 1000001}}
ActionFields ==
    {Absent, [is |-> "list", items |-> <<>>]}
    \cup {[is |-> "one", item |-> a] : a \in {"alert()", "'log'", "number"}}
    \cup {[is |-> "list", items |-> <<a, b>>] :
             a \in {"alert()", "function", "'nope'"}, b \in {"'escalate'", "number"}}
Watches == [op : {"watch"}, when : {"function", "nil"}, for_ticks : Counts, cooldown : Counts,
            action : ActionFields, severity : {"nil", "info", "loud"}]

\* Paths of up to six characters, and with a letter for the rest of a name.
Paths == UNION {[1 .. n -> {Slash, Dot, "a"}] : n \in 0 .. 6}
PathCalls == [op : {"path"}, path : Paths]

sh == <<Slash, "s">>
lg == <<Slash, "u", Slash, "g">>
bb == <<Slash, "b">>
up == <<Slash, Dot, Dot, Slash, "s">>
rel == <<"s">>
Commands == {sh, lg, bb, up, rel, <<>>, <<Slash, NulByte>>, <<Slash, "x">>}
\* sh and lg are links to bb.
Resolves == [c \in Commands |-> IF c \in {sh, lg} THEN bb ELSE c]
Args == {<<>>} \cup {<<c>> : c \in Commands} \cup {<<c, <<"s", "s">>>> : c \in {sh, lg}}
Execs ==
    [op : {"exec"}, argv : Args, wait : BOOLEAN,
     timeout : {Absent, Other("float"), Whole(0), Whole(5), Whole(90), Whole(90000)},
     written : {<<>>, <<lg>>, <<bb, lg>>}, room : BOOLEAN, exec_enabled : BOOLEAN]

NamesOf == UNION {[1 .. n -> {"a", "b"}] : n \in 1 .. 4}
Freezes == [op : {"freeze"}, pid : {-1, 0, 1, 7, 9}, name : NamesOf, listed : NamesOf,
            probe : BOOLEAN, freeze_enabled : BOOLEAN]

NoAction == [op |-> "none"]
ActionInit == call = NoAction
ActionNext ==
    \/ call = NoAction /\ call' \in Watches \cup PathCalls \cup Execs \cup Freezes
    \/ call # NoAction /\ call' = NoAction

Engine(load) == [exec_enabled |-> call.exec_enabled, written |-> call.written,
                 realpath |-> Resolves, loading |-> load]

-----------------------------------------------------------------------------
\* watch(): a rule is registered only with a function, actions that exist and
\* counts in range; it then needs at least one tick, and the default cooldown
\* is the for_ticks in force, so for_ticks = 0 cools down for a tick too.
WatchRight ==
    call.op = "watch" =>
        LET w == l_watch(call)
        IN w.ok =>
             /\ w.rule.for_ticks \in 1 .. MaxTicksOf
             /\ w.rule.for_ticks = IF call.for_ticks \in {Absent, Whole(0)} THEN 1
                                   ELSE call.for_ticks.n
             /\ w.rule.cooldown_ticks = IF call.cooldown = Absent THEN w.rule.for_ticks
                                        ELSE call.cooldown.n
             /\ w.rule.actions # <<>>
             /\ \A k \in 1 .. Len(w.rule.actions) :
                   w.rule.actions[k] \in {"alert", "log", "escalate", "function"}

\* The parts of a path between its slashes.
Segments(s) ==
    {SubSeq(s, a + 1, b - 1) :
        <<a, b>> \in {<<x, y>> \in (0 .. Len(s)) \X (1 .. Len(s) + 1) :
                        /\ x < y /\ x > 0 /\ s[x] = Slash
                        /\ y = Len(s) + 1 \/ s[y] = Slash
                        /\ \A k \in x + 1 .. y - 1 : s[k] # Slash}}

\* contains_traversal(): true exactly when a part of the path is "..", not
\* when a name begins with two dots, wherever it stands.
TraversalRight ==
    call.op = "path" => (contains_traversal(call.path) <=> <<Dot, Dot>> \in Segments(call.path))

\* exec(): written in the file it runs nothing, and the command it hands back
\* is accepted when the rule fires if and only if it was accepted then; an
\* inline run never holds the tick past a minute.
ExecDeferred ==
    call.op = "exec" =>
        LET load == l_exec(call, Engine(TRUE), call.room)
            fire == deferred_exec(call, Engine(TRUE), call.room)
        IN /\ load.kind \in {"Error", "Checked"}
           /\ load.kind = "Checked" <=> fire.kind # "Error"
           /\ fire.kind = "Ran" => fire.timeout \in 1 .. 60
           /\ fire.kind \in {"Queued", "QueueFull"} => fire.timeout \in 1 .. 86400

\* A command is run only as a program the operator listed: the file it leads
\* to under the name that file is called by.
ExecListed ==
    (call.op = "exec" /\ call.written # <<>> /\ l_exec(call, Engine(FALSE), TRUE).kind # "Error") =>
        \E k \in 1 .. Len(call.written) :
            <<Resolves[call.argv[1]], base(call.argv[1])>> =
            <<Resolves[call.written[k]], base(call.written[k])>>

\* freeze(): a listed name matches the process of that name though the kernel
\* keeps only its first kCommMax bytes, and no process whose kept name
\* differs; budyk's own threads and init are never signalled, and a probe
\* signals nobody.
FreezeRight ==
    call.op = "freeze" =>
        LET e == [freeze_enabled |-> call.freeze_enabled, freeze_allow |-> {call.listed},
                  own |-> {9}, probe |-> call.probe]
            does == freeze_action(call.pid, Comm(call.name), e, TRUE)
        IN /\ does = "SIGSTOP" => call.pid = 7 /\ ~call.probe
           /\ (call.pid = 7 /\ call.freeze_enabled) =>
                 (does # "Error" <=> Comm(call.listed) = Comm(call.name))
=============================================================================
