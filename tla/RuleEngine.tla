----------------------------- MODULE RuleEngine -----------------------------
(***************************************************************************)
(* The rules of rules/lua_engine.cpp under the serve loop: the file loaded *)
(* at start and on SIGHUP, eval_tick() with its sustain counts, cooldowns  *)
(* and actions, the alerts and escalations handed to the loop after the    *)
(* tick, and the rule state saved each minute, at a stop and around a      *)
(* reload.  A rules file is a sequence of what its chunk does: watch(), an *)
(* alert() or escalate() at file scope, an error.  What a `when` answers,  *)
(* whether a function action fails, which saves fail and when the process  *)
(* dies are the environment's choices; a minute passing between two ticks  *)
(* is one too.                                                             *)
(***************************************************************************)
EXTENDS Integers, Sequences, FiniteSets, TLC

CONSTANTS Names, RuleFiles, Missing, Levels, Channels,
          persist_state, kMaxPendingAlerts, kRecentAlerts,
          MaxTicks, MaxReloads, MaxEnds, MayFail

VARIABLES
    pc,         \* "down", "idle", "rule", "act", "publish", "house",
                \* "tmp" (the temp file is being written), "rename", "swap", "final"
    running,    \* L_ is not null
    rules,      \* rules_
    i, acted,   \* eval_tick's rule, and the actions of it run so far
    file,       \* the rules file on disk
    text,       \* the text a reload's probe checked
    stop,       \* g_stop
    state,      \* the state file: name -> what is kept of the rule
    reload,     \* .reload.tsv
    tmp,        \* the temp file's contents, or "partial"
    level_conditions, channels,
    alert_events, alerts_dropped, escalations,
    sent,       \* channel -> alerts handed to its worker
    shown,      \* alerts the dashboards were given
    recent_alerts,
    ticks, reloads, ends

\* What the rules were promised, whatever the engine kept of it: the ticks of
\* cooldown still owed since the last firing, the hits in a row, which rules
\* fired since the last good save, which lost their cooldown or their count to
\* a crash or a failed save, and the alerts raised.
VARIABLES owed, streak, unsaved, lost, stale, raised, asked

engine == <<running, rules, level_conditions, channels>>
outbox == <<alert_events, alerts_dropped, escalations, sent, shown,
            recent_alerts, raised, asked>>
disk   == <<state, reload, tmp>>
ghost  == <<owed, streak, unsaved, lost, stale>>
bounds == <<ticks, reloads, ends>>
vars == <<pc, i, acted, file, text, stop, engine, outbox, disk, ghost, bounds>>

Text == RuleFiles \cup {Missing}
Kept(r) == [cooldown_remaining |-> r.cooldown_remaining,
            consecutive_hits   |-> r.consecutive_hits,
            fire_count         |-> r.fire_count]
RuleNames(rs) == {rs[n].name : n \in 1 .. Len(rs)}
Zero == [n \in Names |-> 0]

-----------------------------------------------------------------------------
\* Loading. watch() refuses a second rule of a name; the chunk stops at its
\* first error, and what it registered before stays.

Bad(f, n) ==
    \/ f[n].kind = "error"
    \/ /\ f[n].kind = "watch"
       /\ \E m \in 1 .. n - 1 : f[m].kind = "watch" /\ f[m].name = f[n].name

Loads(f) == \A n \in 1 .. Len(f) : ~Bad(f, n)

\* The part of the chunk that runs.
Reached(f) ==
    IF Loads(f) THEN f
    ELSE SubSeq(f, 1, (CHOOSE n \in 1 .. Len(f) :
                          Bad(f, n) /\ \A m \in 1 .. n - 1 : ~Bad(f, m)) - 1)

OfKind(f, k) == SelectSeq(f, LAMBDA e : e.kind = k)

add_rule(w) ==
    [name |-> w.name, for_ticks |-> w.for_ticks, cooldown_ticks |-> w.cooldown,
     actions |-> w.actions,
     cooldown_remaining |-> 0, consecutive_hits |-> 0, fire_count |-> 0]

load_chunk(f) ==
    LET w == OfKind(Reached(f), "watch") IN [n \in 1 .. Len(w) |-> add_rule(w[n])]

\* A line of the state file belongs to the rule of its name, if there is one.
load_state(rs, saved) ==
    [n \in 1 .. Len(rs) |->
        IF rs[n].name \in DOMAIN saved THEN saved[rs[n].name] @@ rs[n] ELSE rs[n]]

save_state(rs) ==
    [n \in RuleNames(rs) |-> Kept(rs[CHOOSE m \in 1 .. Len(rs) : rs[m].name = n])]

Empty == [n \in {} |-> Zero]

-----------------------------------------------------------------------------
\* Alerts and escalations. n alerts raised one after the other: each is handed
\* to every channel, those past the bound of a tick are not kept for the
\* dashboard.
Newest(s) ==
    IF Len(s) <= kRecentAlerts THEN s ELSE SubSeq(s, Len(s) - kRecentAlerts + 1, Len(s))

raise_alerts(n) ==
    LET room == kMaxPendingAlerts - Len(alert_events)
        kept == IF n <= room THEN n ELSE room
    IN /\ raised' = raised + n
       /\ alert_events' = alert_events \o [m \in 1 .. kept |-> raised + m]
       /\ alerts_dropped' = alerts_dropped + (n - kept)
       /\ sent' = [c \in Channels |-> sent[c] + n * channels'[c]]

-----------------------------------------------------------------------------
\* The state file: a temp file written, flushed and synced, then renamed over
\* the old one; a failed write keeps the old one. A crash in between leaves
\* the temp file, which nothing reads. `next` is where the caller goes on.

\* Faulty form: written in place.
SaveBegins_InPlace(next) ==
    /\ tmp' = [to |-> next, part |-> TRUE]
    /\ IF next = "swap" THEN reload' = Empty /\ UNCHANGED state
                        ELSE state' = Empty /\ UNCHANGED reload
    /\ pc' = "tmp"

SaveBegins(next) ==
    /\ tmp' = [to |-> next, part |-> TRUE]
    /\ pc' = "tmp"
    /\ UNCHANGED <<state, reload>>

SaveWritten ==
    /\ pc = "tmp"
    /\ tmp' = [tmp EXCEPT !.part = FALSE]
    /\ pc' = "rename"
    /\ UNCHANGED <<i, acted, file, text, stop, engine, outbox, state, reload, ghost, bounds>>

\* A full disk, a rename refused: the old file stays, the temp file is removed.
\* A reload goes on all the same, its snapshot missing or stale.
SaveFails ==
    /\ pc \in {"tmp", "rename"} /\ MayFail
    /\ pc' = tmp.to
    /\ tmp' = [to |-> "none", part |-> FALSE]
    /\ CASE tmp.to = "swap"  -> lost' = Names /\ stale' = Names
         [] tmp.to = "final" -> lost' = lost \cup unsaved /\ stale' = Names
         [] OTHER            -> UNCHANGED <<lost, stale>>
    /\ UNCHANGED <<i, acted, file, text, stop, engine, outbox, state, reload,
                   owed, streak, unsaved, bounds>>

SaveRenamed ==
    /\ pc = "rename"
    /\ pc' = tmp.to
    /\ tmp' = [to |-> "none", part |-> FALSE]
    /\ IF tmp.to = "swap"
       THEN reload' = save_state(rules) /\ UNCHANGED <<state, ghost>>
       ELSE /\ state' = save_state(rules)
            /\ unsaved' = {}
            /\ lost' = lost \cup (Names \ RuleNames(rules))
            /\ UNCHANGED <<reload, owed, streak, stale>>
    /\ UNCHANGED <<i, acted, file, text, stop, engine, outbox, bounds>>

-----------------------------------------------------------------------------
\* setup_engine(): init, the custom levels' conditions, the rules, their saved
\* state, and at the start the channels. A shutdown() before it dropped the
\* rules, the conditions and the escalations nobody took.

setup_engine(f, saved, start) ==
    /\ running' = TRUE
    /\ level_conditions' = Levels
    /\ rules' = load_state(load_chunk(f), saved)
    /\ channels' = IF start THEN [c \in Channels |-> 1] ELSE channels
    /\ raise_alerts(Len(OfKind(Reached(f), "alert")))
    /\ escalations' = Len(OfKind(Reached(f), "escalate"))

\* The start: a file that is not there is no rules, one with an error the
\* rules before it.
Start ==
    /\ pc = "down" /\ ends < MaxEnds
    /\ pc' = "idle" /\ stop' = FALSE
    /\ setup_engine(IF file = Missing THEN <<>> ELSE file,
                    IF persist_state THEN state ELSE Empty, TRUE)
    /\ text' = Missing
    /\ UNCHANGED <<i, acted, file, disk, shown, recent_alerts, asked, ghost, bounds>>

\* The operator edits or removes the file at any time.
EditFile ==
    /\ reloads < MaxReloads
    /\ file' \in Text \ {file}
    /\ UNCHANGED <<pc, i, acted, text, stop, engine, outbox, disk, ghost, bounds>>

\* SIGHUP, taken between two ticks. A scratch engine loads the file first, and
\* sends nothing out; a file that cannot be read or does not load, or an engine
\* that cannot be made, leaves everything as it was.

Reload ==
    /\ pc = "idle" /\ reloads < MaxReloads
    /\ reloads' = reloads + 1
    /\ IF file = Missing \/ ~Loads(file)
       THEN UNCHANGED <<pc, text, disk>>
       ELSE text' = file /\ SaveBegins("swap")
    /\ UNCHANGED <<i, acted, file, stop, engine, outbox, ghost, ticks, ends>>

\* The swap: what the probe loaded is loaded again, the snapshot restored and
\* removed. A name that the new file or the old one lacks is forgotten.
Swap ==
    /\ pc = "swap"
    /\ pc' = "idle"
    /\ setup_engine(text, reload, FALSE)
    /\ reload' = Empty
    /\ lost' = lost \cup (Names \ (RuleNames(rules') \cap DOMAIN reload))
    /\ streak' = [n \in Names |-> IF n \in RuleNames(rules') THEN streak[n] ELSE 0]
    /\ UNCHANGED <<i, acted, file, text, stop, state, tmp, shown, recent_alerts, asked,
                   owed, unsaved, stale, bounds>>

\* init() failed: no rules until a later reload.
SwapFails ==
    /\ pc = "swap" /\ MayFail
    /\ pc' = "idle"
    /\ running' = FALSE /\ rules' = <<>> /\ level_conditions' = {}
    /\ escalations' = 0
    /\ reload' = Empty
    /\ lost' = Names
    /\ UNCHANGED <<i, acted, file, text, stop, channels, state, tmp, shown, recent_alerts, asked, sent,
                   alert_events, alerts_dropped, raised, owed, streak, unsaved,
                   stale, bounds>>

-----------------------------------------------------------------------------
\* The tick.
Tick ==
    /\ pc = "idle" /\ ~stop /\ ticks < MaxTicks
    /\ ticks' = ticks + 1
    /\ i' = 1
    /\ pc' = "rule"
    /\ UNCHANGED <<acted, file, text, stop, engine, outbox, disk, ghost, reloads, ends>>

\* The memory limit may leave no room to bind the sample, and a stop leaves
\* the rest of the rules: no count and no cooldown moves.
RulesEnd ==
    /\ pc = "rule"
    /\ i > Len(rules) \/ stop \/ (MayFail /\ i = 1)
    /\ pc' = "publish"
    /\ UNCHANGED <<i, acted, file, text, stop, engine, outbox, disk, ghost, bounds>>

r == rules[i]
At == pc = "rule" /\ i <= Len(rules) /\ ~stop

CoolDown ==
    /\ At /\ r.cooldown_remaining > 0
    /\ rules' = [rules EXCEPT ![i].cooldown_remaining = @ - 1]
    /\ owed' = [owed EXCEPT ![r.name] = IF @ > 0 THEN @ - 1 ELSE 0]
    /\ i' = i + 1
    /\ UNCHANGED <<pc, acted, file, text, stop, running, level_conditions, channels, outbox,
                   disk, streak, unsaved, lost, stale, bounds>>

\* `when` answers nil, or reads what this level does not collect: the count of
\* hits stays.
Skip ==
    /\ At /\ r.cooldown_remaining <= 0
    /\ i' = i + 1
    /\ UNCHANGED <<pc, acted, file, text, stop, engine, outbox, disk, ghost, bounds>>

\* `when` answers false or nothing, or fails.

Miss ==
    /\ At /\ r.cooldown_remaining <= 0
    /\ rules' = [rules EXCEPT ![i].consecutive_hits = 0]
    /\ streak' = [streak EXCEPT ![r.name] = 0]
    /\ stale' = stale \ {r.name}
    /\ i' = i + 1
    /\ UNCHANGED <<pc, acted, file, text, stop, running, level_conditions, channels, outbox,
                   disk, owed, unsaved, lost, bounds>>

Hit ==
    /\ At /\ r.cooldown_remaining <= 0
    /\ r.consecutive_hits + 1 < r.for_ticks
    /\ rules' = [rules EXCEPT ![i].consecutive_hits = @ + 1]
    /\ streak' = [streak EXCEPT ![r.name] = @ + 1]
    /\ i' = i + 1
    /\ UNCHANGED <<pc, acted, file, text, stop, running, level_conditions, channels, outbox,
                   disk, owed, unsaved, lost, stale, bounds>>

Fire ==
    /\ At /\ r.cooldown_remaining <= 0
    /\ r.consecutive_hits + 1 >= r.for_ticks
    /\ rules' = [rules EXCEPT ![i].consecutive_hits = 0,
                              ![i].cooldown_remaining = r.cooldown_ticks,
                              ![i].fire_count = @ + 1]
    /\ owed' = [owed EXCEPT ![r.name] = r.cooldown_ticks]
    /\ streak' = [streak EXCEPT ![r.name] = 0]
    /\ unsaved' = unsaved \cup {r.name}
    /\ lost' = lost \ {r.name} /\ stale' = stale \ {r.name}
    /\ acted' = <<>>
    /\ pc' = "act"
    /\ UNCHANGED <<i, file, text, stop, running, level_conditions, channels, outbox, disk,
                   bounds>>

\* One action of the rule that fired. A function may fail, and may itself call
\* alert() or escalate(); the next action runs all the same.

Act ==
    /\ pc = "act" /\ acted # r.actions
    /\ UNCHANGED engine
    /\ LET did == r.actions[Len(acted) + 1]
       IN \E does \in IF did = "function" THEN {"alert", "escalate", "log"} ELSE {did} :
             /\ IF does = "alert"
                THEN raise_alerts(1) /\ UNCHANGED <<escalations, asked>>
                ELSE /\ UNCHANGED <<raised, alert_events, alerts_dropped, sent>>
                     /\ escalations' = escalations + IF does = "escalate" THEN 1 ELSE 0
                     /\ asked' = asked + IF does = "escalate" THEN 1 ELSE 0
             /\ acted' = Append(acted, did)
    /\ UNCHANGED <<pc, i, file, text, stop, shown, recent_alerts, disk, ghost, bounds>>

ActionsEnd ==
    /\ pc = "act" /\ acted = r.actions
    /\ i' = i + 1
    /\ pc' = "rule"
    /\ UNCHANGED <<acted, file, text, stop, engine, outbox, disk, ghost, bounds>>

\* After the rules: the escalations go to the scheduler, the alerts to the
\* dashboards and to /api/alerts.

Publish ==
    /\ pc = "publish"
    /\ pc' = "house"
    /\ escalations' = 0 /\ asked' = 0
    /\ shown' = shown + Len(alert_events)
    /\ recent_alerts' = Newest(recent_alerts \o alert_events)
    /\ alert_events' = <<>>
    /\ UNCHANGED <<i, acted, file, text, stop, engine, disk, ghost, bounds,
                   alerts_dropped, sent, raised>>

\* Once a minute the rule state is saved.
Housekeeping ==
    /\ pc = "house"
    /\ \/ persist_state /\ SaveBegins("idle")
       \/ pc' = "idle" /\ UNCHANGED disk
    /\ UNCHANGED <<i, acted, file, text, stop, engine, outbox, ghost, bounds>>

-----------------------------------------------------------------------------
\* SIGTERM at any time; the loop ends at its next turn, with a last save.
Signal ==
    /\ pc # "down" /\ ~stop
    /\ stop' = TRUE
    /\ UNCHANGED <<pc, i, acted, file, text, engine, outbox, disk, ghost, bounds>>

LoopEnds ==
    /\ pc = "idle" /\ stop
    /\ IF persist_state THEN SaveBegins("final") ELSE pc' = "final" /\ UNCHANGED disk
    /\ UNCHANGED <<i, acted, file, text, stop, engine, outbox, ghost, bounds>>

ProcessGone ==
    /\ pc' = "down" /\ ends' = ends + 1
    /\ running' = FALSE /\ rules' = <<>> /\ level_conditions' = {}
    /\ channels' = [c \in Channels |-> 0] /\ sent' = [c \in Channels |-> 0]
    /\ alert_events' = <<>> /\ recent_alerts' = <<>>
    /\ alerts_dropped' = 0 /\ escalations' = 0 /\ shown' = 0 /\ raised' = 0 /\ asked' = 0
    /\ acted' = <<>> /\ i' = 0 /\ text' = Missing

Exit ==
    /\ pc = "final"
    /\ ProcessGone
    /\ lost' = IF persist_state THEN lost ELSE Names
    /\ UNCHANGED <<file, stop, disk, owed, streak, unsaved, stale, ticks, reloads>>

Crash ==
    /\ pc # "down"
    /\ ProcessGone
    /\ lost' = IF persist_state THEN lost \cup unsaved ELSE Names
    /\ stale' = Names
    /\ UNCHANGED <<file, stop, disk, owed, streak, unsaved, ticks, reloads>>

Next ==
    \/ Start \/ EditFile \/ Reload \/ Swap \/ SwapFails
    \/ SaveWritten \/ SaveFails \/ SaveRenamed
    \/ Tick \/ RulesEnd \/ CoolDown \/ Skip \/ Miss \/ Hit \/ Fire
    \/ Act \/ ActionsEnd \/ Publish \/ Housekeeping
    \/ Signal \/ LoopEnds \/ Exit \/ Crash

Init ==
    /\ pc = "down" /\ i = 0 /\ acted = <<>> /\ stop = FALSE
    /\ file \in Text /\ text = Missing
    /\ running = FALSE /\ rules = <<>> /\ level_conditions = {}
    /\ channels = [c \in Channels |-> 0] /\ sent = [c \in Channels |-> 0]
    /\ alert_events = <<>> /\ recent_alerts = <<>> /\ alerts_dropped = 0 /\ escalations = 0
    /\ shown = 0 /\ raised = 0 /\ asked = 0
    /\ state = Empty /\ reload = Empty /\ tmp = [to |-> "none", part |-> FALSE]
    /\ owed = Zero /\ streak = Zero /\ unsaved = {} /\ lost = {} /\ stale = {}
    /\ ticks = 0 /\ reloads = 0 /\ ends = 0

Spec == Init /\ [][Next]_vars

-----------------------------------------------------------------------------
\* The counts stay in their ranges: no cooldown below zero or past the longest
\* configured, no alert waiting past the bound, the rules' names distinct (the
\* state file holds one line a name).
TypeOK ==
    /\ \A n \in 1 .. Len(rules) :
          /\ rules[n].cooldown_remaining >= 0 /\ rules[n].consecutive_hits >= 0
          /\ \A m \in 1 .. n - 1 : rules[m].name # rules[n].name
    /\ Len(alert_events) <= kMaxPendingAlerts /\ Len(recent_alerts) <= kRecentAlerts
    /\ pc = "down" => ~running

\* A rule fires only when its cooldown is over and its condition held for_ticks
\* evaluations in a row, skipped ticks not counted, across any number of
\* reloads, stops and starts. The exceptions are the code's own: a firing that
\* no save had seen when the process died, a snapshot that could not be
\* written, a rule absent from the file in between.
FireEarned ==
    [][(pc = "rule" /\ pc' = "act") =>
          /\ owed[r.name] = 0 \/ r.name \in lost
          /\ streak[r.name] + 1 >= r.for_ticks \/ r.name \in stale]_vars

\* After a reload the engine holds every rule of a file that loaded to its
\* end, never the rules before an error nor none because the file was away,
\* also when the file changes while the reload runs.
WholeFile ==
    (pc = "idle" /\ running /\ text # Missing) =>
        /\ Loads(text)
        /\ RuleNames(rules) = {text[n].name : n \in {m \in 1 .. Len(text) : text[m].kind = "watch"}}

\* However many reloads there were, each channel is registered once and each
\* custom level's condition is there: shutdown() drops the second and keeps
\* the first.
EngineWhole ==
    (pc # "down" /\ running) =>
        level_conditions = Levels /\ \A c \in Channels : channels[c] = 1

\* Each alert raised by a rule, by a function or by the file itself went to
\* every channel once, and is with the dashboards, waiting for the end of the
\* tick, or counted as dropped; none twice, though a reload runs the file of
\* rules twice.
AlertsAccounted ==
    /\ raised = shown + Len(alert_events) + alerts_dropped
    /\ \A c \in Channels : sent[c] = raised
    /\ \A n \in 1 .. Len(alert_events) - 1 : alert_events[n] < alert_events[n + 1]

\* Every action of a rule that fired runs, in order, whether or not one before
\* it failed.
AllActionsRun == [][(pc = "act" /\ pc' # "act" /\ pc' # "down") => acted' = r.actions]_vars

\* What a rule asked of the scheduler is handed over in the same tick: no
\* reload, which drops what is pending, and no stop comes in between.
EscalationsTaken == pc \notin {"act", "rule", "publish"} => asked = 0
=============================================================================
