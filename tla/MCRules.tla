------------------------------- MODULE MCRules ------------------------------
(***************************************************************************)
(* The rules: the engine and its rule state, the limits of a Lua call, the *)
(* builtins and the pattern matcher of its string library. A behaviour is  *)
(* one of the parts on its own; the others rest in an initial state.       *)
(***************************************************************************)
EXTENDS LuaPattern, LuaActions, LuaLimits

CONSTANTS Missing, lvl1, c1, c2

VARIABLES part,
          pc, running, rules, r_i, acted, file, r_text, stop, state, reload, tmp, level_conditions, channels,
          alert_events, alerts_dropped, escalations, sent, shown, recent_alerts, ticks, reloads, ends,
          owed, streak, unsaved, lost, stale, raised, asked

rulevars == <<pc, running, rules, r_i, acted, file, r_text, stop, state, reload, tmp, level_conditions, channels,
              alert_events, alerts_dropped, escalations, sent, shown, recent_alerts, ticks, reloads, ends,
              owed, streak, unsaved, lost, stale, raised, asked>>
allvars == <<part, in, call, rulevars, limitvars>>

-----------------------------------------------------------------------------
(* Rules files of one or two rules, with a file-scope alert, an            *)
(* escalation, a syntax error and a name used twice among them.            *)

W(n, ft, cd, acts) == [kind |-> "watch", name |-> n, for_ticks |-> ft, cooldown |-> cd, actions |-> acts]
Do(k) == [kind |-> k]

\* Cooldowns and counts: no alert, so that only they differ.
TimedFiles ==
    { << W("load", 2, 2, <<"log">>), W("swap", 1, 1, <<"log">>) >>,
      << W("swap", 1, 2, <<"log">>), Do("error"), W("load", 1, 1, <<"log">>) >> }

\* Actions: alerts, escalations, a function that may do either or fail.
ActiveFiles ==
    { << W("load", 1, 1, <<"function", "alert", "escalate">>), Do("alert") >>,
      << Do("escalate"), Do("alert"), W("load", 1, 0, <<"function", "alert">>) >>,
      << W("load", 1, 1, <<"alert">>), W("load", 1, 1, <<"log">>) >> }

\* Ticks, reloads and the ends of the process, over the rule state.
State == INSTANCE RuleEngine WITH text <- r_text, i <- r_i,
    Names <- {"load", "swap"}, RuleFiles <- TimedFiles, Levels <- {lvl1}, Channels <- {c1}, persist_state <- TRUE,
    kMaxPendingAlerts <- 1, kRecentAlerts <- 1, MaxTicks <- 3, MaxReloads <- 1, MaxEnds <- 2, MayFail <- TRUE

\* What the rules do, to two channels.
Acts == INSTANCE RuleEngine WITH text <- r_text, i <- r_i,
    Names <- {"load"}, RuleFiles <- ActiveFiles, Levels <- {lvl1}, Channels <- {c1, c2}, persist_state <- FALSE,
    kMaxPendingAlerts <- 2, kRecentAlerts <- 3, MaxTicks <- 3, MaxReloads <- 2, MaxEnds <- 2, MayFail <- TRUE

ASSUME RuleInstances == PatternAssumption /\ LimitAssumption

RulesInit ==
    /\ part \in {"state", "acts", "limits", "calls", "patterns"}
    /\ IF part = "acts" THEN Acts!Init ELSE State!Init
    /\ LimitInit /\ ActionInit /\ PatternInit
    /\ part \notin {"state", "acts"} => file = Missing
    /\ part # "limits" => memory_used = 0

RulesNext ==
    \/ part = "state" /\ State!Next /\ UNCHANGED <<part, in, call, limitvars>>
    \/ part = "acts" /\ Acts!Next /\ UNCHANGED <<part, in, call, limitvars>>
    \/ part = "limits" /\ LimitNext /\ UNCHANGED <<part, in, call, rulevars>>
    \/ part = "calls" /\ ActionNext /\ UNCHANGED <<part, in, rulevars, limitvars>>
    \/ part = "patterns" /\ PatternNext /\ UNCHANGED <<part, call, rulevars, limitvars>>

\* A Lua call goes on until it returns.
InLimits(A) == part = "limits" /\ A /\ UNCHANGED <<part, in, call, rulevars>>
RulesSpec == RulesInit /\ [][RulesNext]_allvars /\ WF_allvars(InLimits(InCall))

-----------------------------------------------------------------------------
\* RuleEngine: a reload is all or nothing: the rules that run are those of one
\* whole file.
WholeFile == part = "state" => State!WholeFile

\* RuleEngine: a rule fires only when its hits in a row are enough and its
\* cooldown is over, across reloads, restarts and saves that fail.
FireEarned == State!FireEarned

\* RuleEngine: after any number of reloads the engine has each channel and each
\* level's condition once.
EngineWhole == part = "acts" => Acts!EngineWhole

\* RuleEngine: every alert raised was handed to each channel, waits, or is
\* counted dropped.
AlertsAccounted == part = "acts" => Acts!AlertsAccounted

\* RuleEngine: no escalation a rule asked for is lost to a reload or a stop.
EscalationsTaken == part = "acts" => Acts!EscalationsTaken

\* RuleEngine: an action that fails does not keep the ones after it from running.
AllActionsRun == Acts!AllActionsRun

-----------------------------------------------------------------------------
\* RuleEngine: reloads are whole, alerts and escalations are accounted for, one
\* failing action does not stop the next, and a rule fires only when it earned it.
EngineRight ==
    /\ [](WholeFile /\ EngineWhole /\ AlertsAccounted /\ EscalationsTaken /\ (part = "acts" => Acts!TypeOK))
    /\ AllActionsRun /\ FireEarned

\* LuaActions and LuaPattern: the builtins take the arguments they should and no
\* other, and the matcher agrees with its reference and charges its work.
LuaRight ==
    /\ WatchRight /\ TraversalRight /\ ExecDeferred /\ ExecListed /\ FreezeRight
    /\ MatchRight /\ FindRight /\ GmatchRight /\ GsubRight /\ WorkCharged
=============================================================================
