----------------------------- MODULE Lifecycle -----------------------------
(***************************************************************************)
(* The life of the bot: the state machine (core/state_machine.py), what a  *)
(* start checks (startup.py, main.py), the operator's commands             *)
(* (telegram/) and the guard of live orders (execution_guard.py).          *)
(*                                                                         *)
(* A start runs to its verdict without giving way, and a command is        *)
(* dispatched synchronously, so each is one action.  Percentages are whole *)
(* numbers; texts, and the database, whose check is not critical, are left *)
(* out.                                                                    *)
(***************************************************************************)
EXTENDS Integers

CONSTANTS
  Configs,     \* the configurations the environment may hold
  NoEvidence   \* model value: the guard is asked without evidence

VARIABLES
  config,      \* the configuration, and whether a strategy is registered
  state,       \* the state machine's
  up,          \* the process runs its loop
  word         \* history: "stop" once the operator or a lock has stopped the trading, in this process
               \* or one before it; "run" again by the operator or by a start that passes its checks

lifecycleVars == <<config, state, up, word>>

Modes == {"BACKTEST", "PAPER", "LIVE"}

\* A bug: a bot that is RUNNING cannot be locked.
BugALLOWED ==
  [STARTING  |-> {"READY", "ERROR", "SHUTDOWN"},
   READY     |-> {"RUNNING", "PAUSED", "RISK_LOCK", "ERROR", "SHUTDOWN"},
   RUNNING   |-> {"PAUSED", "ERROR", "SHUTDOWN"},
   PAUSED    |-> {"RUNNING", "RISK_LOCK", "ERROR", "SHUTDOWN"},
   RISK_LOCK |-> {"PAUSED", "READY", "ERROR", "SHUTDOWN"},
   ERROR     |-> {"READY", "SHUTDOWN"},
   SHUTDOWN  |-> {}]

ALLOWED ==
  [STARTING  |-> {"READY", "ERROR", "SHUTDOWN"},
   READY     |-> {"RUNNING", "PAUSED", "RISK_LOCK", "ERROR", "SHUTDOWN"},
   RUNNING   |-> {"PAUSED", "RISK_LOCK", "ERROR", "SHUTDOWN"},
   PAUSED    |-> {"RUNNING", "RISK_LOCK", "ERROR", "SHUTDOWN"},
   RISK_LOCK |-> {"PAUSED", "READY", "ERROR", "SHUTDOWN"},
   ERROR     |-> {"READY", "SHUTDOWN"},
   SHUTDOWN  |-> {}]

Can(target) == target \in ALLOWED[state]

\* transition: an illegal one raises and leaves the state; every caller catches.
Transition(target) == state' = IF Can(target) THEN target ELSE state

IsTradingActive == state = "RUNNING"

-----------------------------------------------------------------------------
(* What a configuration allows. *)

LiveTradingAllowed(c) == c.mode = "LIVE" /\ c.enabled /\ c.keys

\* A bug: the limits are checked and the mode is not.
BugCheckConfig(c) ==
  /\ c.maxRisk >= c.initialRisk /\ c.emergency > c.daily
  /\ c.minRr >= 100 /\ c.maxLosses >= 1

CheckConfig(c) ==
  /\ c.maxRisk >= c.initialRisk /\ c.emergency > c.daily
  /\ c.minRr >= 100 /\ c.maxLosses >= 1
  /\ c.mode = "LIVE" => LiveTradingAllowed(c)

CheckCredentials(c) == c.mode = "LIVE" => c.keys

CheckTelegram(c) == c.token => c.whitelist # {}

CheckStrategyRegistry(c) == c.registered

\* build_self_checks: each check with whether it is critical.
SelfChecks(c) ==
  {[critical |-> TRUE, passed |-> CheckConfig(c)],
   [critical |-> TRUE, passed |-> CheckCredentials(c)],
   [critical |-> TRUE, passed |-> CheckStrategyRegistry(c)],
   [critical |-> FALSE, passed |-> CheckTelegram(c)]}

AllCriticalPassed(c) == \A r \in SelfChecks(c) : r.critical => r.passed

\* Commands reach the bot only where it polls for them, which start does when it
\* is enabled, and count from the chats that are listed.
BotEnabled(c) == c.token /\ c.whitelist # {}
Authorized(chat) == BotEnabled(config) /\ chat \in config.whitelist

\* can_trade_live, up to the evidence.
GuardPasses ==
  /\ config.mode = "LIVE" /\ config.enabled /\ config.keys
  /\ IsTradingActive

Gates == {"oos_expectancy", "oos_pf", "wf_consistency", "mc", "sensitivity", "stress",
          "no_look_ahead", "risk_controls", "critical_tests"}

\* The evidence is the set of gates passed; without evidence none is asked for.
CanTradeLive(evidence) == GuardPasses /\ evidence \in {NoEvidence, Gates}

-----------------------------------------------------------------------------
LifecycleInit ==
  /\ config \in Configs
  /\ state = "STARTING"
  /\ up = FALSE
  /\ word = "run"

\* cmd_run and _run_loop: STARTING, READY, the checks, RUNNING.  A critical
\* check that fails ends the process in READY.  Why the process before it stopped
\* is not known to it.
Boot ==
  /\ state = "STARTING"
  /\ up' = AllCriticalPassed(config)
  /\ state' = IF AllCriticalPassed(config) THEN "RUNNING" ELSE "READY"
  /\ word' = IF AllCriticalPassed(config) THEN "run" ELSE word
  /\ UNCHANGED config

\* The loop ends; the last transition raises if the machine is shut down already.
EndLoop ==
  /\ up
  /\ Transition("SHUTDOWN")
  /\ up' = FALSE
  /\ UNCHANGED <<config, word>>

\* A new process, after an end or in place of one that crashed: nothing of the
\* machine is kept, and the configuration is read anew.  A bound: a deployment
\* keeps its mode.
NewProcess ==
  /\ state # "STARTING"
  /\ state' = "STARTING"
  /\ up' = FALSE
  /\ config' \in {c \in Configs : c.mode = config.mode}
  /\ UNCHANGED word

\* The state each of the operator's commands asks for.
Target(command) ==
  CASE command \in {"/startbot", "/resume"} -> "RUNNING"
    [] command = "/pause" -> "PAUSED"
    [] command = "/stopbot" -> "SHUTDOWN"

Commands == {"/startbot", "/resume", "/pause", "/stopbot"}

\* dispatch and the handlers that move the machine.  Another chat is denied
\* before anything happens, and a transition that raises is answered only.
Dispatch(command, chat) ==
  /\ up /\ Authorized(chat) /\ Can(Target(command))
  /\ state' = Target(command)
  /\ word' = IF Target(command) = "RUNNING" THEN "run" ELSE "stop"
  /\ UNCHANGED <<config, up>>

\* Whoever finds something wrong locks the machine, or puts it into ERROR.
Lock(target) ==
  /\ Transition(target)
  /\ word' = "stop"
  /\ UNCHANGED <<config, up>>

\* Somebody has looked: the machine is made READY, and is not RUNNING yet.
Recover ==
  /\ up /\ state \in {"ERROR", "RISK_LOCK"}
  /\ Transition("READY")
  /\ UNCHANGED <<config, up, word>>
=============================================================================
