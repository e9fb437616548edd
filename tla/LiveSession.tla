---------------------------- MODULE LiveSession ----------------------------
(***************************************************************************)
(* The engine behind replay_events_sync: a stream of events that an        *)
(* operator's commands are part of (process_event_sync of engine/sync.rs,  *)
(* apply_control_sync of engine/commands.rs).  It dispatches as            *)
(* ReplayEngine does, but                                                  *)
(*   - a paused or disabled engine does not call the strategy,             *)
(*   - nothing is settled after a bar and no last callback is made.        *)
(*                                                                         *)
(* `mode` is chosen once: "replay" is backtest/runner.rs, whose data holds *)
(* no commands, and "live" is this stream.                                 *)
(***************************************************************************)
EXTENDS ReplayEngine

CONSTANTS
  Commands,  \* the commands an operator may give
  Checks     \* the halting rules of the caller's RiskEngine

ASSUME ChecksAssumption == Checks \subseteq {"PauseCheck", "TradingDisabledCheck"}

VARIABLES
  mode,
  paused,     \* GlobalState.paused
  trading,    \* GlobalState.trading_state
  halted      \* history: the next order id when the engine was last halted

session  == <<mode, paused, trading, halted>>
liveVars == <<vars, session>>

\* A live stream moves the daily anchor after the poll and not before it, which is
\* not modelled: it has no loss limit here.
LiveInit ==
  /\ Init
  /\ mode \in {"replay", "live"}
  /\ mode = "live" => MaxDailyLoss = NoLimit
  /\ paused = FALSE
  /\ trading = "Enabled"
  /\ halted = 0

\* Mutant of Blocked: only the pause is looked at.
BlockedWhenPaused == "PauseCheck" \in Checks /\ paused

\* PauseCheck and TradingDisabledCheck refuse what is not a flatten.
Blocked ==
  \/ "PauseCheck" \in Checks /\ paused
  \/ "TradingDisabledCheck" \in Checks /\ trading = "Disabled"

\* The strategy is not called.
Silenced == paused \/ trading = "Disabled"

-----------------------------------------------------------------------------
\* The operator's commands.  They have no timestamp of their own.  The bound on
\* answers counts them too.
Operator(c) ==
  /\ mode = "live" /\ phase = "idle" /\ event.index < MaxEvents
  /\ used < MaxResponses /\ used' = used + 1
  /\ UNCHANGED <<now, rows, marketVars, acct, open, nextId, pending, work, poll,
                 ghost, mode>>

Switch(c) ==
  /\ Operator(c)
  /\ c \in {"Pause", "Resume", "DisableTrading", "EnableTrading"}
  /\ event' = [NoEvent EXCEPT !.kind = "command", !.index = event.index + 1]
  /\ paused' = CASE c = "Pause" -> TRUE [] c = "Resume" -> FALSE [] OTHER -> paused
  /\ trading' = CASE c = "DisableTrading" -> "Disabled"
                  [] c = "EnableTrading"  -> "Enabled"
                  [] OTHER                -> trading
  /\ halted' = IF ~Silenced /\ Silenced' THEN nextId ELSE halted
  /\ phase' = "strategy"
  /\ UNCHANGED controls

\* CancelAll and Flatten are applied as a strategy's are, and then the strategy
\* is told.
Intervene(c) ==
  /\ Operator(c)
  /\ c \in {"CancelAll", "Flatten"}
  /\ event' = [NoEvent EXCEPT !.kind = "operator", !.index = event.index + 1]
  /\ controls' = <<[kind |-> c]>>
  /\ phase' = "control"
  /\ UNCHANGED <<paused, trading, halted>>

EndIntervention ==
  /\ phase = "control" /\ controls = <<>> /\ event.kind = "operator"
  /\ event' = [event EXCEPT !.kind = "command"]
  /\ phase' = "strategy"
  /\ UNCHANGED <<now, rows, used, marketVars, acct, open, nextId, pending, work, poll,
                 controls, ghost, session>>

-----------------------------------------------------------------------------
\* What differs from a replay.

\* An intent of a blocked engine is rejected, a deferred one too.
RejectBlocked ==
  /\ Placing /\ Blocked
  /\ TakeIntent
  /\ UNCHANGED <<phase, loopVars, marketVars, acct, open, nextId, poll, controls, ghost,
                 session>>

SkipStrategy ==
  /\ phase = "strategy" /\ Silenced
  /\ phase' = "idle"
  /\ UNCHANGED <<loopVars, marketVars, acct, open, nextId, pending, work, poll, controls,
                 ghost, session>>

EndLiveSubmit ==
  /\ mode = "live" /\ phase = "submit" /\ work = <<>>
  /\ phase' = "idle"
  /\ UNCHANGED <<loopVars, marketVars, acct, open, nextId, pending, work, poll, controls,
                 ghost, session>>

\* replay_events_sync returns the state as it is.
EndStream ==
  /\ mode = "live" /\ phase = "idle"
  /\ phase' = "done"
  /\ UNCHANGED <<loopVars, marketVars, acct, open, nextId, pending, work, poll, controls,
                 ghost, session>>

\* The steps that both modes share.
Shared ==
  \/ \E b \in Bars, t \in Moments : Bar(b, t)
  \/ \E e \in Ticks, t \in Moments : Tick(e, t)
  \/ \E t \in Moments : Timer(t)
  \/ ~Blocked /\ (PlaceFills \/ PlaceRests \/ PlaceRejected)
  \/ Defer
  \/ CloseBar \/ EndPlace
  \/ \E c \in poll.todo : PollFills(c) \/ PollRejects(c) \/ PollSkips(c)
  \/ EndPoll
  \/ \E r \in Responses \cup {Silence} : ~Silenced /\ OnEvent(r)
  \/ Cancel \/ CancelUnknown
  \/ StartFlatten \/ FlattenFills \/ FlattenSkips \/ EndFlatten
  \/ event.kind # "operator" /\ EndControl
  \/ Ended

ReplayOnly ==
  \/ EndSubmit
  \/ \E r \in Responses \cup {Silence} : Finish(r)
  \/ \E i \in Instruments :
       \/ Liquidate(i) \/ SettleFunding(i) \/ SettleCoupon(i)
       \/ SettleOption(i) \/ SettleNothing(i)
  \/ EndSettle

LiveNext ==
  \/ Shared /\ UNCHANGED session
  \/ mode = "replay" /\ ReplayOnly /\ UNCHANGED session
  \/ \E c \in Commands : Switch(c) \/ Intervene(c)
  \/ EndIntervention
  \/ RejectBlocked
  \/ SkipStrategy
  \/ EndLiveSubmit
  \/ EndStream

LiveSpec == LiveInit /\ [][LiveNext]_liveVars

-----------------------------------------------------------------------------
(***************************************************************************)
(* With both halting rules in its RiskEngine, whatever a paused or disabled *)
(* engine fills was working when it was halted, or closes a position on    *)
(* the operator's order: neither a strategy's answer nor an intent that    *)
(* was deferred before becomes an order (risk.rs:46-79, sync.rs:72-100).   *)
(***************************************************************************)
HaltPlacesNothingNew ==
  [][Checks = {"PauseCheck", "TradingDisabledCheck"} /\ Silenced
       /\ ghost'.last # ghost.last /\ phase # "flatten"
       => ghost'.last.id < halted]_liveVars
=============================================================================
