-------------------------- MODULE ExternalStrategy --------------------------
(***************************************************************************)
(* strategy/external.rs: a strategy in a child process that answers the    *)
(* engine over two pipes.  Three parties run concurrently: the engine's    *)
(* thread, which blocks on every callback; the thread of reader_loop,      *)
(* which moves lines from the child's stdout to a channel; and the child,  *)
(* which is the loop of trading/_sdk/python/pallas_strategy.py around a    *)
(* user's callbacks.  A callback may raise, hang, print, or answer twice.  *)
(*                                                                         *)
(* backtest/session.rs drives it: handshake, run, take_error, drop.  The   *)
(* run in between is ReplayEngine.tla; here it is a number of callbacks    *)
(* and a log of fills that grows between them.                             *)
(***************************************************************************)
EXTENDS Naturals, Sequences

CONSTANTS
  MaxCalls,   \* bound: events of the run
  MaxFills,   \* bound: entries of the fill log
  MaxNoise,   \* bound: lines the child writes beyond its answers
  LongLines,  \* whether a request may exceed the capacity of the stdin pipe
  CanFinish   \* what the child's ready may say of the capability "finish"

ASSUME BoundsAssumption == {MaxCalls, MaxFills, MaxNoise} \subseteq Nat

ASSUME ChoicesAssumption == LongLines \in BOOLEAN /\ CanFinish \subseteq BOOLEAN

VARIABLES
  pc,         \* where the engine's thread stands
  call,       \* the request in hand: init, event or finish
  calls,      \* callbacks made
  seq,        \* number of the last request
  fillLog,    \* length of the engine's fill log (the rejection log is alike)
  fillsSeen,  \* fills_seen: how much of it the strategy has been told
  finishes,   \* supports_finish
  error,      \* protocol_error is set
  controls,   \* requests whose controls wait to be drained
  toChild,    \* the child's stdin
  child,      \* the child: where it stands, the request it has in hand
  fromChild,  \* the child's stdout
  lines,      \* the channel of the reader thread
  reading,    \* the reader thread runs
  result,     \* what the run returns
  ghost       \* history the properties speak of

runVars   == <<calls, fillLog>>
adapter   == <<seq, fillsSeen, finishes>>
pipes     == <<toChild, fromChild, lines>>
vars == <<pc, call, runVars, adapter, error, controls, pipes, child, reading, result, ghost>>

\* The ctx of a request carries the fills from `from` up to `upto`.
NoRequest == [msg |-> "none", seq |-> 0, from |-> 0, upto |-> 0]

\* answered  callbacks whose answer was accepted;
\* intents   the numbers of the requests the accepted intents were computed for;
\* heard     how much of the fill log the child has received;
\* gap       the child received a fill twice or missed one;
\* noise     lines beyond the answers.
NoHistory ==
  [answered |-> 0, intents |-> {}, heard |-> 0, gap |-> FALSE, noise |-> 0]

Init ==
  /\ pc = "start"
  /\ call = "init"
  /\ calls = 0
  /\ seq = 0
  /\ fillLog = 0
  /\ fillsSeen = 0
  /\ finishes = FALSE
  /\ error = FALSE
  /\ controls = {}
  /\ toChild = <<>>
  /\ child = [at |-> "starting", has |-> NoRequest]
  /\ fromChild = <<>>
  /\ lines = <<>>
  /\ reading = TRUE
  /\ result = "none"
  /\ ghost = NoHistory

-----------------------------------------------------------------------------
\* The engine's thread.

Gone == child.at = "gone"

\* An error of the handshake ends the run; an error of a callback is kept in
\* protocol_error and the run goes on without the strategy.
Fail(during) ==
  IF during = "init"
    THEN /\ pc' = "closing" /\ result' = "error"
         /\ UNCHANGED error
    ELSE /\ pc' = "drain" /\ error' = TRUE
         /\ UNCHANGED result

\* writeln and flush.  A long line fills the pipe: the call returns when the child
\* reads, and there is no timeout on it.
Write(during, request) ==
  IF Gone
    THEN Fail(during) /\ UNCHANGED toChild
    ELSE /\ toChild' = Append(toChild, request)
         /\ \/ pc' = "check"
            \/ LongLines /\ pc' = "write"
         /\ UNCHANGED <<error, result>>

Request(msg, n) == [msg |-> msg, seq |-> n, from |-> fillsSeen, upto |-> fillLog]

\* handshake_with_context.
SendInit ==
  /\ pc = "start"
  /\ Write("init", NoRequest)
  /\ UNCHANGED <<call, runVars, adapter, controls, child, fromChild, lines, reading, ghost>>

\* on_event and orders_for_event: nothing is asked of a strategy that failed.
OnEvent ==
  /\ pc = "running" /\ calls < MaxCalls
  /\ call' = "event"
  /\ calls' = calls + 1
  /\ IF error
       THEN pc' = "drain" /\ UNCHANGED <<seq, toChild, error, result>>
       ELSE /\ seq' = seq + 1
            /\ Write("event", Request("event", seq'))
  /\ UNCHANGED <<fillLog, fillsSeen, finishes, controls, child, fromChild, lines, reading,
                 ghost>>

\* on_finish and orders_for_finish.
OnFinish ==
  /\ pc = "running"
  /\ call' = "finish"
  /\ IF error \/ ~finishes
       THEN pc' = "drain" /\ UNCHANGED <<calls, seq, toChild, error, result>>
       ELSE /\ calls' = calls + 1
            /\ seq' = seq + 1
            /\ Write("finish", Request("finish", seq'))
  /\ UNCHANGED <<fillLog, fillsSeen, finishes, controls, child, fromChild, lines, reading,
                 ghost>>

\* A write that blocks returns once the child has read, or has gone.
Written ==
  /\ pc = "write"
  /\ \/ toChild = <<>> /\ pc' = "check" /\ UNCHANGED <<error, result>>
     \/ Gone /\ Fail(call)
  /\ UNCHANGED <<call, runVars, adapter, controls, pipes, child, reading, ghost>>

\* read_line_timeout, first half: try_wait.
Check ==
  /\ pc = "check"
  /\ IF Gone THEN Fail(call) ELSE pc' = "recv" /\ UNCHANGED <<error, result>>
  /\ UNCHANGED <<call, runVars, adapter, controls, pipes, child, reading, ghost>>

\* Mutant of Acceptable: the number of the answer is not compared.
AcceptableUnnumbered(line) ==
  line.msg = IF call = "init" THEN "ready" ELSE "intents"

\* read_ready and request_orders: the line parses, is of the kind asked for and
\* answers the request in hand.
Acceptable(line) ==
  IF call = "init" THEN line.msg = "ready"
                   ELSE line.msg = "intents" /\ line.seq = seq

\* Mutant of Accept: what the strategy has been told is not recorded.
AcceptUnrecorded(line) ==
  /\ controls' = IF line.asks THEN controls \cup {line.seq} ELSE controls
  /\ finishes' = IF call = "init" THEN line.finish ELSE finishes
  /\ UNCHANGED fillsSeen

\* What an acceptable line changes before its intents are converted: the logs
\* count as told and the controls are queued.
Accept(line) ==
  /\ controls' = IF line.asks THEN controls \cup {line.seq} ELSE controls
  /\ finishes' = IF call = "init" THEN line.finish ELSE finishes
  /\ fillsSeen' = IF call = "init" THEN fillsSeen ELSE fillLog

\* read_line_timeout, second half: a line came.
Receive ==
  /\ pc = "recv" /\ lines # <<>>
  /\ lines' = Tail(lines)
  /\ LET line == Head(lines)
     IN  IF ~Acceptable(line)
           THEN Fail(call) /\ UNCHANGED <<fillsSeen, finishes, controls, ghost>>
           ELSE /\ Accept(line)
                /\ IF ~line.ok
                     THEN Fail(call) /\ UNCHANGED ghost
                     ELSE /\ pc' = IF call = "init" THEN "running" ELSE "drain"
                          /\ ghost' = IF call = "init" THEN ghost
                                      ELSE [ghost EXCEPT !.answered = @ + 1,
                                                         !.intents = @ \cup {<<seq, line.for>>}]
                          /\ UNCHANGED <<error, result>>
  /\ UNCHANGED <<call, runVars, seq, toChild, child, fromChild, reading>>

\* Mutant of Timeout: the child is left alone.
TimeoutSpares ==
  /\ pc = "recv" /\ lines = <<>> /\ reading
  /\ Fail(call)
  /\ UNCHANGED <<call, runVars, adapter, controls, pipes, child, reading, ghost>>

\* ... or none in time: the child is killed.
Timeout ==
  /\ pc = "recv" /\ lines = <<>> /\ reading
  /\ child' = [child EXCEPT !.at = "gone"]
  /\ Fail(call)
  /\ UNCHANGED <<call, runVars, adapter, controls, pipes, reading, ghost>>

\* ... or the reader has hung up.
Disconnected ==
  /\ pc = "recv" /\ lines = <<>> /\ ~reading
  /\ Fail(call)
  /\ UNCHANGED <<call, runVars, adapter, controls, pipes, child, reading, ghost>>

\* Mutant of Drain: the controls of an answer whose intents fail are kept.
DrainUnlessFailed ==
  /\ pc = "drain"
  /\ controls' = IF error THEN controls ELSE {}
  /\ pc' = IF call = "finish" THEN "report" ELSE "running"
  /\ UNCHANGED <<call, runVars, adapter, error, pipes, child, reading, result, ghost>>

\* The engine drains the controls and runs them, whatever the callback returned.
Drain ==
  /\ pc = "drain"
  /\ controls' = {}
  /\ pc' = IF call = "finish" THEN "report" ELSE "running"
  /\ UNCHANGED <<call, runVars, adapter, error, pipes, child, reading, result, ghost>>

\* Between two callbacks orders fill.
Fill ==
  /\ pc = "running" /\ fillLog < MaxFills
  /\ fillLog' = fillLog + 1
  /\ UNCHANGED <<pc, call, calls, adapter, error, controls, pipes, child, reading, result,
                 ghost>>

\* The run ends early: it is cancelled, or a control of the strategy names an
\* order that is not working.
Abort ==
  /\ pc = "running"
  /\ pc' = "closing"
  /\ result' = "error"
  /\ UNCHANGED <<call, runVars, adapter, error, controls, pipes, child, reading, ghost>>

\* Mutant of TakeError: the error is not asked for.
TakeNoError ==
  /\ pc = "report"
  /\ pc' = "closing"
  /\ result' = "report"
  /\ UNCHANGED <<call, runVars, adapter, error, controls, pipes, child, reading, ghost>>

\* run_external_backtest: the report, unless the strategy failed.
TakeError ==
  /\ pc = "report"
  /\ pc' = "closing"
  /\ result' = IF error THEN "error" ELSE "report"
  /\ error' = FALSE
  /\ UNCHANGED <<call, runVars, adapter, controls, pipes, child, reading, ghost>>

\* drop: the shutdown message, whether or not the child can read it ...
Shutdown ==
  /\ pc = "closing"
  /\ pc' = "wait"
  /\ toChild' = IF Gone THEN toChild
                ELSE Append(toChild, [NoRequest EXCEPT !.msg = "shutdown"])
  /\ UNCHANGED <<call, runVars, adapter, error, controls, child, fromChild, lines, reading,
                 result, ghost>>

\* ... and then its exit.
Wait ==
  /\ pc = "wait" /\ Gone
  /\ pc' = "returned"
  /\ UNCHANGED <<call, runVars, adapter, error, controls, pipes, child, reading, result, ghost>>

-----------------------------------------------------------------------------
\* reader_loop.

Forward ==
  /\ reading /\ fromChild # <<>>
  /\ lines' = Append(lines, Head(fromChild))
  /\ fromChild' = Tail(fromChild)
  /\ UNCHANGED <<pc, call, runVars, adapter, error, controls, toChild, child, reading, result,
                 ghost>>

EndOfFile ==
  /\ reading /\ fromChild = <<>> /\ Gone
  /\ reading' = FALSE
  /\ UNCHANGED <<pc, call, runVars, adapter, error, controls, pipes, child, result, ghost>>

-----------------------------------------------------------------------------
\* The child: run() of the SDK.

engineVars == <<pc, call, runVars, adapter, error, controls, lines, reading, result>>

Line(msg, ok, asks, finish) ==
  [msg |-> msg, seq |-> child.has.seq, for |-> child.has.seq, ok |-> ok, asks |-> asks,
   finish |-> finish]

\* The strategy's module is loaded and calls run().
ChildStarts ==
  /\ child.at = "starting"
  /\ child' = [child EXCEPT !.at = "loop"]
  /\ UNCHANGED <<engineVars, toChild, fromChild, ghost>>

\* A line is read; shutdown ends the loop.
ChildReads ==
  /\ child.at = "loop" /\ toChild # <<>>
  /\ toChild' = Tail(toChild)
  /\ LET m == Head(toChild)
     IN  /\ child' = [at |-> IF m.msg = "shutdown" THEN "gone" ELSE "busy", has |-> m]
         /\ ghost' = IF m.msg = "shutdown" THEN ghost
                     ELSE [ghost EXCEPT !.gap = @ \/ m.from # ghost.heard, !.heard = m.upto]
  /\ UNCHANGED <<engineVars, fromChild>>

\* The callback returns.  Its intents convert or not (a quantity of zero), and it
\* asks for controls or not.
ChildAnswers ==
  /\ child.at = "busy"
  /\ IF child.has.msg = "none"
       THEN \E b \in CanFinish : fromChild' = Append(fromChild, Line("ready", TRUE, FALSE, b))
       ELSE \E ok, asks \in BOOLEAN :
              fromChild' = Append(fromChild, Line("intents", ok, asks, FALSE))
  /\ child' = [child EXCEPT !.at = "loop"]
  /\ UNCHANGED <<engineVars, toChild, ghost>>

\* The code of the strategy is on: its module is loaded, or one of its callbacks runs.
UserCode == child.at \in {"starting", "busy"}

\* It prints, or a strategy without the SDK answers a second time.
ChildPrints ==
  /\ ghost.noise < MaxNoise
  /\ \/ UserCode /\ fromChild' = Append(fromChild, Line("noise", TRUE, FALSE, FALSE))
     \/ /\ child.at = "loop" /\ child.has.msg \in {"event", "finish"}
        /\ fromChild' = Append(fromChild, Line("intents", TRUE, FALSE, FALSE))
  /\ ghost' = [ghost EXCEPT !.noise = @ + 1]
  /\ UNCHANGED <<engineVars, toChild, child>>

\* It raises: the process ends.
ChildRaises ==
  /\ UserCode
  /\ child' = [child EXCEPT !.at = "gone"]
  /\ UNCHANGED <<engineVars, toChild, fromChild, ghost>>

\* It never returns.
ChildHangs ==
  /\ UserCode
  /\ child' = [child EXCEPT !.at = "hung"]
  /\ UNCHANGED <<engineVars, toChild, fromChild, ghost>>

-----------------------------------------------------------------------------
EngineNext ==
  \/ SendInit \/ OnEvent \/ OnFinish \/ Written \/ Check \/ Receive \/ Timeout
  \/ Disconnected \/ Drain \/ Fill \/ Abort \/ TakeError \/ Shutdown \/ Wait

ReaderNext == Forward \/ EndOfFile

ChildNext == ChildStarts \/ ChildReads \/ ChildAnswers \/ ChildPrints \/ ChildRaises \/ ChildHangs

\* A hung process runs on, and so does the caller of a run that returned.
Elsewhere == (child.at = "hung" \/ pc = "returned") /\ UNCHANGED vars

Next == EngineNext \/ ReaderNext \/ ChildNext \/ Elsewhere

\* The operating system runs all three parties; recv_timeout fires in the end.
\* A child that has not hung goes on with its loop.
Fairness ==
  /\ WF_vars(EngineNext)
  /\ WF_vars(ReaderNext)
  /\ WF_vars(ChildNext)

Spec == Init /\ [][Next]_vars /\ Fairness

-----------------------------------------------------------------------------
Requests == [msg : {"none", "event", "finish", "shutdown"}, seq : Nat, from : Nat, upto : Nat]

Lines ==
  [msg : {"ready", "intents", "noise"}, seq : Nat, for : Nat, ok : BOOLEAN, asks : BOOLEAN,
   finish : BOOLEAN]

TypeOK ==
  /\ pc \in {"start", "write", "check", "recv", "running", "drain", "report", "closing",
             "wait", "returned"}
  /\ call \in {"init", "event", "finish"}
  /\ {calls, seq, fillLog, fillsSeen} \subseteq Nat
  /\ finishes \in BOOLEAN /\ error \in BOOLEAN /\ reading \in BOOLEAN
  /\ controls \subseteq Nat
  /\ toChild \in Seq(Requests)
  /\ fromChild \in Seq(Lines) /\ lines \in Seq(Lines)
  /\ child \in [at : {"starting", "loop", "busy", "hung", "gone"}, has : Requests]
  /\ result \in {"none", "report", "error"}

\* external.rs compares numbers because a line may be late or double: the intents
\* accepted for an event were computed from that event.
AnswersBelongToTheirRequest == \A pair \in ghost.intents : pair[1] = pair[2]

\* protocol.md: "fills and rejections contain updates since the preceding
\* callback": whatever fails in between, the child receives the log without a gap
\* and without a repetition.
LogIsToldOnce == ~ghost.gap

\* A report is returned only if the strategy answered every callback: a failed
\* strategy, which the run outlives in silence, never looks like one that chose
\* not to trade.
ReportMeansAnswered == result = "report" => ghost.answered = calls

\* Controls run in the callback that asked for them, even when the intents of the
\* same answer are refused: none is held back until the account has moved on.
ControlsRunInTheirCallback ==
  IF pc = "drain" THEN controls \subseteq {seq} ELSE controls = {}

\* The run returns although callbacks raise, hang, print or answer twice.  It hangs
\* for ever in two places only, which external.rs gives no timeout, and only on a child
\* that hangs: in the write of a long line to a child that does not read any more, and
\* in the wait of drop for a child of which an unasked line had ended the last wait.
RunReturns ==
  \/ <>(pc = "returned")
  \/ <>[](child.at = "hung" /\ (pc = "write" \/ (pc = "wait" /\ ghost.noise > 0)))
=============================================================================
