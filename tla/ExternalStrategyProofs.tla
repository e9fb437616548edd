----------------------- MODULE ExternalStrategyProofs -----------------------
(***************************************************************************)
(* What holds of an external strategy whatever its child does, however     *)
(* many callbacks, fills and stray lines there are and however long the    *)
(* requests.                                                               *)
(*                                                                         *)
(* The argument is about one request at a time.  Until the child has read  *)
(* it, no line that is or will be on its way can be taken for its answer   *)
(* (Unread); once the child has read it, the child has heard of the whole  *)
(* fill log (Waiting).  An answer that is accepted therefore leaves engine *)
(* and child with the same idea of what has been told (Ready), and after   *)
(* an error nothing is asked any more.                                     *)
(***************************************************************************)
EXTENDS ExternalStrategy, TLAPS

Ran(s) == {s[i] : i \in 1..Len(s)}

\* The lines on their way to the engine.
Out == Ran(fromChild) \cup Ran(lines)

Asking == pc \in {"write", "check", "recv"}

Histories ==
  [answered : Nat, intents : SUBSET (Nat \X Nat), heard : Nat, gap : BOOLEAN, noise : Nat]

Types == TypeOK /\ ghost \in Histories

\* A line is numbered by the request it was computed for, and only an answer to a
\* callback carries controls.
Numbered ==
  /\ \A l \in Out : l.seq = l.for /\ l.seq <= seq /\ (l.asks => l.msg = "intents")
  /\ \A m \in Ran(toChild) : m.seq <= seq
  /\ child.has.seq <= seq

\* Only the first message in the pipe can be a request, and it goes on where the
\* child has heard the log to.
Pending ==
  \A i \in 1..Len(toChild) :
     toChild[i].msg = "shutdown" \/ (i = 1 /\ toChild[i].from = ghost.heard)

\* The child has read nothing yet and has at most printed.
Silent ==
  /\ child.at # "busy" /\ child.has.msg = "none"
  /\ \A l \in Out : l.msg = "noise"

\* Nothing has been asked yet.
Handshake ==
  /\ call = "init" =>
       /\ seq = 0 /\ calls = 0 /\ fillsSeen = 0 /\ ghost.answered = 0
       /\ pc = "start" \/ Asking => fillLog = 0
  /\ pc = "start" =>
       /\ call = "init" /\ ~error /\ ghost.heard = 0
       /\ toChild = <<>> /\ Silent

\* The child has not read the request in hand, and no line answers it.
Unread ==
  /\ Len(toChild) = 1 /\ toChild[1].msg # "shutdown" /\ toChild[1].upto = fillLog
  /\ IF call = "init"
       THEN Silent
       ELSE child.has.seq < seq /\ \A l \in Out : l.seq < seq

Waiting ==
  Asking =>
    /\ ~error
    /\ call # "init" => calls = ghost.answered + 1
    /\ IF toChild = <<>> THEN ghost.heard = fillLog ELSE Unread

\* Between two callbacks engine and child agree on what has been told.
Ready ==
  pc \in {"running", "drain", "report"} /\ ~error =>
    toChild = <<>> /\ ghost.heard = fillsSeen /\ ghost.answered = calls

Ending == result = "report" => pc \in {"closing", "wait", "returned"}

ExtInv ==
  /\ Types /\ Numbered /\ Pending /\ Handshake /\ Waiting /\ Ready /\ Ending
  /\ AnswersBelongToTheirRequest /\ LogIsToldOnce /\ ReportMeansAnswered
  /\ ControlsRunInTheirCallback

-----------------------------------------------------------------------------
\* Sequences.

LEMMA RanAppend ==
  ASSUME NEW S, NEW s \in Seq(S), NEW e \in S
  PROVE  Ran(Append(s, e)) = Ran(s) \cup {e}
<1>1. ASSUME NEW i \in 1..Len(Append(s, e))
      PROVE  Append(s, e)[i] \in Ran(s) \cup {e}
  BY <1>1 DEF Ran
<1>2. ASSUME NEW i \in 1..Len(s)
      PROVE  s[i] \in Ran(Append(s, e))
  <2>1. i \in 1..Len(Append(s, e)) /\ Append(s, e)[i] = s[i]
    BY <1>2
  <2> QED
    BY <2>1 DEF Ran
<1>3. e \in Ran(Append(s, e))
  <2>1. Len(s) + 1 \in 1..Len(Append(s, e)) /\ Append(s, e)[Len(s) + 1] = e
    OBVIOUS
  <2> QED
    BY <2>1 DEF Ran
<1> QED
  BY <1>1, <1>2, <1>3 DEF Ran

LEMMA RanTail ==
  ASSUME NEW S, NEW s \in Seq(S), s # <<>>
  PROVE  /\ Head(s) \in S /\ Tail(s) \in Seq(S)
         /\ Len(Tail(s)) = Len(s) - 1
         /\ \A i \in 1..Len(Tail(s)) : i + 1 \in 1..Len(s) /\ Tail(s)[i] = s[i + 1]
         /\ Ran(s) = {Head(s)} \cup Ran(Tail(s))
<1>1. Len(s) \in Nat /\ Len(s) >= 1 /\ Head(s) = s[1] /\ 1 \in 1..Len(s)
  OBVIOUS
<1>2. Head(s) \in S /\ Tail(s) \in Seq(S) /\ Len(Tail(s)) = Len(s) - 1
  OBVIOUS
<1>3. \A i \in 1..Len(Tail(s)) : i + 1 \in 1..Len(s) /\ Tail(s)[i] = s[i + 1]
  BY <1>1, <1>2
<1>4. ASSUME NEW i \in 1..Len(s)
      PROVE  s[i] \in {Head(s)} \cup Ran(Tail(s))
  <2>1. CASE i = 1
    BY <1>1, <2>1
  <2>2. CASE i # 1
    <3>1. i - 1 \in 1..Len(Tail(s)) /\ Tail(s)[i - 1] = s[i]
      BY <1>1, <1>2, <1>3, <2>2
    <3> QED
      BY <3>1 DEF Ran
  <2> QED
    BY <2>1, <2>2
<1>5. Ran(s) \subseteq {Head(s)} \cup Ran(Tail(s))
  BY <1>4 DEF Ran
<1>6. {Head(s)} \cup Ran(Tail(s)) \subseteq Ran(s)
  BY <1>1, <1>3 DEF Ran
<1> QED
  BY <1>2, <1>3, <1>5, <1>6

-----------------------------------------------------------------------------
\* Types.

LEMMA LineTyped ==
  ASSUME Types, NEW msg \in {"ready", "intents", "noise"}, NEW ok \in BOOLEAN,
         NEW asks \in BOOLEAN, NEW finish \in BOOLEAN
  PROVE  Line(msg, ok, asks, finish) \in Lines
BY DEF Types, TypeOK, Line, Lines, Requests

LEMMA NoRequestTyped == NoRequest \in Requests /\ [NoRequest EXCEPT !.msg = "shutdown"] \in Requests
BY DEF NoRequest, Requests

LEMMA AnswerTyped ==
  ASSUME NEW g \in Histories, NEW p \in Nat \X Nat
  PROVE  [g EXCEPT !.answered = @ + 1, !.intents = @ \cup {p}] \in Histories
<1>1. g.answered + 1 \in Nat /\ g.intents \cup {p} \in SUBSET (Nat \X Nat)
  BY DEF Histories
<1>2. \A n \in Nat, S \in SUBSET (Nat \X Nat) :
         [g EXCEPT !.answered = n, !.intents = S] \in Histories
  BY DEF Histories
<1> QED
  BY <1>1, <1>2

LEMMA NoiseTyped ==
  ASSUME NEW g \in Histories
  PROVE  [g EXCEPT !.noise = @ + 1] \in Histories
<1>1. g.noise + 1 \in Nat
  BY DEF Histories
<1> QED
  BY <1>1 DEF Histories

LEMMA FailTyped ==
  ASSUME Types, NEW during, Fail(during)
  PROVE  pc' \in {"closing", "drain"} /\ error' \in BOOLEAN /\ result' \in {"none", "report", "error"}
BY DEF Types, TypeOK, Fail

LEMMA WriteTyped ==
  ASSUME Types, NEW during, NEW r \in Requests, Write(during, r)
  PROVE  /\ pc' \in {"closing", "drain", "check", "write"} /\ error' \in BOOLEAN
         /\ result' \in {"none", "report", "error"} /\ toChild' \in Seq(Requests)
<1>1. toChild \in Seq(Requests)
  BY DEF Types, TypeOK
<1>2. toChild' \in Seq(Requests)
  BY <1>1 DEF Write
<1>3. CASE Gone
  BY <1>2, <1>3, FailTyped DEF Write
<1>4. CASE ~Gone
  BY <1>2, <1>4 DEF Write, Types, TypeOK
<1> QED
  BY <1>3, <1>4

LEMMA TypesStep == Types /\ [Next]_vars => Types'
<1> SUFFICES ASSUME Types, [Next]_vars PROVE Types'
  OBVIOUS
<1>1. CASE SendInit
  <2>1. Write("init", NoRequest)
    BY <1>1 DEF SendInit
  <2> QED
    BY <1>1, <2>1, NoRequestTyped, WriteTyped DEF Types, TypeOK, SendInit, runVars, adapter
<1>2. CASE OnEvent
  <2>1. Request("event", seq') \in Requests
    BY <1>2 DEF Types, TypeOK, OnEvent, Request, Requests
  <2>2. CASE error
    BY <1>2, <2>2 DEF Types, TypeOK, OnEvent
  <2>3. CASE ~error
    <3>1. Write("event", Request("event", seq')) /\ seq' = seq + 1
      BY <1>2, <2>3 DEF OnEvent
    <3>2. /\ pc' \in {"closing", "drain", "check", "write"} /\ error' \in BOOLEAN
          /\ result' \in {"none", "report", "error"} /\ toChild' \in Seq(Requests)
      BY <2>1, <2>3, <3>1, WriteTyped
    <3>3. /\ call' = "event" /\ seq' = seq + 1 /\ calls' = calls + 1
          /\ UNCHANGED <<fillLog, fillsSeen, finishes, controls, child, fromChild, lines,
                         reading, ghost>>
      BY <1>2, <2>3 DEF OnEvent
    <3> QED
      BY <3>2, <3>3 DEF Types, TypeOK
  <2> QED
    BY <2>2, <2>3
<1>3. CASE OnFinish
  <2>1. ~(error \/ ~finishes) => Request("finish", seq') \in Requests
    BY <1>3 DEF Types, TypeOK, OnFinish, Request, Requests
  <2>2. CASE error \/ ~finishes
    BY <1>3, <2>2 DEF Types, TypeOK, OnFinish
  <2>3. CASE ~(error \/ ~finishes)
    <3>1. Write("finish", Request("finish", seq')) /\ seq' = seq + 1 /\ calls' = calls + 1
      BY <1>3, <2>3 DEF OnFinish
    <3>2. /\ pc' \in {"closing", "drain", "check", "write"} /\ error' \in BOOLEAN
          /\ result' \in {"none", "report", "error"} /\ toChild' \in Seq(Requests)
      BY <2>1, <2>3, <3>1, WriteTyped
    <3>3. /\ call' = "finish" /\ seq' = seq + 1 /\ calls' = calls + 1
          /\ UNCHANGED <<fillLog, fillsSeen, finishes, controls, child, fromChild, lines,
                         reading, ghost>>
      BY <1>3, <2>3 DEF OnFinish
    <3> QED
      BY <3>2, <3>3 DEF Types, TypeOK
  <2> QED
    BY <2>2, <2>3
<1>4. CASE Written \/ Check \/ Timeout \/ Disconnected
  BY <1>4 DEF Types, TypeOK, Written, Check, Timeout, Disconnected, Fail, runVars, adapter,
              pipes
<1>5. CASE Receive
  <2>1. Head(lines) \in Lines /\ Tail(lines) \in Seq(Lines)
    BY <1>5, RanTail DEF Types, TypeOK, Receive
  <2>2. CASE ~Acceptable(Head(lines))
    BY <1>5, <2>1, <2>2 DEF Types, TypeOK, Receive, Fail, runVars
  <2>3. CASE Acceptable(Head(lines))
    <3>1. controls' \subseteq Nat /\ finishes' \in BOOLEAN /\ fillsSeen' \in Nat
      BY <1>5, <2>1, <2>3 DEF Types, TypeOK, Receive, Accept, Lines
    <3>2. ghost' \in Histories
      <4>1. <<seq, Head(lines).for>> \in Nat \X Nat
        BY <2>1 DEF Types, TypeOK, Lines
      <4>2. \/ ghost' = ghost
            \/ ghost' = [ghost EXCEPT !.answered = @ + 1,
                                      !.intents = @ \cup {<<seq, Head(lines).for>>}]
        BY <1>5, <2>3 DEF Receive
      <4> QED
        BY <4>1, <4>2, AnswerTyped DEF Types
    <3>3. /\ pc' \in {"closing", "drain", "running"} /\ error' \in BOOLEAN
          /\ result' \in {"none", "report", "error"}
      BY <1>5, <2>3, FailTyped DEF Types, TypeOK, Receive
    <3> QED
      BY <1>5, <2>1, <3>1, <3>2, <3>3 DEF Types, TypeOK, Receive, runVars
  <2> QED
    BY <2>2, <2>3
<1>6. CASE Drain \/ Fill \/ Abort \/ TakeError \/ Wait
  <2>1. CASE Drain
    BY <2>1 DEF Types, TypeOK, Drain, runVars, adapter, pipes
  <2>2. CASE Fill
    BY <2>2 DEF Types, TypeOK, Fill, adapter, pipes
  <2>3. CASE Abort
    BY <2>3 DEF Types, TypeOK, Abort, runVars, adapter, pipes
  <2>4. CASE TakeError
    BY <2>4 DEF Types, TypeOK, TakeError, runVars, adapter, pipes
  <2>5. CASE Wait
    BY <2>5 DEF Types, TypeOK, Wait, runVars, adapter, pipes
  <2> QED
    BY <1>6, <2>1, <2>2, <2>3, <2>4, <2>5
<1>7. CASE Shutdown
  BY <1>7, NoRequestTyped DEF Types, TypeOK, Shutdown, runVars, adapter
<1>8. CASE Forward
  <2>1. Head(fromChild) \in Lines /\ Tail(fromChild) \in Seq(Lines)
    BY <1>8, RanTail DEF Types, TypeOK, Forward
  <2> QED
    BY <1>8, <2>1 DEF Types, TypeOK, Forward, runVars, adapter
<1>9. CASE EndOfFile
  BY <1>9 DEF Types, TypeOK, EndOfFile, runVars, adapter, pipes
<1>10. CASE ChildReads
  <2>1. Head(toChild) \in Requests /\ Tail(toChild) \in Seq(Requests)
    BY <1>10, RanTail DEF Types, TypeOK, ChildReads
  <2>2. child' \in [at : {"starting", "loop", "busy", "hung", "gone"}, has : Requests]
    BY <1>10, <2>1 DEF ChildReads
  <2>3. ghost' \in Histories
    <3>1. (ghost.gap \/ Head(toChild).from # ghost.heard) \in BOOLEAN
      OBVIOUS
    <3>2. Head(toChild).upto \in Nat
      BY <2>1 DEF Requests
    <3> QED
      BY <1>10, <3>1, <3>2 DEF Types, ChildReads, Histories
  <2> QED
    BY <1>10, <2>1, <2>2, <2>3 DEF Types, TypeOK, ChildReads, engineVars, runVars, adapter
<1>11. CASE ChildAnswers
  <2>1. \E l \in Lines : fromChild' = Append(fromChild, l)
    BY <1>11, LineTyped, ChoicesAssumption DEF ChildAnswers
  <2>2. fromChild' \in Seq(Lines)
    BY <2>1 DEF Types, TypeOK
  <2>3. /\ child' \in [at : {"starting", "loop", "busy", "hung", "gone"}, has : Requests]
        /\ ghost' \in Histories
    BY <1>11 DEF Types, TypeOK, ChildAnswers
  <2> QED
    BY <1>11, <2>2, <2>3 DEF Types, TypeOK, ChildAnswers, engineVars, runVars, adapter
<1>12. CASE ChildPrints
  <2>1. \E l \in Lines : fromChild' = Append(fromChild, l)
    BY <1>12, LineTyped DEF ChildPrints
  <2>2. fromChild' \in Seq(Lines)
    BY <2>1 DEF Types, TypeOK
  <2>3. /\ child' \in [at : {"starting", "loop", "busy", "hung", "gone"}, has : Requests]
        /\ ghost' \in Histories
    <3>1. child' = child /\ ghost' = [ghost EXCEPT !.noise = @ + 1]
      BY <1>12 DEF ChildPrints
    <3> QED
      BY <3>1, NoiseTyped DEF Types, TypeOK
  <2> QED
    BY <1>12, <2>2, <2>3 DEF Types, TypeOK, ChildPrints, engineVars, runVars, adapter
<1>13. CASE ChildStarts \/ ChildRaises \/ ChildHangs
  BY <1>13 DEF Types, TypeOK, ChildStarts, ChildRaises, ChildHangs, engineVars, runVars, adapter
<1>14. CASE UNCHANGED vars
  BY <1>14 DEF Types, TypeOK, vars, runVars, adapter, pipes
<1> QED
  BY <1>1, <1>2, <1>3, <1>4, <1>5, <1>6, <1>7, <1>8, <1>9, <1>10, <1>11, <1>12, <1>13, <1>14
  DEF Next, EngineNext, ReaderNext, ChildNext, Elsewhere

-----------------------------------------------------------------------------
\* Lines and requests.

\* A line that the child may write at this moment.
Given(l) ==
  /\ l.seq = child.has.seq /\ l.for = l.seq /\ (l.asks => l.msg = "intents")
  /\ \/ child.at = "starting" /\ l.msg = "noise"
     \/ child.at = "busy"
     \/ child.at = "loop" /\ child.has.msg \in {"event", "finish"}

LEMMA WrittenLine ==
  ASSUME Types, NEW l, NEW t, fromChild' = Append(fromChild, t), t \in Lines,
         lines' = lines, l \in Out'
  PROVE  l \in Out \/ l = t
<1>1. fromChild \in Seq(Lines)
  BY DEF Types, TypeOK
<1>2. Ran(fromChild') = Ran(fromChild) \cup {t}
  BY <1>1, RanAppend
<1> QED
  BY <1>2 DEF Out, Ran

LEMMA LinesStep ==
  ASSUME Types, [Next]_vars
  PROVE  \A l \in Out' : l \in Out \/ Given(l)
<1> USE DEF Out
<1>1. CASE Receive
  <2>1. lines \in Seq(Lines) /\ lines # <<>> /\ lines' = Tail(lines) /\ fromChild' = fromChild
    BY <1>1 DEF Types, TypeOK, Receive
  <2>2. Ran(Tail(lines)) \subseteq Ran(lines)
    BY <2>1, RanTail
  <2>3. Ran(lines)' = Ran(Tail(lines)) /\ Ran(fromChild)' = Ran(fromChild)
    BY <2>1 DEF Ran
  <2> QED
    BY <2>2, <2>3
<1>2. CASE Forward
  <2>1. /\ fromChild \in Seq(Lines) /\ fromChild # <<>> /\ lines \in Seq(Lines)
        /\ fromChild' = Tail(fromChild) /\ lines' = Append(lines, Head(fromChild))
    BY <1>2 DEF Types, TypeOK, Forward
  <2>2. Head(fromChild) \in Lines /\ Ran(fromChild) = {Head(fromChild)} \cup Ran(Tail(fromChild))
    BY <2>1, RanTail
  <2>3. Ran(Append(lines, Head(fromChild))) = Ran(lines) \cup {Head(fromChild)}
    BY <2>1, <2>2, RanAppend
  <2>4. Ran(lines)' = Ran(Append(lines, Head(fromChild))) /\ Ran(fromChild)' = Ran(Tail(fromChild))
    BY <2>1 DEF Ran
  <2> QED
    BY <2>2, <2>3, <2>4
<1>3. CASE ChildAnswers \/ ChildPrints
  <2> SUFFICES ASSUME NEW l \in Out', l \notin Out PROVE Given(l)
    OBVIOUS
  <2>1. PICK t \in Lines : fromChild' = Append(fromChild, t) /\ Given(t)
    <3>1. CASE ChildAnswers
      <4>1. child.at = "busy"
        BY <3>1 DEF ChildAnswers
      <4>2. CASE child.has.msg = "none"
        <5>1. PICK b \in BOOLEAN : fromChild' = Append(fromChild, Line("ready", TRUE, FALSE, b))
          BY <3>1, <4>2, ChoicesAssumption DEF ChildAnswers
        <5>2. Given(Line("ready", TRUE, FALSE, b))
          BY <4>1 DEF Given, Line
        <5> QED
          BY <5>1, <5>2, LineTyped
      <4>3. CASE child.has.msg # "none"
        <5>1. PICK ok, asks \in BOOLEAN :
                 fromChild' = Append(fromChild, Line("intents", ok, asks, FALSE))
          BY <3>1, <4>3 DEF ChildAnswers
        <5>2. Given(Line("intents", ok, asks, FALSE))
          BY <4>1 DEF Given, Line
        <5> QED
          BY <5>1, <5>2, LineTyped
      <4> QED
        BY <4>2, <4>3
    <3>2. CASE ChildPrints
      <4>1. CASE UserCode /\ fromChild' = Append(fromChild, Line("noise", TRUE, FALSE, FALSE))
        <5>1. Given(Line("noise", TRUE, FALSE, FALSE))
          BY <4>1 DEF Given, Line, UserCode
        <5> QED
          BY <4>1, <5>1, LineTyped
      <4>2. CASE /\ child.at = "loop" /\ child.has.msg \in {"event", "finish"}
                 /\ fromChild' = Append(fromChild, Line("intents", TRUE, FALSE, FALSE))
        <5>1. Given(Line("intents", TRUE, FALSE, FALSE))
          BY <4>2 DEF Given, Line
        <5> QED
          BY <4>2, <5>1, LineTyped
      <4> QED
        BY <3>2, <4>1, <4>2 DEF ChildPrints
    <3> QED
      BY <1>3, <3>1, <3>2
  <2>2. lines' = lines
    BY <1>3 DEF ChildAnswers, ChildPrints, engineVars
  <2>3. l = t
    BY <2>1, <2>2, WrittenLine
  <2> QED
    BY <2>1, <2>3
<1>4. ASSUME UNCHANGED <<fromChild, lines>>
      PROVE  \A l \in Out' : l \in Out
  BY <1>4 DEF Ran
<1>5. CASE SendInit \/ OnEvent \/ OnFinish \/ Drain \/ Fill \/ Abort \/ TakeError \/ Shutdown \/ Wait
  BY <1>4, <1>5
  DEF SendInit, OnEvent, OnFinish, Drain, Fill, Abort, TakeError, Shutdown, Wait, pipes
<1>6. CASE Written \/ Check \/ Timeout \/ Disconnected \/ EndOfFile
  BY <1>4, <1>6 DEF Written, Check, Timeout, Disconnected, EndOfFile, pipes
<1>7. CASE ChildStarts \/ ChildReads \/ ChildRaises \/ ChildHangs \/ UNCHANGED vars
  BY <1>4, <1>7 DEF ChildStarts, ChildReads, ChildRaises, ChildHangs, engineVars, vars, pipes
<1> QED
  BY <1>1, <1>2, <1>3, <1>5, <1>6, <1>7 DEF Next, EngineNext, ReaderNext, ChildNext, Elsewhere

\* What a step does to the request in hand and to the child's.
LEMMA RequestStep ==
  ASSUME Types, [Next]_vars
  PROVE  /\ seq' >= seq
         /\ \A m \in Ran(toChild)' : m \in Ran(toChild) \/ m.seq <= seq'
         /\ child'.has = child.has \/ child'.has \in Ran(toChild)
<1> USE DEF Types, TypeOK
<1>1. CASE SendInit
  <2>1. toChild' = toChild \/ toChild' = Append(toChild, NoRequest)
    BY <1>1 DEF SendInit, Write
  <2>2. Ran(Append(toChild, NoRequest)) = Ran(toChild) \cup {NoRequest}
    BY NoRequestTyped, RanAppend
  <2>3. NoRequest.seq = 0 /\ seq' = seq /\ child' = child
    BY <1>1 DEF NoRequest, SendInit, adapter
  <2>4. Ran(toChild)' = Ran(toChild) \/ Ran(toChild)' = Ran(Append(toChild, NoRequest))
    BY <2>1 DEF Ran
  <2> QED
    BY <2>2, <2>3, <2>4
<1>2. CASE OnEvent \/ OnFinish
  <2>1. child' = child /\ (seq' = seq \/ seq' = seq + 1)
    BY <1>2 DEF OnEvent, OnFinish
  <2>2. \/ toChild' = toChild
        \/ \E msg \in {"event", "finish"} : toChild' = Append(toChild, Request(msg, seq'))
    BY <1>2 DEF OnEvent, OnFinish, Write
  <2>3. ASSUME NEW msg \in {"event", "finish"}
        PROVE  /\ Request(msg, seq').seq = seq'
               /\ Ran(Append(toChild, Request(msg, seq'))) = Ran(toChild) \cup {Request(msg, seq')}
    <3>1. Request(msg, seq') \in Requests
      BY <2>1 DEF Request, Requests
    <3> QED
      BY <3>1, RanAppend DEF Request
  <2>4. \/ Ran(toChild)' = Ran(toChild)
        \/ \E msg \in {"event", "finish"} :
             Ran(toChild)' = Ran(Append(toChild, Request(msg, seq')))
    BY <2>2 DEF Ran
  <2> QED
    BY <2>1, <2>3, <2>4
<1>3. CASE Shutdown
  <2> DEFINE bye == [NoRequest EXCEPT !.msg = "shutdown"]
  <2>1. toChild' = toChild \/ toChild' = Append(toChild, bye)
    BY <1>3 DEF Shutdown
  <2>2. Ran(Append(toChild, bye)) = Ran(toChild) \cup {bye}
    BY NoRequestTyped, RanAppend
  <2>3. bye.seq = 0 /\ seq' = seq /\ child' = child
    BY <1>3 DEF NoRequest, Shutdown, adapter
  <2> HIDE DEF bye
  <2>4. Ran(toChild)' = Ran(toChild) \/ Ran(toChild)' = Ran(Append(toChild, bye))
    BY <2>1 DEF Ran
  <2> QED
    BY <2>2, <2>3, <2>4
<1>4. CASE ChildReads
  <2>1. toChild \in Seq(Requests) /\ toChild # <<>> /\ toChild' = Tail(toChild)
    BY <1>4 DEF ChildReads
  <2>2. child'.has = Head(toChild) /\ seq' = seq
    BY <1>4 DEF ChildReads, engineVars, adapter
  <2> QED
    BY <2>1, <2>2, RanTail DEF Ran
<1>5. ASSUME seq' = seq, toChild' = toChild, child'.has = child.has
      PROVE  /\ seq' >= seq
             /\ \A m \in Ran(toChild)' : m \in Ran(toChild) \/ m.seq <= seq'
             /\ child'.has = child.has \/ child'.has \in Ran(toChild)
  BY <1>5 DEF Ran
<1>6. CASE Written \/ Check \/ Receive \/ Disconnected \/ EndOfFile \/ Forward
  BY <1>5, <1>6 DEF Written, Check, Receive, Disconnected, EndOfFile, Forward, pipes, adapter
<1>7. CASE Drain \/ Fill \/ Abort \/ TakeError \/ Wait
  BY <1>5, <1>7 DEF Drain, Fill, Abort, TakeError, Wait, pipes, adapter
<1>8. CASE Timeout \/ ChildStarts \/ ChildAnswers \/ ChildPrints \/ ChildRaises \/ ChildHangs \/ UNCHANGED vars
  <2>1. child'.has = child.has
    BY <1>8 DEF Timeout, ChildStarts, ChildAnswers, ChildPrints, ChildRaises, ChildHangs, vars
  <2> QED
    BY <1>5, <1>8, <2>1
    DEF Timeout, ChildStarts, ChildAnswers, ChildPrints, ChildRaises, ChildHangs, vars, pipes,
        adapter,
        engineVars
<1> QED
  BY <1>1, <1>2, <1>3, <1>4, <1>6, <1>7, <1>8
  DEF Next, EngineNext, ReaderNext, ChildNext, Elsewhere

LEMMA NumberedStep == Types /\ Numbered /\ [Next]_vars => Numbered'
<1> SUFFICES ASSUME Types, Numbered, [Next]_vars PROVE Numbered'
  OBVIOUS
<1>1. seq \in Nat /\ seq' \in Nat /\ child.has.seq \in Nat
  BY TypesStep DEF Types, TypeOK, Requests
<1>2. \A l \in Out : l.seq \in Nat
  <2>1. \A l \in Out : l \in Lines
    BY DEF Types, TypeOK, Out, Ran
  <2> QED
    BY <2>1 DEF Lines
<1>3. \A m \in Ran(toChild) : m.seq \in Nat
  <2>1. \A m \in Ran(toChild) : m \in Requests
    BY DEF Types, TypeOK, Ran
  <2> QED
    BY <2>1 DEF Requests
<1>4. \A l \in Out' : l.seq = l.for /\ l.seq <= seq' /\ (l.asks => l.msg = "intents")
  BY <1>1, <1>2, LinesStep, RequestStep DEF Numbered, Given
<1>5. \A m \in Ran(toChild)' : m.seq <= seq'
  BY <1>1, <1>3, RequestStep DEF Numbered
<1>6. child'.has.seq <= seq'
  BY <1>1, <1>3, RequestStep DEF Numbered
<1> QED
  BY <1>4, <1>5, <1>6 DEF Numbered

-----------------------------------------------------------------------------
\* What has been told.

LEMMA PendingStep ==
  ASSUME Types, Pending, Handshake, Ready, [Next]_vars
  PROVE  Pending'
<1> USE DEF Types, TypeOK
<1>1. CASE SendInit
  <2>1. toChild = <<>> /\ ghost.heard = 0 /\ ghost' = ghost /\ NoRequest.from = 0
    BY <1>1 DEF SendInit, Handshake, NoRequest
  <2>2. toChild' = <<>> \/ toChild' = <<NoRequest>>
    BY <1>1, <2>1 DEF SendInit, Write
  <2> QED
    BY <2>1, <2>2 DEF Pending
<1>2. CASE OnEvent \/ OnFinish
  <2>1. ghost' = ghost /\ pc = "running"
    BY <1>2 DEF OnEvent, OnFinish
  <2>2. CASE toChild' = toChild
    BY <2>1, <2>2 DEF Pending
  <2>3. CASE toChild' # toChild
    <3>1. ~error /\ \E msg \in {"event", "finish"} : toChild' = Append(toChild, Request(msg, seq'))
      BY <1>2, <2>3 DEF OnEvent, OnFinish, Write
    <3>2. toChild = <<>> /\ ghost.heard = fillsSeen
      BY <2>1, <3>1 DEF Ready
    <3>3. PICK r : toChild' = <<r>> /\ r.from = fillsSeen
      BY <3>1, <3>2 DEF Request
    <3> QED
      BY <2>1, <3>2, <3>3 DEF Pending
  <2> QED
    BY <2>2, <2>3
<1>3. CASE Shutdown
  <2> DEFINE bye == [NoRequest EXCEPT !.msg = "shutdown"]
  <2>1. ghost' = ghost /\ bye.msg = "shutdown" /\ bye \in Requests
    BY <1>3, NoRequestTyped DEF Shutdown, NoRequest
  <2>2. toChild' = toChild \/ toChild' = Append(toChild, bye)
    BY <1>3 DEF Shutdown
  <2> HIDE DEF bye
  <2>3. CASE toChild' = toChild
    BY <2>1, <2>3 DEF Pending
  <2>4. CASE toChild' = Append(toChild, bye)
    <3>1. ASSUME NEW i \in 1..Len(toChild')
          PROVE  toChild'[i].msg = "shutdown" \/ (i \in 1..Len(toChild) /\ toChild'[i] = toChild[i])
      BY <2>1, <2>4, <3>1
    <3> QED
      BY <2>1, <3>1 DEF Pending
  <2> QED
    BY <2>2, <2>3, <2>4
<1>4. CASE ChildReads
  <2>1. toChild \in Seq(Requests) /\ toChild # <<>> /\ toChild' = Tail(toChild)
    BY <1>4 DEF ChildReads
  <2>2. \A i \in 1..Len(toChild') : i + 1 \in 1..Len(toChild) /\ toChild'[i] = toChild[i + 1]
    BY <2>1, RanTail
  <2>3. \A i \in 1..Len(toChild') : i + 1 # 1
    BY <2>1
  <2> QED
    BY <2>2, <2>3 DEF Pending
<1>5. ASSUME toChild' = toChild, ghost'.heard = ghost.heard
      PROVE  Pending'
  BY <1>5 DEF Pending
<1>6. CASE Written \/ Check \/ Timeout \/ Disconnected \/ EndOfFile \/ Forward
  BY <1>5, <1>6 DEF Written, Check, Timeout, Disconnected, EndOfFile, Forward, pipes
<1>7. CASE Drain \/ Fill \/ Abort \/ TakeError \/ Wait
  BY <1>5, <1>7 DEF Drain, Fill, Abort, TakeError, Wait, pipes
<1>8. CASE Receive
  <2>1. ghost'.heard = ghost.heard
    BY <1>8 DEF Receive, Histories
  <2> QED
    BY <1>5, <1>8, <2>1 DEF Receive
<1>9. CASE ChildStarts \/ ChildAnswers \/ ChildPrints \/ ChildRaises \/ ChildHangs \/ UNCHANGED vars
  <2>1. ghost'.heard = ghost.heard
    BY <1>9 DEF ChildStarts, ChildAnswers, ChildPrints, ChildRaises, ChildHangs, vars, Histories
  <2> QED
    BY <1>5, <1>9, <2>1 DEF ChildStarts, ChildAnswers, ChildPrints, ChildRaises, ChildHangs, vars,
                            pipes
<1> QED
  BY <1>1, <1>2, <1>3, <1>4, <1>6, <1>7, <1>8, <1>9
  DEF Next, EngineNext, ReaderNext, ChildNext, Elsewhere

\* What an acceptable answer proves: the child has read the request it answers.
LEMMA AnswerWasRead ==
  ASSUME Types, Waiting, Receive, Acceptable(Head(lines))
  PROVE  toChild = <<>> /\ ghost.heard = fillLog /\ ~error
<1>1. Asking /\ lines \in Seq(Lines) /\ lines # <<>>
  BY DEF Receive, Types, TypeOK, Asking
<1>2. Head(lines) \in Out /\ Head(lines) \in Lines
  BY <1>1, RanTail DEF Out
<1>3. ~Unread
  <2>1. CASE call = "init"
    BY <1>2, <2>1 DEF Acceptable, Unread, Silent
  <2>2. CASE call # "init"
    <3>1. Head(lines).seq = seq
      BY <2>2 DEF Acceptable
    <3> QED
      BY <1>2, <2>2, <3>1 DEF Unread, Types, TypeOK
  <2> QED
    BY <2>1, <2>2
<1> QED
  BY <1>1, <1>3 DEF Waiting

\* As long as the child has read nothing, it says nothing that answers.
LEMMA SilentStep ==
  ASSUME Types, Silent,
         \/ Forward \/ EndOfFile
         \/ ChildStarts \/ ChildAnswers \/ ChildPrints \/ ChildRaises \/ ChildHangs
  PROVE  Silent'
<1>1. child'.at # "busy" /\ child'.has.msg = "none"
  <2>1. child'.has = child.has /\ child'.at \in {child.at, "loop", "hung", "gone"}
    BY DEF Forward, EndOfFile, ChildStarts, ChildAnswers, ChildPrints, ChildRaises, ChildHangs,
           engineVars, Types, TypeOK
  <2> QED
    BY <2>1 DEF Silent
<1>2. [Next]_vars
  BY DEF Next, EngineNext, ReaderNext, ChildNext
<1>3. \A l \in Out' : l.msg = "noise"
  BY <1>2, LinesStep DEF Silent, Given
<1> QED
  BY <1>1, <1>3 DEF Silent

LEMMA HandshakeStep ==
  ASSUME Types, Handshake, [Next]_vars
  PROVE  Handshake'
<1> USE DEF Types, TypeOK
<1>1. CASE SendInit
  BY <1>1 DEF Handshake, SendInit, Write, Fail, Asking, runVars, adapter
<1>2. CASE OnEvent \/ OnFinish
  BY <1>2 DEF Handshake, OnEvent, OnFinish, Write, Fail
<1>3. CASE Written \/ Check \/ Timeout \/ Disconnected
  BY <1>3 DEF Handshake, Written, Check, Timeout, Disconnected, Fail, Asking, runVars, adapter
<1>4. CASE Receive
  <2>1. pc' \notin {"start", "write", "check", "recv"}
    BY <1>4 DEF Receive, Fail
  <2>2. call' = call /\ calls' = calls /\ seq' = seq
    BY <1>4 DEF Receive, runVars
  <2>3. call = "init" => fillsSeen' = fillsSeen /\ ghost' = ghost
    BY <1>4 DEF Receive, Accept
  <2> QED
    BY <2>1, <2>2, <2>3 DEF Handshake, Asking
<1>5. CASE Drain \/ Fill \/ Abort \/ TakeError \/ Shutdown \/ Wait
  BY <1>5 DEF Handshake, Drain, Fill, Abort, TakeError, Shutdown, Wait, Asking, runVars, adapter
<1>6. CASE Forward \/ EndOfFile
  <2>1. UNCHANGED <<pc, call, runVars, adapter, error, toChild, ghost>>
    BY <1>6 DEF Forward, EndOfFile, pipes
  <2>2. Silent => Silent'
    BY <1>6, SilentStep
  <2> QED
    BY <2>1, <2>2 DEF Handshake, Asking, runVars, adapter
<1>7. CASE ChildNext
  <2>1. ASSUME pc = "start"
        PROVE  toChild' = <<>> /\ Silent' /\ ghost'.heard = 0
    <3>1. toChild = <<>> /\ Silent /\ ghost.heard = 0
      BY <2>1 DEF Handshake
    <3>2. ChildStarts \/ ChildPrints \/ ChildRaises \/ ChildHangs
      BY <1>7, <3>1 DEF ChildNext, ChildStarts, ChildReads, ChildAnswers, Silent
    <3>3. toChild' = toChild /\ ghost'.heard = ghost.heard
      BY <3>2 DEF ChildStarts, ChildPrints, ChildRaises, ChildHangs, Histories
    <3> QED
      BY <3>1, <3>2, <3>3, SilentStep
  <2>2. ghost'.answered = ghost.answered
    BY <1>7
    DEF ChildNext, ChildStarts, ChildReads, ChildAnswers, ChildPrints, ChildRaises, ChildHangs,
        Histories
  <2>3. UNCHANGED engineVars
    BY <1>7 DEF ChildNext, ChildStarts, ChildReads, ChildAnswers, ChildPrints, ChildRaises,
                ChildHangs
  <2> QED
    BY <2>1, <2>2, <2>3 DEF Handshake, Asking, engineVars, runVars, adapter
<1>8. CASE UNCHANGED vars
  BY <1>8 DEF Handshake, Asking, Silent, Out, Ran, vars, runVars, adapter, pipes
<1> QED
  BY <1>1, <1>2, <1>3, <1>4, <1>5, <1>6, <1>7, <1>8 DEF Next, EngineNext, ReaderNext, Elsewhere

\* As long as the child has not read the request, no line answers it.
LEMMA UnreadStep ==
  ASSUME Types, Unread,
         \/ Written \/ Check \/ Forward \/ EndOfFile
         \/ ChildStarts \/ ChildAnswers \/ ChildPrints \/ ChildRaises \/ ChildHangs
  PROVE  Unread'
<1>1. /\ UNCHANGED <<call, seq, fillLog, toChild>> /\ child'.has = child.has
      /\ Written \/ Check \/ EndOfFile => UNCHANGED <<fromChild, lines, child>>
  BY DEF Written, Check, Forward, EndOfFile, ChildStarts, ChildAnswers, ChildPrints, ChildRaises,
         ChildHangs,
         engineVars, runVars, adapter, pipes, Types, TypeOK
<1>2. CASE call = "init"
  <2>1. CASE Written \/ Check
    BY <1>1, <1>2, <2>1 DEF Unread, Silent, Out, Ran
  <2>2. CASE ~(Written \/ Check)
    BY <1>1, <1>2, <2>2, SilentStep DEF Unread
  <2> QED
    BY <2>1, <2>2
<1>3. CASE call # "init"
  <2>1. [Next]_vars
    BY DEF Next, EngineNext, ReaderNext, ChildNext
  <2>2. \A l \in Out' : l.seq < seq
    BY <1>3, <2>1, LinesStep DEF Unread, Given
  <2> QED
    BY <1>1, <1>3, <2>2 DEF Unread
<1> QED
  BY <1>2, <1>3

LEMMA WaitingStep ==
  ASSUME Types, Numbered, Handshake, Waiting, Ready, [Next]_vars
  PROVE  Waiting'
<1> USE DEF Types, TypeOK
<1>1. CASE SendInit
  <2> SUFFICES ASSUME Asking' PROVE Waiting'
    BY DEF Waiting
  <2>1. call = "init" /\ ~error /\ fillLog = 0 /\ toChild = <<>> /\ Silent
    BY <1>1 DEF SendInit, Handshake
  <2>2. toChild' = <<NoRequest>> /\ error' = error
    BY <1>1, <2>1 DEF SendInit, Write, Fail, Asking
  <2>3. UNCHANGED <<call, fillLog, child, fromChild, lines>>
    BY <1>1 DEF SendInit, runVars
  <2> QED
    <3>1. Silent'
      BY <2>1, <2>3 DEF Silent, Out, Ran
    <3> QED
      BY <2>1, <2>2, <2>3, <3>1 DEF Waiting, Unread, NoRequest
<1>2. CASE OnEvent \/ OnFinish
  <2> SUFFICES ASSUME Asking' PROVE Waiting'
    BY DEF Waiting
  <2>1. /\ pc = "running" /\ ~error /\ ~error' /\ calls' = calls + 1 /\ seq' = seq + 1
        /\ call' # "init"
        /\ \E msg \in {"event", "finish"} : toChild' = Append(toChild, Request(msg, seq'))
    BY <1>2 DEF OnEvent, OnFinish, Write, Fail, Asking
  <2>2. toChild = <<>> /\ ghost.answered = calls
    BY <2>1 DEF Ready
  <2>3. PICK r : toChild' = <<r>> /\ r.msg # "shutdown" /\ r.upto = fillLog
    BY <2>1, <2>2 DEF Request
  <2>4. UNCHANGED <<fillLog, child, fromChild, lines, ghost>>
    BY <1>2 DEF OnEvent, OnFinish
  <2>5. child'.has.seq < seq' /\ \A l \in Out' : l.seq < seq'
    <3>1. \A l \in Out : l \in Lines
      BY DEF Out, Ran
    <3>2. \A l \in Out : l.seq \in Nat
      BY <3>1 DEF Lines
    <3>3. child.has.seq \in Nat /\ seq \in Nat
      BY DEF Requests
    <3>4. \A l \in Out' : l \in Out
      BY <2>4 DEF Out, Ran
    <3>5. child.has.seq <= seq /\ \A l \in Out : l.seq <= seq
      BY DEF Numbered
    <3>6. seq' = seq + 1 /\ child' = child
      BY <2>1, <2>4
    <3> QED
      BY <3>2, <3>3, <3>4, <3>5, <3>6
  <2> QED
    BY <2>1, <2>2, <2>3, <2>4, <2>5 DEF Waiting, Unread
<1>3. CASE Written \/ Check
  <2> SUFFICES ASSUME Asking' PROVE Waiting'
    BY DEF Waiting
  <2>1. /\ Asking /\ error' = error
        /\ UNCHANGED <<call, calls, fillLog, toChild, ghost>>
    BY <1>3 DEF Written, Check, Fail, Asking, runVars, pipes
  <2> QED
    BY <1>3, <2>1, UnreadStep DEF Waiting
<1>4. CASE Receive \/ Timeout \/ Disconnected \/ Drain \/ Fill \/ Abort \/ TakeError \/ Shutdown \/ Wait
  <2>1. ~Asking'
    BY <1>4 DEF Receive, Timeout, Disconnected, Drain, Fill, Abort, TakeError, Shutdown, Wait,
                Fail, Asking
  <2> QED
    BY <2>1 DEF Waiting
<1>5. CASE Forward \/ EndOfFile \/ ChildStarts \/ ChildAnswers \/ ChildPrints \/ ChildRaises \/ ChildHangs
  <2>1. /\ UNCHANGED <<pc, error, call, calls, fillLog, toChild>>
        /\ ghost'.answered = ghost.answered /\ ghost'.heard = ghost.heard
    BY <1>5 DEF Forward, EndOfFile, ChildStarts, ChildAnswers, ChildPrints, ChildRaises,
                ChildHangs, engineVars,
                runVars, pipes, Histories
  <2> QED
    BY <1>5, <2>1, UnreadStep DEF Waiting, Asking
<1>6. CASE ChildReads
  <2> SUFFICES ASSUME Asking PROVE Waiting'
    BY <1>6 DEF Waiting, Asking, ChildReads, engineVars
  <2>1. Unread /\ toChild \in Seq(Requests) /\ toChild # <<>> /\ toChild' = Tail(toChild)
    BY <1>6 DEF Waiting, ChildReads
  <2>2. Len(toChild) = 1 /\ toChild[1].msg # "shutdown" /\ toChild[1].upto = fillLog
    BY <2>1 DEF Unread
  <2>3. toChild' = <<>> /\ Head(toChild) = toChild[1]
    BY <2>1, <2>2
  <2>4. ghost'.heard = fillLog /\ ghost'.answered = ghost.answered
    BY <1>6, <2>2, <2>3 DEF ChildReads, Histories
  <2>5. UNCHANGED <<error, call, calls, fillLog>>
    BY <1>6 DEF ChildReads, engineVars, runVars
  <2> QED
    BY <2>3, <2>4, <2>5 DEF Waiting
<1>7. CASE UNCHANGED vars
  BY <1>7 DEF Waiting, Asking, Unread, Silent, Out, Ran, vars, runVars, adapter, pipes
<1> QED
  BY <1>1, <1>2, <1>3, <1>4, <1>5, <1>6, <1>7
  DEF Next, EngineNext, ReaderNext, ChildNext, Elsewhere

LEMMA ReadyStep ==
  ASSUME Types, Handshake, Waiting, Ready, [Next]_vars
  PROVE  Ready'
<1> USE DEF Types, TypeOK
<1> SUFFICES ASSUME pc' \in {"running", "drain", "report"}, ~error'
             PROVE  toChild' = <<>> /\ ghost'.heard = fillsSeen' /\ ghost'.answered = calls'
  BY DEF Ready
<1>1. CASE SendInit \/ Written \/ Check \/ Timeout \/ Disconnected
  BY <1>1 DEF SendInit, Written, Check, Timeout, Disconnected, Write, Fail
<1>2. CASE OnEvent \/ OnFinish
  BY <1>2 DEF OnEvent, OnFinish, Write, Fail, Ready, adapter
<1>3. CASE Receive
  <2>1. Acceptable(Head(lines)) /\ Head(lines).ok
    BY <1>3 DEF Receive, Fail
  <2>2. toChild = <<>> /\ ghost.heard = fillLog /\ ~error
    BY <1>3, <2>1, AnswerWasRead
  <2>3. UNCHANGED <<toChild, calls, call, fillLog>> /\ Asking
    BY <1>3 DEF Receive, runVars, Asking
  <2>4. CASE call = "init"
    <3>1. ghost' = ghost /\ fillsSeen' = fillsSeen
      BY <1>3, <2>1, <2>4 DEF Receive, Accept
    <3> QED
      BY <2>2, <2>3, <2>4, <3>1 DEF Handshake
  <2>5. CASE call # "init"
    <3>1. ghost'.heard = ghost.heard /\ ghost'.answered = ghost.answered + 1
      BY <1>3, <2>1, <2>5 DEF Receive, Histories
    <3>2. fillsSeen' = fillLog
      BY <1>3, <2>1, <2>5 DEF Receive, Accept
    <3> QED
      BY <2>2, <2>3, <2>5, <3>1, <3>2 DEF Waiting
  <2> QED
    BY <2>4, <2>5
<1>4. CASE Drain \/ Fill \/ Abort \/ TakeError \/ Shutdown \/ Wait
  BY <1>4 DEF Ready, Drain, Fill, Abort, TakeError, Shutdown, Wait, runVars, adapter, pipes
<1>5. CASE ReaderNext
  BY <1>5 DEF Ready, ReaderNext, Forward, EndOfFile, runVars, adapter, pipes
<1>6. CASE ChildNext
  <2>1. UNCHANGED <<pc, error, calls, fillsSeen>>
    BY <1>6 DEF ChildNext, ChildStarts, ChildReads, ChildAnswers, ChildPrints, ChildRaises,
                ChildHangs,
                engineVars, runVars, adapter
  <2>2. toChild = <<>>
    BY <2>1 DEF Ready
  <2>3. toChild' = toChild /\ ghost'.heard = ghost.heard /\ ghost'.answered = ghost.answered
    BY <1>6, <2>2 DEF ChildNext, ChildStarts, ChildReads, ChildAnswers, ChildPrints, ChildRaises,
                      ChildHangs,
                      Histories
  <2> QED
    BY <2>1, <2>3 DEF Ready
<1>7. CASE UNCHANGED vars
  BY <1>7 DEF Ready, vars, runVars, adapter, pipes
<1> QED
  BY <1>1, <1>2, <1>3, <1>4, <1>5, <1>6, <1>7 DEF Next, EngineNext, Elsewhere

-----------------------------------------------------------------------------
\* The properties, step by step.

LEMMA ReportStep ==
  ASSUME Types, Ready, Ending, ReportMeansAnswered, [Next]_vars
  PROVE  Ending' /\ ReportMeansAnswered'
<1> USE DEF Types, TypeOK, Ending, ReportMeansAnswered
<1> SUFFICES ASSUME result' = "report"
             PROVE  pc' \in {"closing", "wait", "returned"} /\ ghost'.answered = calls'
  OBVIOUS
<1>1. CASE TakeError
  BY <1>1 DEF TakeError, Ready, runVars
<1>2. CASE SendInit \/ OnEvent \/ OnFinish \/ Written \/ Check \/ Receive \/ Timeout \/ Disconnected
  <2>1. result # "report"
    BY <1>2 DEF SendInit, OnEvent, OnFinish, Written, Check, Receive, Timeout, Disconnected
  <2> QED
    BY <1>2, <2>1
    DEF SendInit, OnEvent, OnFinish, Written, Check, Receive, Timeout, Disconnected, Write, Fail
<1>3. CASE Drain \/ Fill \/ Abort \/ Shutdown \/ Wait
  BY <1>3 DEF Drain, Fill, Abort, Shutdown, Wait, runVars
<1>4. CASE ReaderNext
  BY <1>4 DEF ReaderNext, Forward, EndOfFile, runVars
<1>5. CASE ChildNext
  <2>1. UNCHANGED <<pc, result, calls>>
    BY <1>5 DEF ChildNext, ChildStarts, ChildReads, ChildAnswers, ChildPrints, ChildRaises,
                ChildHangs,
                engineVars, runVars
  <2>2. ghost'.answered = ghost.answered
    BY <1>5 DEF ChildNext, ChildStarts, ChildReads, ChildAnswers, ChildPrints, ChildRaises,
                ChildHangs, Histories
  <2> QED
    BY <2>1, <2>2
<1>6. CASE UNCHANGED vars
  BY <1>6 DEF vars, runVars
<1> QED
  BY <1>1, <1>2, <1>3, <1>4, <1>5, <1>6 DEF Next, EngineNext, Elsewhere

LEMMA AnswersStep ==
  ASSUME Types, Numbered, AnswersBelongToTheirRequest, [Next]_vars
  PROVE  AnswersBelongToTheirRequest'
<1> USE DEF Types, TypeOK, AnswersBelongToTheirRequest
<1>1. CASE Receive
  <2>1. lines \in Seq(Lines) /\ lines # <<>>
    BY <1>1 DEF Receive
  <2>2. Head(lines).seq = Head(lines).for
    BY <2>1, RanTail DEF Numbered, Out
  <2>3. CASE ghost' = ghost
    BY <2>3
  <2>4. CASE ghost' # ghost
    <3>1. /\ Head(lines).seq = seq
          /\ ghost' = [ghost EXCEPT !.answered = @ + 1,
                                    !.intents = @ \cup {<<seq, Head(lines).for>>}]
      BY <1>1, <2>4 DEF Receive, Acceptable
    <3>2. ghost'.intents = ghost.intents \cup {<<seq, Head(lines).for>>}
      BY <3>1 DEF Histories
    <3> QED
      BY <2>2, <3>1, <3>2
  <2> QED
    BY <2>3, <2>4
<1>2. ASSUME ghost'.intents = ghost.intents
      PROVE  AnswersBelongToTheirRequest'
  BY <1>2
<1>3. CASE ChildNext
  BY <1>2, <1>3
  DEF ChildNext, ChildStarts, ChildReads, ChildAnswers, ChildPrints, ChildRaises, ChildHangs,
      Histories
<1>4. CASE SendInit \/ OnEvent \/ OnFinish \/ Written \/ Check \/ Timeout \/ Disconnected
  BY <1>2, <1>4 DEF SendInit, OnEvent, OnFinish, Written, Check, Timeout, Disconnected
<1>5. CASE Drain \/ Fill \/ Abort \/ TakeError \/ Shutdown \/ Wait \/ ReaderNext \/ UNCHANGED vars
  BY <1>2, <1>5
  DEF Drain, Fill, Abort, TakeError, Shutdown, Wait, ReaderNext, Forward, EndOfFile, vars
<1> QED
  BY <1>1, <1>3, <1>4, <1>5 DEF Next, EngineNext, Elsewhere

LEMMA ToldStep ==
  ASSUME Types, Pending, LogIsToldOnce, [Next]_vars
  PROVE  LogIsToldOnce'
<1> USE DEF Types, TypeOK, LogIsToldOnce
<1>1. CASE ChildReads
  <2> DEFINE m == Head(toChild)
  <2>1. toChild \in Seq(Requests) /\ toChild # <<>> /\ m = toChild[1] /\ 1 \in 1..Len(toChild)
    BY <1>1 DEF ChildReads
  <2>2. m.msg = "shutdown" \/ m.from = ghost.heard
    BY <2>1 DEF Pending
  <2>3. CASE m.msg = "shutdown"
    BY <1>1, <2>3 DEF ChildReads
  <2>4. CASE m.msg # "shutdown"
    <3>1. ghost' = [ghost EXCEPT !.gap = @ \/ m.from # ghost.heard, !.heard = m.upto]
      BY <1>1, <2>4 DEF ChildReads
    <3>2. (ghost.gap \/ m.from # ghost.heard) = FALSE
      BY <2>2, <2>4
    <3> HIDE DEF m
    <3> QED
      BY <3>1, <3>2 DEF Histories
  <2> QED
    BY <2>3, <2>4
<1>2. ASSUME ghost'.gap = ghost.gap
      PROVE  LogIsToldOnce'
  BY <1>2
<1>3. CASE Receive \/ ChildStarts \/ ChildAnswers \/ ChildPrints \/ ChildRaises \/ ChildHangs
  BY <1>2, <1>3 DEF Receive, ChildStarts, ChildAnswers, ChildPrints, ChildRaises, ChildHangs,
                    Histories
<1>4. CASE SendInit \/ OnEvent \/ OnFinish \/ Written \/ Check \/ Timeout \/ Disconnected
  BY <1>2, <1>4 DEF SendInit, OnEvent, OnFinish, Written, Check, Timeout, Disconnected
<1>5. CASE Drain \/ Fill \/ Abort \/ TakeError \/ Shutdown \/ Wait \/ ReaderNext \/ UNCHANGED vars
  BY <1>2, <1>5
  DEF Drain, Fill, Abort, TakeError, Shutdown, Wait, ReaderNext, Forward, EndOfFile, vars
<1> QED
  BY <1>1, <1>3, <1>4, <1>5 DEF Next, EngineNext, ChildNext, Elsewhere

LEMMA ControlsStep ==
  ASSUME Types, Numbered, ControlsRunInTheirCallback, [Next]_vars
  PROVE  ControlsRunInTheirCallback'
<1> USE DEF Types, TypeOK, ControlsRunInTheirCallback
<1>1. CASE SendInit \/ OnEvent \/ OnFinish \/ Written \/ Check \/ Timeout \/ Disconnected
  BY <1>1 DEF SendInit, OnEvent, OnFinish, Written, Check, Timeout, Disconnected
<1>2. CASE Receive
  <2>1. lines \in Seq(Lines) /\ lines # <<>> /\ controls = {} /\ seq' = seq
    BY <1>2 DEF Receive
  <2>2. Head(lines) \in Lines /\ (Head(lines).asks => Head(lines).msg = "intents")
    BY <2>1, RanTail DEF Numbered, Out
  <2>3. CASE ~Acceptable(Head(lines))
    BY <1>2, <2>1, <2>3 DEF Receive
  <2>4. CASE Acceptable(Head(lines)) /\ call = "init"
    <3>1. ~Head(lines).asks
      BY <2>2, <2>4 DEF Acceptable
    <3> QED
      BY <1>2, <2>1, <2>4, <3>1 DEF Receive, Accept
  <2>5. CASE Acceptable(Head(lines)) /\ call # "init"
    <3>1. pc' = "drain" /\ controls' \subseteq {seq}
      BY <1>2, <2>1, <2>5 DEF Receive, Accept, Acceptable, Fail
    <3> QED
      BY <2>1, <3>1
  <2> QED
    BY <2>3, <2>4, <2>5
<1>3. CASE Drain \/ Fill \/ Abort \/ TakeError \/ Shutdown \/ Wait
  BY <1>3 DEF Drain, Fill, Abort, TakeError, Shutdown, Wait, adapter
<1>4. CASE ReaderNext \/ ChildNext \/ UNCHANGED vars
  BY <1>4 DEF ReaderNext, Forward, EndOfFile, ChildNext, ChildStarts, ChildReads, ChildAnswers,
              ChildPrints,
              ChildRaises, ChildHangs, engineVars, vars, adapter
<1> QED
  BY <1>1, <1>2, <1>3, <1>4 DEF Next, EngineNext, Elsewhere

-----------------------------------------------------------------------------
LEMMA InitEstablishes == Init => ExtInv
<1> SUFFICES ASSUME Init PROVE ExtInv
  OBVIOUS
<1> USE DEF Init
<1>1. Types
  <2>1. ghost \in Histories
    BY DEF NoHistory, Histories
  <2>2. child \in [at : {"starting", "loop", "busy", "hung", "gone"}, has : Requests]
    BY NoRequestTyped
  <2>3. toChild \in Seq(Requests) /\ fromChild \in Seq(Lines) /\ lines \in Seq(Lines)
    OBVIOUS
  <2>4. {calls, seq, fillLog, fillsSeen} \subseteq Nat /\ controls \subseteq Nat
    OBVIOUS
  <2>5. finishes \in BOOLEAN /\ error \in BOOLEAN /\ reading \in BOOLEAN
    BY Zenon
  <2>6. /\ pc \in {"start", "write", "check", "recv", "running", "drain", "report", "closing",
                    "wait", "returned"}
        /\ call \in {"init", "event", "finish"} /\ result \in {"none", "report", "error"}
    OBVIOUS
  <2> QED
    BY <2>1, <2>2, <2>3, <2>4, <2>5, <2>6 DEF Types, TypeOK
<1>2. Numbered
  BY DEF Numbered, Out, Ran, NoRequest
<1>3. Pending /\ Handshake /\ Waiting /\ Ready /\ Ending
  BY DEF Pending, Handshake, Silent, Out, Ran, Waiting, Ready, Ending, Asking, NoRequest, NoHistory
<1>4. AnswersBelongToTheirRequest /\ LogIsToldOnce /\ ReportMeansAnswered
  BY DEF AnswersBelongToTheirRequest, LogIsToldOnce, ReportMeansAnswered, NoHistory
<1>5. ControlsRunInTheirCallback
  BY DEF ControlsRunInTheirCallback
<1> QED
  BY <1>1, <1>2, <1>3, <1>4, <1>5 DEF ExtInv

LEMMA StepPreserves == ExtInv /\ [Next]_vars => ExtInv'
BY TypesStep, NumberedStep, PendingStep, HandshakeStep, WaitingStep, ReadyStep, ReportStep,
   AnswersStep, ToldStep, ControlsStep
DEF ExtInv

\* external.rs with reader_loop and any child: what has been asked, read, answered
\* and told fits together at every moment, one request at a time.
THEOREM ExtInvHolds == Spec => []ExtInv
BY InitEstablishes, StepPreserves, PTL DEF Spec

\* request_orders: the intents of an accepted answer were computed for the event
\* they are taken for, however late, often or noisily the child writes.
THEOREM NoAnswerIsMistaken == Spec => []AnswersBelongToTheirRequest
BY ExtInvHolds, PTL DEF ExtInv

\* snapshot_from and fills_seen: whatever fails in between, the child receives the
\* log of fills in order, nothing twice and nothing left out.
THEOREM FillsAreToldOnce == Spec => []LogIsToldOnce
BY ExtInvHolds, PTL DEF ExtInv

\* run_external_backtest returns a report only if the child answered every
\* callback of the run.
THEOREM NoSilentFailure == Spec => []ReportMeansAnswered
BY ExtInvHolds, PTL DEF ExtInv

\* drain_controls: controls run in the callback that asked for them or not at all.
THEOREM ControlsAreTimely == Spec => []ControlsRunInTheirCallback
BY ExtInvHolds, PTL DEF ExtInv
=============================================================================
