------------------------ MODULE DatabentoCacheProofs ------------------------
(***************************************************************************)
(* For any requests, answers of the service and number of invocations:     *)
(* while invocations run one after the other, no published file is ever    *)
(* half-written, the raw data that a manifest and its checksum vouch for   *)
(* is complete and belongs to the request, and what is handed to the       *)
(* backtest is the request's own, wherever earlier invocations were cut    *)
(* off.                                                                    *)
(*                                                                         *)
(* The argument: what is renamed was filled before; a manifest binds what  *)
(* the same invocation has just published; an invocation makes its files   *)
(* in the order in which they depend on one another; and nobody else moves *)
(* the temporary file in between, which is where `Alone` is needed.        *)
(***************************************************************************)
EXTENDS DatabentoCache, TLAPS

Alone == \A p, q \in Procs : p = q

\* A manifest of complete raw data of its request.
Truthful(m) == m.raw.whole /\ m.raw.value.request = m.request

\* A temporary file is complete when it is about to be renamed.
FilledFirst ==
  \A p \in Procs :
    /\ proc[p].at = "fill" => proc[p].handle = "temp"
    /\ proc[p].at \in {"unlink", "rename"} => temps[proc[p].name] = File(proc[p].value, TRUE)

\* What an invocation has at hand belongs to its request.
OwnWork ==
  \A p \in Procs :
    /\ proc[p].at = "prepare" /\ proc[p].name = "raw_manifest" /\ files["raw"] # Nothing =>
         files["raw"].value.request = proc[p].cfg.request
    /\ proc[p].at \in {"open", "fill", "unlink", "rename"} =>
         /\ proc[p].name = "raw" => proc[p].value.request = proc[p].cfg.request
         /\ proc[p].name = "raw_manifest" => Truthful(proc[p].value)

ManifestsTruthful ==
  files["raw_manifest"] # Nothing => Truthful(files["raw_manifest"].value)

Published == PublishedIsWhole /\ FilledFirst /\ OwnWork /\ ManifestsTruthful

CacheInv == TypeOK /\ Published

-----------------------------------------------------------------------------
\* The steps that only one invocation sees.
LEMMA OneMoves ==
  ASSUME TypeOK, NEW p \in Procs, NEW i, Fits(i), proc' = [proc EXCEPT ![p] = i],
         AreFiles(files'), AreFiles(temps'), runs' \in Nat
  PROVE  TypeOK'
BY DEF TypeOK

\* Another invocation may lose its handle or have its file renamed.
LEMMA HandleMoves ==
  ASSUME NEW i, Fits(i), NEW h \in {"none", "temp", "final"}
  PROVE  Fits([i EXCEPT !.handle = h])
<1> DEFINE j == [i EXCEPT !.handle = h]
<1>1. j \in Invocations /\ j.at = i.at /\ j.cfg = i.cfg /\ j.name = i.name /\ j.value = i.value
      /\ j.factors = i.factors
  BY DEF Fits, Invocations
<1> QED
  BY <1>1 DEF Fits

LEMMA FileSet ==
  ASSUME NEW f, AreFiles(f), NEW n \in Names, NEW x \in FilesOf(Values(n)) \cup {Nothing}
  PROVE  AreFiles([f EXCEPT ![n] = x])
BY DEF AreFiles

LEMMA IdleFits == Fits(Idle)
BY DEF Fits, Idle, Invocations, Steps, Names, Writing

LEMMA InitTypes == Init => TypeOK
BY IdleFits DEF Init, TypeOK, AreFiles, Names

LEMMA BeginTypes ==
  ASSUME TypeOK, NEW p \in Procs, NEW c \in Configs, Begin(p, c)
  PROVE  TypeOK'
<1> DEFINE i == [Idle EXCEPT !.at = "validate", !.cfg = c]
<1>1. Fits(i)
  BY DEF Fits, Idle, Invocations, Steps, Names, Writing
<1> QED
  BY <1>1, OneMoves DEF Begin, TypeOK

\* An invocation that goes on to another step.
LEMMA GoesFits ==
  ASSUME TypeOK, NEW p \in Procs, proc[p].at # "idle",
         NEW at \in {"validate", "prepare", "unlink", "serve"}, NEW name \in Names,
         at = "unlink" => proc[p].value \in Values(name),
         name = "factors" /\ at = "unlink" => proc[p].factors \in Answers,
         name = "adjusted" /\ at # "serve" => proc[p].factors \in Answers
  PROVE  Fits([proc[p] EXCEPT !.at = at, !.name = name, !.handle = "none"])
<1> DEFINE i == [proc[p] EXCEPT !.at = at, !.name = name, !.handle = "none"]
<1>1. Fits(proc[p])
  BY DEF TypeOK
<1>2. i \in Invocations /\ i.at = at /\ i.name = name /\ i.cfg = proc[p].cfg
      /\ i.value = proc[p].value /\ i.factors = proc[p].factors
  BY <1>1 DEF Fits, Invocations, Steps
<1> QED
  BY <1>1, <1>2 DEF Fits, Writing

\* An invocation that is done with a file.
LEMMA OnwardFits ==
  ASSUME NEW i, Fits(i), i.at # "idle", NEW name \in Names,
         name = "factors" => i.factors \in Answers
  PROVE  Fits(Onward(i, name))
<1> DEFINE next == After(i, name)
           at == IF next = "serve" THEN "serve" ELSE "prepare"
           to == IF next = "serve" THEN Served(i.cfg) ELSE next
           j == [i EXCEPT !.at = at, !.name = to]
<1>1. to \in Names /\ at \in {"serve", "prepare"} /\ (to = "adjusted" /\ at # "serve" => name = "factors")
  BY DEF After, Served, Names
<1>2. j \in Invocations /\ j.at = at /\ j.cfg = i.cfg /\ j.name = to /\ j.factors = i.factors
  BY <1>1 DEF Fits, Invocations, Steps
<1>3. i.cfg \in Configs
  BY DEF Fits
<1>4. Fits(j)
  <2> HIDE DEF j, at, to
  <2> QED
    BY <1>1, <1>2, <1>3 DEF Fits, Writing
<1> QED
  BY <1>4 DEF Onward

LEMMA ValidateTypes ==
  ASSUME TypeOK, NEW p \in Procs, Validate(p)
  PROVE  TypeOK'
<1> DEFINE to(at, name) == [proc[p] EXCEPT !.at = at, !.name = name, !.handle = "none"]
           defining(d) == [proc[p] EXCEPT !.defining = d]
           inspecting(d) == [defining(d) EXCEPT !.at = "inspect"]
<1>1. proc[p].at = "validate" /\ Fits(proc[p]) /\ proc[p] \in Invocations
  BY DEF Validate, TypeOK, Fits
<1>2. Fits(to("serve", "adjusted"))
  BY <1>1, GoesFits DEF Names
<1>3. ASSUME NEW d \in BOOLEAN
      PROVE  Fits(inspecting(d)) /\ Fits(Onward(defining(d), "raw_manifest"))
  <2>1. /\ defining(d) \in Invocations /\ defining(d).at = "validate"
        /\ defining(d).cfg = proc[p].cfg /\ defining(d).name = proc[p].name
        /\ defining(d).factors = proc[p].factors
    BY <1>1 DEF Invocations
  <2>2. /\ inspecting(d) \in Invocations /\ inspecting(d).at = "inspect"
        /\ inspecting(d).cfg = proc[p].cfg /\ inspecting(d).name = proc[p].name
        /\ inspecting(d).factors = proc[p].factors
    BY <1>1 DEF Invocations, Steps
  <2>3. Fits(defining(d)) /\ Fits(inspecting(d))
    BY <1>1, <2>1, <2>2 DEF Fits, Writing
  <2> QED
    BY <2>1, <2>3, OnwardFits DEF Names
<1>4. PICK i : Fits(i) /\ proc' = [proc EXCEPT ![p] = i]
  <2> DEFINE d == /\ proc[p].cfg.definitions
                  /\ proc[p].cfg.refresh \/ files["definitions"] = Nothing
  <2>1. d \in BOOLEAN
    OBVIOUS
  <2>2. \/ proc' = [proc EXCEPT ![p] = to("serve", "adjusted")]
        \/ proc' = [proc EXCEPT ![p] = inspecting(d)]
        \/ proc' = [proc EXCEPT ![p] = Onward(defining(d), "raw_manifest")]
    BY DEF Validate, Goes
  <2> HIDE DEF d, to, defining, inspecting
  <2> QED
    BY <1>2, <1>3, <2>1, <2>2
<1> QED
  BY <1>4, OneMoves DEF Validate, TypeOK

LEMMA InspectTypes ==
  ASSUME TypeOK, NEW p \in Procs, Inspect(p)
  PROVE  TypeOK'
<1> DEFINE i == [proc[p] EXCEPT !.at = "prepare", !.name = "raw"]
<1>1. Fits(proc[p]) /\ proc[p] \in Invocations /\ proc[p].cfg \in Configs
  BY DEF TypeOK, Fits, Inspect
<1>2. i \in Invocations /\ i.at = "prepare" /\ i.name = "raw" /\ i.cfg = proc[p].cfg
  BY <1>1 DEF Invocations, Steps, Names
<1>3. Fits(i)
  BY <1>1, <1>2 DEF Fits, Writing
<1>4. PICK j : Fits(j) /\ proc' = [proc EXCEPT ![p] = j]
  BY <1>3, IdleFits DEF Inspect
<1> QED
  BY <1>4, OneMoves DEF Inspect, TypeOK

\* An invocation that has made up what to write.
LEMMA MakesFits ==
  ASSUME TypeOK, NEW p \in Procs, proc[p].at = "prepare", proc[p].name # "factors",
         NEW v \in Values(proc[p].name)
  PROVE  Fits([proc[p] EXCEPT !.at = "open", !.value = v])
<1> DEFINE i == [proc[p] EXCEPT !.at = "open", !.value = v]
<1>1. Fits(proc[p]) /\ proc[p] \in Invocations
  BY DEF TypeOK, Fits
<1>2. v \in Answers \cup Manifests \cup Adjusted \cup Bindings \cup {Nothing}
  BY DEF Values
<1>3. i \in Invocations /\ i.at = "open" /\ i.name = proc[p].name /\ i.cfg = proc[p].cfg
      /\ i.value = v /\ i.factors = proc[p].factors
  BY <1>1, <1>2 DEF Invocations, Steps
<1> QED
  BY <1>1, <1>3 DEF Fits

LEMMA PrepareTypes ==
  ASSUME TypeOK, NEW p \in Procs,
         \/ FetchRaw(p) \/ RawManifest(p) \/ FetchDefinitions(p)
         \/ ReuseFactors(p) \/ FetchFactors(p) \/ Adjust(p) \/ AdjustedManifest(p)
  PROVE  TypeOK'
<1> DEFINE make(v) == [proc[p] EXCEPT !.at = "open", !.value = v]
<1>1. proc[p].at = "prepare" /\ Fits(proc[p]) /\ proc[p].cfg.request \in Requests
  BY ConfigsAssumption
     DEF TypeOK, Fits, FetchRaw, RawManifest, FetchDefinitions, ReuseFactors, FetchFactors, Adjust,
         AdjustedManifest, Preparing
<1>2. /\ files["raw"] # Nothing => files["raw"] \in FilesOf(Answers)
      /\ files["factors"] # Nothing => files["factors"] \in FilesOf(Answers)
      /\ files["adjusted"] # Nothing => files["adjusted"] \in FilesOf(Adjusted)
  BY DEF TypeOK, AreFiles, Names, Values
<1>3. UNCHANGED <<files, temps, runs>>
  BY DEF FetchRaw, RawManifest, FetchDefinitions, ReuseFactors, FetchFactors, Adjust,
         AdjustedManifest
<1>4. PICK i : Fits(i) /\ proc' = [proc EXCEPT ![p] = i]
  <2>1. CASE FetchRaw(p) \/ FetchDefinitions(p)
    <3>1. PICK v \in Versions : proc' = [proc EXCEPT ![p] = make(Answer(proc[p].cfg.request, v))]
      BY <2>1 DEF FetchRaw, FetchDefinitions, Makes
    <3>2. proc[p].name \in {"raw", "definitions"}
      BY <2>1 DEF FetchRaw, FetchDefinitions, Preparing
    <3>3. Answer(proc[p].cfg.request, v) \in Values(proc[p].name)
      BY <1>1, <3>2 DEF Answer, Answers, Values
    <3> QED
      BY <1>1, <3>1, <3>2, <3>3, MakesFits
  <2>2. CASE RawManifest(p)
    <3> DEFINE v == [request |-> proc[p].cfg.request, raw |-> files["raw"]]
    <3>1. v \in Values(proc[p].name)
      BY <1>1, <1>2, <2>2 DEF RawManifest, Preparing, Manifests, Values
    <3> QED
      BY <1>1, <2>2, <3>1, MakesFits DEF RawManifest, Preparing, Makes
  <2>3. CASE ReuseFactors(p)
    <3> DEFINE j == [proc[p] EXCEPT !.factors = files["factors"].value, !.name = "adjusted"]
    <3>1. files["factors"].value \in Answers
      BY <1>2, <2>3 DEF ReuseFactors, Readable, FilesOf
    <3>2. j \in Invocations /\ j.at = "prepare" /\ j.name = "adjusted" /\ j.cfg = proc[p].cfg
          /\ j.factors \in Answers
      BY <1>1, <3>1 DEF Fits, Invocations, Names
    <3>3. Fits(j)
      BY <1>1, <3>2 DEF Fits, Writing
    <3> QED
      BY <2>3, <3>3 DEF ReuseFactors
  <2>4. CASE FetchFactors(p)
    <3>1. PICK f \in Answers :
            proc' = [proc EXCEPT ![p] = [proc[p] EXCEPT !.at = "open", !.value = f, !.factors = f]]
      BY <1>1, <2>4 DEF FetchFactors, Answer, Answers, TypeOK
    <3> DEFINE j == [proc[p] EXCEPT !.at = "open", !.value = f, !.factors = f]
    <3>2. j \in Invocations /\ j.at = "open" /\ j.cfg = proc[p].cfg /\ j.factors = f
          /\ j.name = "factors" /\ j.value = f
      BY <1>1, <2>4 DEF FetchFactors, Preparing, Fits, Invocations, Steps
    <3>3. Fits(j)
      BY <1>1, <3>2 DEF Fits, Values
    <3> QED
      BY <3>1, <3>3
  <2>5. CASE Adjust(p)
    <3> DEFINE v == [raw |-> files["raw"], factors |-> proc[p].factors]
    <3>1. v \in Values(proc[p].name)
      BY <1>1, <1>2, <2>5 DEF Adjust, Preparing, Fits, Adjusted, Values
    <3> QED
      BY <1>1, <2>5, <3>1, MakesFits DEF Adjust, Preparing, Makes
  <2>6. CASE AdjustedManifest(p)
    <3> DEFINE v == [raw |-> files["raw"], factors |-> files["factors"], adjusted |-> files["adjusted"]]
    <3>1. v \in Values(proc[p].name)
      BY <1>1, <1>2, <2>6 DEF AdjustedManifest, Preparing, Bindings, Values
    <3> QED
      BY <1>1, <2>6, <3>1, MakesFits DEF AdjustedManifest, Preparing, Makes
  <2> QED
    BY <2>1, <2>2, <2>3, <2>4, <2>5, <2>6
<1> QED
  BY <1>3, <1>4, OneMoves DEF TypeOK

LEMMA ManyMove ==
  ASSUME TypeOK, NEW p \in Procs, NEW i, Fits(i), NEW S, NEW h \in {"none", "temp", "final"},
         proc' = Moved(p, i, S, h),
         AreFiles(files'), AreFiles(temps'), runs' \in Nat
  PROVE  TypeOK'
<1>1. \A q \in Procs : Fits([proc[q] EXCEPT !.handle = h])
  BY HandleMoves DEF TypeOK
<1> QED
  BY <1>1 DEF TypeOK, Moved

LEMMA WritesOn ==
  ASSUME NEW i, Fits(i), i.at \in Writing, NEW at \in Writing, NEW h \in {"none", "temp", "final"}
  PROVE  Fits([i EXCEPT !.at = at, !.handle = h])
<1> DEFINE j == [i EXCEPT !.at = at, !.handle = h]
<1>1. j \in Invocations /\ j.at = at /\ j.cfg = i.cfg /\ j.name = i.name /\ j.value = i.value
      /\ j.factors = i.factors
  BY DEF Fits, Invocations, Writing, Steps
<1> QED
  BY <1>1 DEF Fits, Writing

LEMMA WriteTypes ==
  ASSUME TypeOK, NEW p \in Procs, Open(p) \/ Fill(p) \/ Unlink(p) \/ Publish(p)
  PROVE  TypeOK'
<1> DEFINE name == proc[p].name
           all == File(proc[p].value, TRUE)
<1>1. /\ Fits(proc[p]) /\ proc[p] \in Invocations /\ proc[p].at \in Writing /\ name \in Names
      /\ proc[p].cfg \in Configs /\ proc[p].value \in Values(name)
  BY DEF TypeOK, Fits, Invocations, Writing, Open, Fill, Unlink, Publish
<1>2. /\ all \in FilesOf(Values(name)) /\ File(proc[p].value, FALSE) \in FilesOf(Values(name))
      /\ AreFiles(files) /\ AreFiles(temps)
  BY <1>1 DEF TypeOK, File, FilesOf
<1>3. CASE Open(p)
  <2>1. Fits([proc[p] EXCEPT !.at = "fill", !.handle = "temp"])
    BY <1>1, WritesOn DEF Writing
  <2>2. AreFiles(files') /\ AreFiles(temps')
    BY <1>1, <1>2, <1>3, FileSet DEF Open
  <2>3. proc' = Moved(p, [proc[p] EXCEPT !.at = "fill", !.handle = "temp"],
                      Others(p, name, "temp"), "none")
    BY <1>3 DEF Open
  <2>4. runs' \in Nat
    BY <1>3 DEF Open, TypeOK
  <2> QED
    BY <2>1, <2>2, <2>3, <2>4, ManyMove
<1>4. CASE Fill(p)
  <2>1. Fits([proc[p] EXCEPT !.at = "unlink", !.name = name, !.handle = "none"])
    <3>1. name \in {"factors", "adjusted"} => proc[p].factors \in Answers
      BY <1>1, <1>4 DEF Fits, Writing, Fill
    <3>2. proc[p].at # "idle"
      BY <1>4 DEF Fill
    <3> QED
      BY <1>1, <3>1, <3>2, GoesFits
  <2>2. AreFiles(files') /\ AreFiles(temps')
    BY <1>1, <1>2, <1>4, FileSet DEF Fill
  <2> QED
    BY <1>4, <2>1, <2>2, OneMoves DEF Fill, Goes, TypeOK
<1>5. CASE Unlink(p)
  <2> DEFINE i == [proc[p] EXCEPT !.at = "rename"]
  <2>1. i = [proc[p] EXCEPT !.at = "rename", !.handle = proc[p].handle]
    BY <1>1 DEF Invocations
  <2>2. Fits(i)
    BY <1>1, <2>1, WritesOn DEF Writing, Invocations
  <2>3. AreFiles(files') /\ AreFiles(temps')
    BY <1>1, <1>2, <1>5, FileSet DEF Unlink
  <2>4. proc' = Moved(p, i, Others(p, name, "final"), "none")
    BY <1>5 DEF Unlink
  <2>5. runs' \in Nat
    BY <1>5 DEF Unlink, TypeOK
  <2> HIDE DEF i
  <2> QED
    BY <2>2, <2>3, <2>4, <2>5, ManyMove
<1>6. CASE Publish(p)
  <2>1. name = "factors" => proc[p].factors \in Answers
    BY <1>1 DEF Fits
  <2>2. Fits(Onward(proc[p], name))
    BY <1>1, <2>1, OnwardFits DEF Writing
  <2>3. AreFiles(files') /\ AreFiles(temps')
    BY <1>1, <1>2, <1>6, FileSet DEF Publish, AreFiles
  <2>4. proc' = Moved(p, Onward(proc[p], name), Others(p, name, "temp"), "final")
    BY <1>6 DEF Publish
  <2>5. runs' \in Nat
    BY <1>6 DEF Publish, TypeOK
  <2> QED
    BY <2>2, <2>3, <2>4, <2>5, ManyMove
<1> QED
  BY <1>3, <1>4, <1>5, <1>6

LEMMA EndTypes ==
  ASSUME TypeOK, NEW p \in Procs, End(p) \/ EndEmpty(p)
  PROVE  TypeOK'
<1>1. CASE End(p)
  BY <1>1, IdleFits, OneMoves DEF End, TypeOK
<1>2. CASE EndEmpty(p)
  <2>1. AreFiles(temps')
    BY <1>2, FileSet DEF EndEmpty, TypeOK, Names
  <2>2. proc' = Moved(p, Idle, Others(p, "raw", "temp"), "none")
    BY <1>2 DEF EndEmpty
  <2>3. AreFiles(files') /\ runs' \in Nat
    BY <1>2 DEF EndEmpty, TypeOK
  <2> QED
    BY <2>1, <2>2, <2>3, IdleFits, ManyMove
<1> QED
  BY <1>1, <1>2

LEMMA StepTypes == TypeOK /\ [Next]_vars => TypeOK'
<1> SUFFICES ASSUME TypeOK, [Next]_vars PROVE TypeOK'
  OBVIOUS
<1>1. CASE \E p \in Procs : Step(p)
  BY <1>1, BeginTypes, ValidateTypes, InspectTypes, PrepareTypes, WriteTypes, EndTypes DEF Step
<1>2. CASE UNCHANGED vars
  BY <1>2 DEF vars, TypeOK
<1> QED
  BY <1>1, <1>2 DEF Next, Rest

\* ensure_cached_csv: files, temporary files and invocations keep their types,
\* however many invocations overlap.
THEOREM CacheTypes == Spec => []TypeOK
BY InitTypes, StepTypes, PTL DEF Spec

-----------------------------------------------------------------------------
\* Steps that leave the files alone.
LEMMA CalmStep ==
  ASSUME Published, NEW p \in Procs, \A q \in Procs : q = p, UNCHANGED <<files, temps>>,
         proc'[p].at \notin {"fill", "unlink", "rename"},
         proc'[p].at = "prepare" => proc'[p].name # "raw_manifest",
         proc'[p].at = "open" /\ proc'[p].name = "raw" =>
           proc'[p].value.request = proc'[p].cfg.request,
         proc'[p].at = "open" /\ proc'[p].name = "raw_manifest" => Truthful(proc'[p].value)
  PROVE  Published'
<1>1. PublishedIsWhole' /\ ManifestsTruthful'
  BY DEF Published, PublishedIsWhole, ManifestsTruthful, Truthful
<1>2. FilledFirst' /\ OwnWork'
  BY DEF FilledFirst, OwnWork, Truthful
<1> QED
  BY <1>1, <1>2 DEF Published

\* The manifest comes right after the data it is about.
LEMMA OnwardGoes ==
  ASSUME NEW i \in Invocations, NEW name \in Names
  PROVE  /\ Onward(i, name).at \in {"serve", "prepare"} /\ Onward(i, name).cfg = i.cfg
         /\ Onward(i, name).at = "prepare" /\ Onward(i, name).name = "raw_manifest" => name = "raw"
<1> DEFINE next == After(i, name)
<1>1. next = "raw_manifest" => name = "raw"
  BY DEF After
<1> QED
  BY <1>1 DEF Onward, Invocations

LEMMA StartsAndEnds ==
  ASSUME CacheInv, NEW p \in Procs, \A q \in Procs : q = p,
         \/ \E c \in Configs : Begin(p, c)
         \/ Validate(p) \/ Inspect(p) \/ End(p)
  PROVE  Published'
<1>1. DOMAIN proc = Procs /\ proc[p] \in Invocations
  BY DEF CacheInv, TypeOK, Fits
<1>2. CASE \E c \in Configs : Begin(p, c)
  <2>1. proc'[p].at = "validate" /\ UNCHANGED <<files, temps>>
    BY <1>1, <1>2 DEF Begin, Idle
  <2> QED
    BY <2>1, CalmStep DEF CacheInv
<1>3. CASE Validate(p)
  <2>1. UNCHANGED <<files, temps>>
    BY <1>3 DEF Validate
  <2> DEFINE defining(d) == [proc[p] EXCEPT !.defining = d]
             on(d) == Onward(defining(d), "raw_manifest")
             d0 == /\ proc[p].cfg.definitions
                   /\ proc[p].cfg.refresh \/ files["definitions"] = Nothing
  <2>2. \A d \in BOOLEAN :
          on(d).at \in {"serve", "prepare"} /\ ~(on(d).at = "prepare" /\ on(d).name = "raw_manifest")
    <3> SUFFICES ASSUME NEW d \in BOOLEAN
                 PROVE  /\ on(d).at \in {"serve", "prepare"}
                        /\ ~(on(d).at = "prepare" /\ on(d).name = "raw_manifest")
      OBVIOUS
    <3>1. defining(d) \in Invocations
      BY <1>1 DEF Invocations
    <3> QED
      BY <3>1, OnwardGoes DEF Names
  <2>3. \/ proc'[p] = [proc[p] EXCEPT !.at = "serve", !.name = "adjusted", !.handle = "none"]
        \/ proc'[p] = [defining(d0) EXCEPT !.at = "inspect"]
        \/ proc'[p] = on(d0)
    BY <1>1, <1>3 DEF Validate, Goes
  <2>4. \/ proc'[p].at \in {"serve", "inspect"}
        \/ proc'[p].at = "prepare" /\ proc'[p].name # "raw_manifest"
    <3>1. CASE proc'[p] = [proc[p] EXCEPT !.at = "serve", !.name = "adjusted", !.handle = "none"]
      BY <1>1, <3>1 DEF Invocations
    <3>2. CASE proc'[p] = [defining(d0) EXCEPT !.at = "inspect"]
      BY <1>1, <3>2 DEF Invocations
    <3>3. CASE proc'[p] = on(d0)
      <4>1. d0 \in BOOLEAN
        OBVIOUS
      <4> HIDE DEF d0, on
      <4> QED
        BY <2>2, <3>3, <4>1
    <3> QED
      BY <2>3, <3>1, <3>2, <3>3
  <2> QED
    BY <2>1, <2>4, CalmStep DEF CacheInv
<1>5. CASE Inspect(p)
  <2>1. /\ UNCHANGED <<files, temps>>
        /\ \/ proc'[p].at = "idle"
           \/ proc'[p].at = "prepare" /\ proc'[p].name = "raw"
    BY <1>1, <1>5 DEF Inspect, Idle, Invocations
  <2> QED
    BY <2>1, CalmStep DEF CacheInv
<1>4. CASE End(p)
  <2>1. proc'[p].at = "idle" /\ UNCHANGED <<files, temps>>
    BY <1>1, <1>4 DEF End, Idle
  <2> QED
    BY <2>1, CalmStep DEF CacheInv
<1> QED
  BY <1>2, <1>3, <1>4, <1>5

LEMMA Prepares ==
  ASSUME CacheInv, NEW p \in Procs, \A q \in Procs : q = p,
         \/ FetchRaw(p) \/ RawManifest(p) \/ FetchDefinitions(p)
         \/ ReuseFactors(p) \/ FetchFactors(p) \/ Adjust(p) \/ AdjustedManifest(p)
  PROVE  Published'
<1>1. /\ DOMAIN proc = Procs /\ proc[p] \in Invocations
      /\ UNCHANGED <<files, temps>>
  BY DEF CacheInv, TypeOK, Fits, FetchRaw, RawManifest, FetchDefinitions, ReuseFactors,
         FetchFactors, Adjust, AdjustedManifest
<1>2. CASE FetchRaw(p)
  <2>1. PICK v \in Versions :
          proc' = [proc EXCEPT ![p] = [@ EXCEPT !.at = "open",
                                               !.value = Answer(proc[p].cfg.request, v)]]
    BY <1>2 DEF FetchRaw, Makes
  <2>2. /\ proc'[p].at = "open" /\ proc'[p].name = "raw" /\ proc'[p].cfg = proc[p].cfg
        /\ proc'[p].value = Answer(proc[p].cfg.request, v)
    BY <1>1, <1>2, <2>1 DEF FetchRaw, Preparing, Invocations
  <2> QED
    BY <1>1, <2>2, CalmStep DEF CacheInv, Answer
<1>3. CASE RawManifest(p)
  <2>1. /\ proc'[p].at = "open" /\ proc'[p].name = "raw_manifest"
        /\ proc'[p].value = [request |-> proc[p].cfg.request, raw |-> files["raw"]]
    BY <1>1, <1>3 DEF RawManifest, Preparing, Makes, Invocations
  <2>2. files["raw"].whole /\ files["raw"].value.request = proc[p].cfg.request
    BY <1>3 DEF RawManifest, Preparing, CacheInv, Published, PublishedIsWhole, OwnWork, Names
  <2>3. Truthful(proc'[p].value)
    BY <2>1, <2>2 DEF Truthful
  <2> QED
    BY <1>1, <2>1, <2>3, CalmStep DEF CacheInv
<1>4. CASE ReuseFactors(p)
  <2>1. proc'[p].at = "prepare" /\ proc'[p].name = "adjusted"
    BY <1>1, <1>4 DEF ReuseFactors, Preparing, Invocations
  <2> QED
    BY <1>1, <2>1, CalmStep DEF CacheInv
<1>5. CASE FetchDefinitions(p) \/ FetchFactors(p) \/ Adjust(p) \/ AdjustedManifest(p)
  <2>1. /\ proc'[p].at = "open"
        /\ proc'[p].name \in {"definitions", "factors", "adjusted", "adjusted_manifest"}
    <3>1. CASE FetchDefinitions(p)
      BY <1>1, <3>1 DEF FetchDefinitions, Preparing, Makes, Invocations
    <3>2. CASE FetchFactors(p)
      BY <1>1, <3>2 DEF FetchFactors, Preparing, Invocations
    <3>3. CASE Adjust(p) \/ AdjustedManifest(p)
      BY <1>1, <3>3 DEF Adjust, AdjustedManifest, Preparing, Makes, Invocations
    <3> QED
      BY <1>5, <3>1, <3>2, <3>3
  <2> QED
    BY <1>1, <2>1, CalmStep DEF CacheInv
<1> QED
  BY <1>2, <1>3, <1>4, <1>5

\* With nobody else about, only the invocation itself moves.
LEMMA AloneMoves ==
  ASSUME NEW p \in Procs, \A q \in Procs : q = p, NEW i, NEW S, NEW h,
         proc' = Moved(p, i, S, h)
  PROVE  proc'[p] = i
BY DEF Moved

\* Steps that write: nothing is published that was not filled.
LEMMA Writes ==
  ASSUME CacheInv, NEW p \in Procs, \A q \in Procs : q = p,
         Open(p) \/ Fill(p) \/ Unlink(p) \/ EndEmpty(p)
  PROVE  Published'
<1> DEFINE name == proc[p].name
<1>1. /\ DOMAIN proc = Procs /\ proc[p] \in Invocations /\ name \in Names
      /\ DOMAIN files = Names /\ DOMAIN temps = Names
      /\ Published
  BY DEF CacheInv, TypeOK, Fits, AreFiles, Invocations
<1>2. CASE Open(p)
  <2>1. proc'[p] = [proc[p] EXCEPT !.at = "fill", !.handle = "temp"]
    BY <1>2, AloneMoves DEF Open
  <2>2. /\ proc[p].at = "open" /\ UNCHANGED files
        /\ proc'[p].at = "fill" /\ proc'[p].handle = "temp" /\ proc'[p].name = name
        /\ proc'[p].value = proc[p].value /\ proc'[p].cfg = proc[p].cfg
    BY <1>1, <1>2, <2>1 DEF Open, Invocations
  <2>3. PublishedIsWhole' /\ ManifestsTruthful'
    BY <1>1, <2>2 DEF Published, PublishedIsWhole, ManifestsTruthful, Truthful
  <2>4. FilledFirst'
    BY <2>2 DEF FilledFirst
  <2>5. OwnWork'
    BY <1>1, <2>2 DEF Published, OwnWork, Truthful
  <2> QED
    BY <2>3, <2>4, <2>5 DEF Published
<1>3. CASE Fill(p)
  <2>1. /\ proc[p].at = "fill" /\ proc[p].handle = "temp" /\ UNCHANGED files
        /\ temps' = [temps EXCEPT ![name] = File(proc[p].value, TRUE)]
    BY <1>1, <1>3 DEF Fill, Published, FilledFirst
  <2>2. /\ proc'[p].at = "unlink" /\ proc'[p].name = name
        /\ proc'[p].value = proc[p].value /\ proc'[p].cfg = proc[p].cfg
    BY <1>1, <1>3 DEF Fill, Goes, Invocations
  <2>3. PublishedIsWhole' /\ ManifestsTruthful' /\ OwnWork'
    BY <1>1, <2>1, <2>2 DEF Published, PublishedIsWhole, ManifestsTruthful, OwnWork, Truthful
  <2>4. FilledFirst'
    BY <1>1, <2>1, <2>2 DEF FilledFirst
  <2> QED
    BY <2>3, <2>4 DEF Published
<1>4. CASE Unlink(p)
  <2>1. proc'[p] = [proc[p] EXCEPT !.at = "rename"]
    BY <1>4, AloneMoves DEF Unlink
  <2>2. /\ proc[p].at = "unlink" /\ UNCHANGED temps
        /\ files' = [files EXCEPT ![name] = Nothing]
        /\ proc'[p].at = "rename" /\ proc'[p].name = name
        /\ proc'[p].value = proc[p].value /\ proc'[p].cfg = proc[p].cfg
    BY <1>1, <1>4, <2>1 DEF Unlink, Invocations
  <2>3. PublishedIsWhole' /\ ManifestsTruthful'
    BY <1>1, <2>2 DEF Published, PublishedIsWhole, ManifestsTruthful, Truthful, Names
  <2>4. FilledFirst'
    <3>1. temps'[name] = File(proc[p].value, TRUE)
      BY <1>1, <2>2 DEF Published, FilledFirst
    <3> QED
      BY <2>2, <3>1 DEF FilledFirst
  <2>5. OwnWork'
    BY <1>1, <2>2 DEF Published, OwnWork, Truthful
  <2> QED
    BY <2>3, <2>4, <2>5 DEF Published
<1>5. CASE EndEmpty(p)
  <2>1. proc'[p] = Idle
    BY <1>5, AloneMoves DEF EndEmpty
  <2>2. proc'[p].at = "idle" /\ UNCHANGED files
    BY <1>5, <2>1 DEF EndEmpty, Idle
  <2>3. PublishedIsWhole' /\ ManifestsTruthful' /\ FilledFirst' /\ OwnWork'
    BY <1>1, <2>2 DEF Published, PublishedIsWhole, ManifestsTruthful, FilledFirst, OwnWork, Truthful
  <2> QED
    BY <2>3 DEF Published
<1> QED
  BY <1>2, <1>3, <1>4, <1>5

\* The rename publishes what was filled.
LEMMA Publishes ==
  ASSUME CacheInv, NEW p \in Procs, \A q \in Procs : q = p, Publish(p)
  PROVE  Published'
<1> DEFINE name == proc[p].name
<1>1. /\ proc[p] \in Invocations /\ name \in Names /\ DOMAIN files = Names
      /\ proc[p].at = "rename" /\ Published
  BY DEF CacheInv, TypeOK, Fits, AreFiles, Invocations, Publish
<1>2. files' = [files EXCEPT ![name] = File(proc[p].value, TRUE)]
  BY <1>1 DEF Publish, Published, FilledFirst
<1>3. proc'[p] = Onward(proc[p], name)
  BY AloneMoves DEF Publish
<1>4. /\ proc'[p].at \in {"serve", "prepare"} /\ proc'[p].cfg = proc[p].cfg
      /\ proc'[p].at = "prepare" /\ proc'[p].name = "raw_manifest" => name = "raw"
  BY <1>1, <1>3, OnwardGoes
<1>5. PublishedIsWhole'
  BY <1>1, <1>2 DEF Published, PublishedIsWhole, File
<1>6. ManifestsTruthful'
  BY <1>1, <1>2 DEF Published, ManifestsTruthful, OwnWork, Truthful, File, Names
<1>7. FilledFirst'
  BY <1>4 DEF FilledFirst
<1>8. OwnWork'
  BY <1>1, <1>2, <1>4 DEF Published, OwnWork, File, Names
<1> QED
  BY <1>5, <1>6, <1>7, <1>8 DEF Published

\* In a cache that one invocation at a time works on, whatever is published was
\* written to its end and the manifests tell the truth.
THEOREM CacheInvHolds == Alone /\ Spec => []CacheInv
<1> SUFFICES ASSUME Alone PROVE Spec => []CacheInv
  OBVIOUS
<1>1. Init => CacheInv
  <2> SUFFICES ASSUME Init PROVE CacheInv
    OBVIOUS
  <2>1. PublishedIsWhole /\ ManifestsTruthful
    BY DEF Init, PublishedIsWhole, ManifestsTruthful, Names
  <2>2. \A p \in Procs : proc[p].at = "idle"
    BY DEF Init, Idle
  <2>3. FilledFirst /\ OwnWork
    BY <2>2 DEF FilledFirst, OwnWork
  <2> QED
    BY <2>1, <2>3, InitTypes DEF CacheInv, Published
<1>2. CacheInv /\ [Next]_vars => CacheInv'
  <2> SUFFICES ASSUME CacheInv, [Next]_vars PROVE CacheInv'
    OBVIOUS
  <2>1. TypeOK'
    BY StepTypes DEF CacheInv
  <2>2. CASE \E p \in Procs : Step(p)
    <3>1. PICK p \in Procs : Step(p)
      BY <2>2
    <3>2. \A q \in Procs : q = p
      BY DEF Alone
    <3>3. Published'
      BY <3>1, <3>2, StartsAndEnds, Prepares, Writes, Publishes DEF Step
    <3> QED
      BY <2>1, <3>3 DEF CacheInv
  <2>3. CASE UNCHANGED vars
    BY <2>1, <2>3 DEF vars, CacheInv, Published, PublishedIsWhole, FilledFirst, OwnWork,
       ManifestsTruthful, Truthful
  <2> QED
    BY <2>2, <2>3 DEF Next, Rest
<1> QED
  BY <1>1, <1>2, PTL DEF Spec

\* write_json_atomic and its likes: no crash leaves a file half-written under its
\* final name, as long as invocations do not overlap.
THEOREM NothingHalfWritten == Alone /\ Spec => []PublishedIsWhole
<1>1. CacheInv => PublishedIsWhole
  BY DEF CacheInv, Published
<1> QED
  BY <1>1, CacheInvHolds, PTL

\* cached_request_is_valid: the raw data it accepts is complete and the request's
\* own, as long as invocations do not overlap.
THEOREM ReusedIsComplete == Alone /\ Spec => []ReuseIsComplete
<1>1. CacheInv => ReuseIsComplete
  BY DEF CacheInv, Published, ManifestsTruthful, Truthful, ReuseIsComplete, RawValid, Readable
<1> QED
  BY <1>1, CacheInvHolds, PTL

-----------------------------------------------------------------------------
(***************************************************************************)
(* What is served.  An invocation makes its files in order; what it has at *)
(* hand when it makes one is what it left, or found, of those before.      *)
(***************************************************************************)
Making(i, names) == i.at \in {"prepare"} \cup Writing /\ i.name \in names

Wrote(i, name) == i.at \in Writing /\ i.name = name

\* The adjusted file was made from the raw data and the factors that lie beside it.
AdjustedFits == files["adjusted"].value = [raw |-> files["raw"], factors |-> files["factors"].value]

RawReady(i) ==
  /\ Making(i, {"definitions", "factors", "adjusted", "adjusted_manifest"}) \/ i.at = "serve" =>
       RawValid(i.cfg.request)
  /\ Wrote(i, "raw_manifest") =>
       files["raw"] # Nothing /\ i.value = [request |-> i.cfg.request, raw |-> files["raw"]]

DefinitionsReady(i) ==
  i.cfg.definitions =>
    /\ (i.at = "inspect" \/ Making(i, {"raw", "raw_manifest"})) /\ ~i.defining =>
         files["definitions"] # Nothing
    /\ Making(i, {"factors", "adjusted", "adjusted_manifest"}) \/ i.at = "serve" =>
         files["definitions"] # Nothing

AdjustedReady(i) ==
  /\ Wrote(i, "factors") => i.value = i.factors
  /\ Making(i, {"adjusted"}) => files["factors"].value = i.factors
  /\ Wrote(i, "adjusted") => i.value = [raw |-> files["raw"], factors |-> i.factors]
  /\ Making(i, {"adjusted_manifest"}) \/ (i.at = "serve" /\ i.cfg.adjust) => AdjustedFits
  /\ Wrote(i, "adjusted_manifest") =>
       i.value = [raw |-> files["raw"], factors |-> files["factors"], adjusted |-> files["adjusted"]]

Ready(i) == RawReady(i) /\ DefinitionsReady(i) /\ AdjustedReady(i)

\* The manifest of an adjusted file names what it was made from.
Binds(b) == b.adjusted.value = [raw |-> b.raw, factors |-> b.factors.value]

BindingsTruthful ==
  files["adjusted_manifest"] # Nothing => Binds(files["adjusted_manifest"].value)

Prepared == BindingsTruthful /\ \A p \in Procs : Ready(proc[p])

ServeInv == CacheInv /\ Prepared

\* Two invocations that differ in nothing `Ready` looks at, while the file that they
\* write may go.
SameWork(i, j) ==
  /\ i.at \in Writing /\ j.at \in Writing
  /\ j.cfg = i.cfg /\ j.name = i.name /\ j.value = i.value /\ j.factors = i.factors
  /\ j.defining = i.defining

LEMMA WritingKeeps ==
  ASSUME Prepared, NEW p \in Procs, \A q \in Procs : q = p, SameWork(proc[p], proc'[p]),
         \A n \in Names \ {proc[p].name} : files'[n] = files[n],
         files'[proc[p].name] \in {files[proc[p].name], Nothing}
  PROVE  Prepared'
<1>1. Ready(proc[p]) /\ BindingsTruthful
  BY DEF Prepared
<1>2. BindingsTruthful'
  BY <1>1 DEF BindingsTruthful, Names, Binds
<1>3. RawReady(proc[p])'
  BY <1>1 DEF Ready, RawReady, SameWork, Making, Wrote, RawValid, Readable, Names, Writing
<1>4. DefinitionsReady(proc[p])'
  BY <1>1 DEF Ready, DefinitionsReady, SameWork, Making, Names, Writing
<1>5. AdjustedReady(proc[p])'
  BY <1>1 DEF Ready, AdjustedReady, SameWork, Making, Wrote, AdjustedFits, Names, Writing
<1> QED
  BY <1>2, <1>3, <1>4, <1>5 DEF Prepared, Ready

\* An invocation that has begun, or has ended, has made nothing.
LEMMA RestReady ==
  ASSUME Prepared, NEW p \in Procs, \A q \in Procs : q = p, UNCHANGED files,
         proc'[p].at \in {"idle", "validate"}
  PROVE  Prepared'
<1>1. BindingsTruthful'
  BY DEF Prepared, BindingsTruthful, Binds
<1>2. RawReady(proc[p])' /\ DefinitionsReady(proc[p])' /\ AdjustedReady(proc[p])'
  BY DEF RawReady, DefinitionsReady, AdjustedReady, Making, Wrote, Writing
<1> QED
  BY <1>1, <1>2 DEF Prepared, Ready

\* The step after a valid raw file: nothing is made yet.
LEMMA OnwardFields ==
  ASSUME NEW i \in Invocations, NEW name \in Names
  PROVE  /\ Onward(i, name).cfg = i.cfg /\ Onward(i, name).factors = i.factors
         /\ Onward(i, name).defining = i.defining /\ Onward(i, name).value = i.value
         /\ \/ /\ After(i, name) = "serve" /\ Onward(i, name).at = "serve"
               /\ Onward(i, name).name = Served(i.cfg)
            \/ /\ After(i, name) # "serve" /\ Onward(i, name).at = "prepare"
               /\ Onward(i, name).name = After(i, name)
BY DEF Onward, Invocations

\* The files in their order.
LEMMA AfterIs ==
  ASSUME NEW i
  PROVE  /\ After(i, "raw") = "raw_manifest"
         /\ i.defining => After(i, "raw_manifest") = "definitions"
         /\ ~i.defining /\ i.cfg.adjust => After(i, "raw_manifest") = "factors"
         /\ ~i.defining /\ ~i.cfg.adjust => After(i, "raw_manifest") = "serve"
         /\ i.cfg.adjust => After(i, "definitions") = "factors"
         /\ ~i.cfg.adjust => After(i, "definitions") = "serve"
         /\ After(i, "factors") = "adjusted"
         /\ After(i, "adjusted") = "adjusted_manifest"
         /\ After(i, "adjusted_manifest") = "serve"
<1>1. /\ After(i, "raw") = "raw_manifest"
      /\ After(i, "factors") = "adjusted"
      /\ After(i, "adjusted") = "adjusted_manifest"
      /\ After(i, "adjusted_manifest") = "serve"
  BY DEF After
<1>2. i.defining => After(i, "raw_manifest") = "definitions"
  BY DEF After
<1>3. ~i.defining /\ i.cfg.adjust => After(i, "raw_manifest") = "factors"
  BY DEF After
<1>4. ~i.defining /\ ~i.cfg.adjust => After(i, "raw_manifest") = "serve"
  BY DEF After
<1>5. i.cfg.adjust => After(i, "definitions") = "factors"
  BY DEF After
<1>6. ~i.cfg.adjust => After(i, "definitions") = "serve"
  BY DEF After
<1> QED
  BY <1>1, <1>2, <1>3, <1>4, <1>5, <1>6

LEMMA ValidateReady ==
  ASSUME ServeInv, NEW p \in Procs, \A q \in Procs : q = p, Validate(p)
  PROVE  Prepared'
<1>1. /\ DOMAIN proc = Procs /\ proc[p] \in Invocations /\ UNCHANGED files
      /\ proc[p].at = "validate" /\ BindingsTruthful
  BY DEF ServeInv, CacheInv, TypeOK, Fits, Prepared, Validate
<1>2. BindingsTruthful'
  BY <1>1 DEF BindingsTruthful, Binds
<1> DEFINE cfg == proc[p].cfg
           raw == ~cfg.refresh /\ RawValid(cfg.request)
           missing == files["definitions"] = Nothing
           d == cfg.definitions /\ (cfg.refresh \/ missing)
           i == [proc[p] EXCEPT !.defining = d]
           reuse == /\ raw /\ cfg.adjust /\ ~cfg.estimate /\ AdjustedValid
                    /\ cfg.definitions => ~missing
<1>3. CASE reuse /\ proc' = [proc EXCEPT ![p] = [@ EXCEPT !.at = "serve", !.name = "adjusted", !.handle = "none"]]
  <2>1. proc'[p].at = "serve" /\ proc'[p].cfg = cfg
    BY <1>1, <1>3 DEF Invocations
  <2>2. AdjustedFits
    BY <1>1, <1>3 DEF AdjustedValid, AdjustedFits, BindingsTruthful, Binds, Readable
  <2>3. RawReady(proc[p])'
    BY <1>1, <1>3, <2>1 DEF RawReady, Making, Wrote, Writing, RawValid, Readable
  <2>4. DefinitionsReady(proc[p])'
    BY <1>1, <1>3, <2>1 DEF DefinitionsReady, Making, Writing
  <2>5. AdjustedReady(proc[p])'
    BY <1>1, <2>1, <2>2 DEF AdjustedReady, AdjustedFits, Making, Wrote, Writing
  <2> QED
    BY <1>2, <2>3, <2>4, <2>5 DEF Prepared, Ready
<1>4. i \in Invocations /\ i.at = "validate" /\ i.cfg = cfg /\ i.defining = d
  BY <1>1 DEF Invocations
<1>5. CASE proc' = [proc EXCEPT ![p] = [i EXCEPT !.at = "inspect"]]
  <2>1. proc'[p].at = "inspect" /\ proc'[p].cfg = cfg /\ proc'[p].defining = d
    BY <1>1, <1>5 DEF Invocations
  <2>2. RawReady(proc[p])' /\ AdjustedReady(proc[p])'
    BY <2>1 DEF RawReady, AdjustedReady, Making, Wrote, Writing
  <2>3. DefinitionsReady(proc[p])'
    BY <1>1, <2>1 DEF DefinitionsReady, Making, Writing
  <2> QED
    BY <1>2, <2>2, <2>3 DEF Prepared, Ready
<1>6. CASE raw /\ proc' = [proc EXCEPT ![p] = Onward(i, "raw_manifest")]
  <2>1. proc'[p] = Onward(i, "raw_manifest")
    BY <1>1, <1>6
  <2>2. /\ proc'[p].cfg = cfg /\ proc'[p].defining = d
        /\ \/ After(i, "raw_manifest") = "serve" /\ proc'[p].at = "serve"
           \/ /\ After(i, "raw_manifest") # "serve" /\ proc'[p].at = "prepare"
              /\ proc'[p].name = After(i, "raw_manifest")
    <3> HIDE DEF i
    <3> QED
      BY <1>4, <2>1, OnwardFields DEF Names
  <2>3. /\ d => After(i, "raw_manifest") = "definitions"
        /\ ~d /\ cfg.adjust => After(i, "raw_manifest") = "factors"
        /\ ~d /\ ~cfg.adjust => After(i, "raw_manifest") = "serve"
    <3> HIDE DEF i
    <3> QED
      BY <1>4, AfterIs
  <2> HIDE DEF i
  <2>4. RawReady(proc[p])'
    BY <1>1, <1>6, <2>2, <2>3 DEF RawReady, Making, Wrote, Writing, RawValid, Readable
  <2>5. DefinitionsReady(proc[p])'
    BY <1>1, <1>6, <2>2, <2>3 DEF DefinitionsReady, Making, Writing
  <2>6. AdjustedReady(proc[p])'
    BY <1>1, <2>2, <2>3 DEF AdjustedReady, Making, Wrote, Writing
  <2> QED
    BY <1>2, <2>4, <2>5, <2>6 DEF Prepared, Ready
<1> QED
  BY <1>3, <1>5, <1>6 DEF Validate, Goes

LEMMA InspectReady ==
  ASSUME ServeInv, NEW p \in Procs, \A q \in Procs : q = p, Inspect(p)
  PROVE  Prepared'
<1>1. /\ DOMAIN proc = Procs /\ proc[p] \in Invocations /\ UNCHANGED files /\ Prepared
      /\ proc[p].at = "inspect" /\ Ready(proc[p]) /\ BindingsTruthful
  BY DEF ServeInv, CacheInv, TypeOK, Fits, Prepared, Inspect
<1>2. CASE proc'[p] = Idle
  BY <1>1, <1>2, RestReady DEF Idle
<1>3. CASE proc'[p] = [proc[p] EXCEPT !.at = "prepare", !.name = "raw"]
  <2>1. /\ proc'[p].at = "prepare" /\ proc'[p].name = "raw" /\ proc'[p].cfg = proc[p].cfg
        /\ proc'[p].defining = proc[p].defining
    BY <1>1, <1>3 DEF Invocations
  <2>2. BindingsTruthful'
    BY <1>1 DEF BindingsTruthful, Binds
  <2>3. RawReady(proc[p])' /\ AdjustedReady(proc[p])'
    BY <2>1 DEF RawReady, AdjustedReady, Making, Wrote, Writing
  <2>4. DefinitionsReady(proc[p])'
    BY <1>1, <2>1 DEF Ready, DefinitionsReady, Making, Writing
  <2> QED
    BY <2>2, <2>3, <2>4 DEF Prepared, Ready
<1> QED
  BY <1>1, <1>2, <1>3 DEF Inspect

\* What an invocation has made up to write, it made from what is there.
LEMMA MakingReady ==
  ASSUME ServeInv, NEW p \in Procs, \A q \in Procs : q = p,
         \/ FetchRaw(p) \/ RawManifest(p) \/ FetchDefinitions(p)
         \/ FetchFactors(p) \/ Adjust(p) \/ AdjustedManifest(p)
  PROVE  Prepared'
<1>1. /\ DOMAIN proc = Procs /\ proc[p] \in Invocations /\ UNCHANGED files
      /\ proc[p].at = "prepare" /\ Ready(proc[p]) /\ BindingsTruthful
  BY DEF ServeInv, CacheInv, TypeOK, Fits, Prepared, Preparing, FetchRaw, RawManifest,
         FetchDefinitions, FetchFactors, Adjust, AdjustedManifest
<1>2. BindingsTruthful'
  BY <1>1 DEF BindingsTruthful, Binds
<1>3. PICK v, f : proc' = [proc EXCEPT ![p] = [@ EXCEPT !.at = "open", !.value = v, !.factors = f]]
                  /\ (proc[p].name = "raw_manifest" =>
                        files["raw"] # Nothing
                        /\ v = [request |-> proc[p].cfg.request, raw |-> files["raw"]])
                  /\ (proc[p].name = "factors" => v = f)
                  /\ (proc[p].name # "factors" => f = proc[p].factors)
                  /\ (proc[p].name = "adjusted" => v = [raw |-> files["raw"], factors |-> f])
                  /\ (proc[p].name = "adjusted_manifest" =>
                        v = [raw |-> files["raw"], factors |-> files["factors"],
                             adjusted |-> files["adjusted"]])
  <2>1. ASSUME NEW v
        PROVE  [proc[p] EXCEPT !.at = "open", !.value = v]
                 = [proc[p] EXCEPT !.at = "open", !.value = v, !.factors = proc[p].factors]
    BY <1>1 DEF Invocations
  <2>2. CASE FetchRaw(p) \/ FetchDefinitions(p)
    <3>1. PICK v : proc' = [proc EXCEPT ![p] = [@ EXCEPT !.at = "open", !.value = v]]
      BY <2>2 DEF FetchRaw, FetchDefinitions, Makes
    <3>2. proc[p].name \in {"raw", "definitions"}
      BY <2>2 DEF FetchRaw, FetchDefinitions, Preparing
    <3>3. proc' = [proc EXCEPT
            ![p] = [@ EXCEPT !.at = "open", !.value = v, !.factors = proc[p].factors]]
      BY <2>1, <3>1
    <3> QED
      BY <3>2, <3>3
  <2>3. CASE RawManifest(p)
    BY <2>1, <2>3 DEF RawManifest, Preparing, Makes
  <2>4. CASE FetchFactors(p)
    BY <2>4 DEF FetchFactors, Preparing
  <2>5. CASE Adjust(p)
    <3> DEFINE v == [raw |-> files["raw"], factors |-> proc[p].factors]
    <3>1. proc' = [proc EXCEPT ![p] = [@ EXCEPT !.at = "open", !.value = v]]
      BY <2>5 DEF Adjust, Makes
    <3>2. proc[p].name = "adjusted"
      BY <2>5 DEF Adjust, Preparing
    <3>3. proc' = [proc EXCEPT
            ![p] = [@ EXCEPT !.at = "open", !.value = v, !.factors = proc[p].factors]]
      BY <2>1, <3>1
    <3> QED
      BY <3>2, <3>3
  <2>6. CASE AdjustedManifest(p)
    BY <2>1, <2>6 DEF AdjustedManifest, Preparing, Makes
  <2> QED
    BY <2>2, <2>3, <2>4, <2>5, <2>6
<1>4. /\ proc'[p].at = "open" /\ proc'[p].name = proc[p].name /\ proc'[p].cfg = proc[p].cfg
      /\ proc'[p].value = v /\ proc'[p].factors = f /\ proc'[p].defining = proc[p].defining
  BY <1>1, <1>3 DEF Invocations
<1>5. RawReady(proc[p])'
  BY <1>1, <1>3, <1>4 DEF Ready, RawReady, Making, Wrote, Writing, RawValid, Readable
<1>6. DefinitionsReady(proc[p])'
  BY <1>1, <1>4 DEF Ready, DefinitionsReady, Making, Writing
<1>7. AdjustedReady(proc[p])'
  BY <1>1, <1>3, <1>4 DEF Ready, AdjustedReady, AdjustedFits, Making, Wrote, Writing
<1> QED
  BY <1>2, <1>5, <1>6, <1>7 DEF Prepared, Ready

LEMMA ReuseReady ==
  ASSUME ServeInv, NEW p \in Procs, \A q \in Procs : q = p, ReuseFactors(p)
  PROVE  Prepared'
<1>1. /\ DOMAIN proc = Procs /\ proc[p] \in Invocations /\ UNCHANGED files
      /\ proc[p].at = "prepare" /\ proc[p].name = "factors"
      /\ Ready(proc[p]) /\ BindingsTruthful
  BY DEF ServeInv, CacheInv, TypeOK, Fits, Prepared, Preparing, ReuseFactors
<1>2. BindingsTruthful'
  BY <1>1 DEF BindingsTruthful, Binds
<1>3. /\ proc'[p].at = "prepare" /\ proc'[p].name = "adjusted" /\ proc'[p].cfg = proc[p].cfg
      /\ proc'[p].factors = files["factors"].value /\ proc'[p].defining = proc[p].defining
  BY <1>1 DEF Invocations, ReuseFactors
<1>4. RawReady(proc[p])'
  BY <1>1, <1>3 DEF Ready, RawReady, Making, Wrote, Writing, RawValid, Readable
<1>5. DefinitionsReady(proc[p])'
  BY <1>1, <1>3 DEF Ready, DefinitionsReady, Making, Writing
<1>6. AdjustedReady(proc[p])'
  BY <1>1, <1>3 DEF AdjustedReady, Making, Wrote, Writing
<1> QED
  BY <1>2, <1>4, <1>5, <1>6 DEF Prepared, Ready

\* Until the rename, only the file in the making may go.
LEMMA WriteReady ==
  ASSUME ServeInv, NEW p \in Procs, \A q \in Procs : q = p, Open(p) \/ Fill(p) \/ Unlink(p)
  PROVE  Prepared'
<1>1. /\ DOMAIN proc = Procs /\ proc[p] \in Invocations /\ DOMAIN files = Names
      /\ Prepared /\ FilledFirst
  BY DEF ServeInv, CacheInv, Published, TypeOK, AreFiles, Fits
<1>2. PICK at \in Writing, h \in {"none", "temp", "final"} :
        proc'[p] = [proc[p] EXCEPT !.at = at, !.handle = h]
  <2>1. CASE Open(p)
    BY <2>1, AloneMoves DEF Open, Writing
  <2>2. CASE Fill(p)
    <3>1. proc'[p] = [proc[p] EXCEPT !.at = "unlink", !.name = proc[p].name, !.handle = "none"]
      BY <1>1, <2>2 DEF Fill, Goes
    <3>2. proc'[p] = [proc[p] EXCEPT !.at = "unlink", !.handle = "none"]
      BY <1>1, <3>1 DEF Invocations
    <3> QED
      BY <3>2 DEF Writing
  <2>3. CASE Unlink(p)
    <3>1. proc'[p] = [proc[p] EXCEPT !.at = "rename"]
      BY <2>3, AloneMoves DEF Unlink
    <3>2. proc'[p] = [proc[p] EXCEPT !.at = "rename", !.handle = proc[p].handle]
      BY <1>1, <3>1 DEF Invocations
    <3> QED
      BY <1>1, <3>2 DEF Writing, Invocations
  <2> QED
    BY <2>1, <2>2, <2>3
<1>3. SameWork(proc[p], proc'[p])
  BY <1>1, <1>2 DEF SameWork, Writing, Invocations, Open, Fill, Unlink
<1>4. /\ \A n \in Names \ {proc[p].name} : files'[n] = files[n]
      /\ files'[proc[p].name] \in {files[proc[p].name], Nothing}
  BY <1>1 DEF Open, Fill, Unlink, FilledFirst, Invocations
<1> QED
  BY <1>1, <1>3, <1>4, WritingKeeps

\* The rename publishes what was made, and the next file follows.
LEMMA PublishReady ==
  ASSUME ServeInv, NEW p \in Procs, \A q \in Procs : q = p, Publish(p)
  PROVE  Prepared'
<1> DEFINE name == proc[p].name
           i == proc[p]
           new == File(i.value, TRUE)
<1>1. /\ i \in Invocations /\ name \in Names /\ DOMAIN files = Names
      /\ i.at = "rename" /\ Published /\ Ready(i) /\ BindingsTruthful /\ new # Nothing
      /\ files' = [files EXCEPT ![name] = new]
      /\ Wrote(i, name) /\ Making(i, {name})
  <2>1. /\ i \in Invocations /\ name \in Names /\ DOMAIN files = Names
        /\ i.at = "rename" /\ Published /\ Ready(i) /\ BindingsTruthful
    BY DEF ServeInv, CacheInv, TypeOK, Fits, AreFiles, Invocations, Publish, Prepared
  <2>2. files' = [files EXCEPT ![name] = new] /\ new # Nothing
    BY <2>1 DEF Publish, Published, FilledFirst
  <2> QED
    BY <2>1, <2>2 DEF Wrote, Making, Writing
<1>2. proc'[p] = Onward(i, name)
  BY AloneMoves DEF Publish
<1>3. /\ proc'[p].cfg = i.cfg /\ proc'[p].factors = i.factors /\ proc'[p].defining = i.defining
      /\ \/ After(i, name) = "serve" /\ proc'[p].at = "serve"
         \/ /\ After(i, name) # "serve" /\ proc'[p].at = "prepare"
            /\ proc'[p].name = After(i, name)
  BY <1>1, <1>2, OnwardFields
<1>4. /\ name = "raw" => After(i, name) = "raw_manifest"
      /\ name = "raw_manifest" /\ i.defining => After(i, name) = "definitions"
      /\ (name = "raw_manifest" /\ ~i.defining) \/ name = "definitions" =>
           After(i, name) = IF i.cfg.adjust THEN "factors" ELSE "serve"
      /\ name = "factors" => After(i, name) = "adjusted"
      /\ name = "adjusted" => After(i, name) = "adjusted_manifest"
      /\ name = "adjusted_manifest" => After(i, name) = "serve"
  BY AfterIs
<1>5. BindingsTruthful'
  <2>1. CASE name = "adjusted_manifest"
    <3>1. Binds(i.value)
      BY <1>1, <2>1 DEF Ready, AdjustedReady, AdjustedFits, Binds
    <3>2. files'["adjusted_manifest"].value = i.value
      BY <1>1, <2>1 DEF File
    <3> QED
      BY <3>1, <3>2 DEF BindingsTruthful, Binds
  <2>2. CASE name # "adjusted_manifest"
    <3>1. files'["adjusted_manifest"] = files["adjusted_manifest"]
      BY <1>1, <2>2 DEF Names
    <3> QED
      BY <1>1, <3>1 DEF BindingsTruthful, Binds
  <2> QED
    BY <2>1, <2>2
<1>6. RawReady(proc[p])'
  BY <1>1, <1>3, <1>4 DEF Ready, RawReady, Making, Wrote, Writing, RawValid, Readable, File, Names
<1>7. DefinitionsReady(proc[p])'
  BY <1>1, <1>3, <1>4 DEF Ready, DefinitionsReady, Making, Writing, Names
<1>8. AdjustedReady(proc[p])'
  BY <1>1, <1>3, <1>4 DEF Ready, AdjustedReady, AdjustedFits, Making, Wrote, Writing, File, Names
<1> QED
  BY <1>5, <1>6, <1>7, <1>8 DEF Prepared, Ready

\* In a cache that one invocation at a time works on, each finds or makes its files
\* in the order in which they depend on one another.
THEOREM ServeInvHolds == Alone /\ Spec => []ServeInv
<1> SUFFICES ASSUME Alone PROVE Spec => []ServeInv
  OBVIOUS
<1>1. Init => Prepared
  <2> SUFFICES ASSUME Init PROVE Prepared
    OBVIOUS
  <2>1. BindingsTruthful
    BY DEF Init, BindingsTruthful, Names
  <2>2. \A p \in Procs : proc[p].at = "idle"
    BY DEF Init, Idle
  <2>3. \A p \in Procs : Ready(proc[p])
    BY <2>2 DEF Ready, RawReady, DefinitionsReady, AdjustedReady, Making, Wrote, Writing
  <2> QED
    BY <2>1, <2>3 DEF Prepared
<1>2. CacheInv /\ Prepared /\ [Next]_vars => Prepared'
  <2> SUFFICES ASSUME ServeInv, [Next]_vars PROVE Prepared'
    BY DEF ServeInv
  <2>1. CASE \E p \in Procs : Step(p)
    <3>1. PICK p \in Procs : Step(p)
      BY <2>1
    <3>2. \A q \in Procs : q = p
      BY DEF Alone
    <3>3. CASE (\E c \in Configs : Begin(p, c)) \/ End(p) \/ EndEmpty(p)
      <4>1. DOMAIN proc = Procs /\ Prepared
        BY DEF ServeInv, CacheInv, TypeOK
      <4>2. UNCHANGED files /\ proc'[p].at \in {"idle", "validate"}
        <5>1. CASE \E c \in Configs : Begin(p, c)
          BY <4>1, <5>1 DEF Begin, Idle
        <5>2. CASE End(p)
          BY <4>1, <5>2 DEF End, Idle
        <5>3. CASE EndEmpty(p)
          <6>1. proc'[p] = Idle
            BY <3>2, <5>3, AloneMoves DEF EndEmpty
          <6> QED
            BY <5>3, <6>1 DEF EndEmpty, Idle
        <5> QED
          BY <3>3, <5>1, <5>2, <5>3
      <4> QED
        BY <3>2, <4>1, <4>2, RestReady
    <3> QED
      BY <3>1, <3>2, <3>3, ValidateReady, InspectReady, MakingReady, ReuseReady, WriteReady,
         PublishReady DEF Step
  <2>2. CASE UNCHANGED vars
    <3>1. UNCHANGED <<files, proc>>
      BY <2>2 DEF vars
    <3>2. BindingsTruthful'
      BY <3>1 DEF ServeInv, Prepared, BindingsTruthful, Binds
    <3>3. ASSUME NEW p \in Procs PROVE Ready(proc[p])'
      BY <3>1 DEF ServeInv, Prepared, Ready, RawReady, DefinitionsReady, AdjustedReady,
         AdjustedFits, Making, Wrote, RawValid, Readable
    <3> QED
      BY <3>2, <3>3 DEF Prepared
  <2> QED
    BY <2>1, <2>2 DEF Next, Rest
<1> QED
  BY <1>1, <1>2, CacheInvHolds, PTL DEF Spec, ServeInv

\* ensure_cached_csv: what an invocation hands to the backtest is whole and its own
\* request's, the definitions it asked for are there, and an adjusted file was made
\* from the raw data and the factors that lie beside it, whatever earlier invocations
\* that were cut off have left, as long as invocations do not overlap.
THEOREM ServedIsOwn == Alone /\ Spec => []ServedIsOurs
<1>1. ServeInv => ServedIsOurs
  <2> SUFFICES ASSUME ServeInv, NEW p \in Procs, proc[p].at = "serve"
               PROVE  /\ RawValid(proc[p].cfg.request)
                      /\ PublishedIsWhole
                      /\ files["raw"].value.request = proc[p].cfg.request
                      /\ proc[p].cfg.definitions => Readable("definitions")
                      /\ proc[p].cfg.adjust => AdjustedFits
    BY DEF ServedIsOurs, AdjustedFits
  <2>1. PublishedIsWhole /\ ManifestsTruthful /\ Ready(proc[p])
    BY DEF ServeInv, CacheInv, Published, Prepared
  <2>2. RawValid(proc[p].cfg.request)
    BY <2>1 DEF Ready, RawReady
  <2>3. files["raw"].value.request = proc[p].cfg.request
    BY <2>1, <2>2 DEF RawValid, Readable, ManifestsTruthful, Truthful
  <2>4. proc[p].cfg.definitions => Readable("definitions")
    BY <2>1 DEF Ready, DefinitionsReady, Readable, PublishedIsWhole, Names
  <2>5. proc[p].cfg.adjust => AdjustedFits
    BY <2>1 DEF Ready, AdjustedReady
  <2> QED
    BY <2>1, <2>2, <2>3, <2>4, <2>5
<1> QED
  BY <1>1, ServeInvHolds, PTL
=============================================================================
