--------------------------- MODULE DatabentoCache ---------------------------
(***************************************************************************)
(* data/databento.rs: ensure_cached_csv and the files it leaves for the    *)
(* invocations that follow.  Every file is published alike: create a       *)
(* temporary file of a fixed name, fill it, unlink the old file, rename.   *)
(* A data file counts when its manifest names the request and its          *)
(* checksum; factors and definitions count when they are there.            *)
(*                                                                         *)
(* The requests of the model share one cache name (the name leaves out the *)
(* symbology, and maps several symbols to one).  A crash, an I/O error, a  *)
(* failed download and a declined cost all end an invocation where it      *)
(* stands.                                                                 *)
(***************************************************************************)
EXTENDS Naturals

CONSTANTS
  Procs,     \* invocations that may run at the same time
  Requests,  \* what may be asked of the service under one cache name
  Versions,  \* what the service may answer to one request over time
  Configs,   \* command lines
  Nothing,   \* the absent file or value
  MaxRuns    \* bound: invocations

ASSUME ConfigsAssumption ==
  Configs \subseteq [request : Requests, adjust : BOOLEAN, refresh : BOOLEAN,
                     definitions : BOOLEAN, estimate : BOOLEAN]

VARIABLES
  files,     \* published files
  temps,     \* temporary files
  proc,      \* the invocations
  runs       \* invocations begun

vars == <<files, temps, proc, runs>>

\* The files of one cache name: the raw data and its manifest, the definitions,
\* the adjustment factors, the adjusted data and its manifest.
Names == {"raw", "raw_manifest", "definitions", "factors", "adjusted", "adjusted_manifest"}

\* What a file holds, and whether all of it is there.
File(value, whole) == [value |-> value, whole |-> whole]

\* An invocation: the step it is at, the file it makes, what it puts there, the
\* file its handle leads to, the factors it has in memory, and whether it is to fetch
\* definitions.
Idle == [at |-> "idle", cfg |-> Nothing, name |-> "raw", value |-> Nothing, handle |-> "none",
         factors |-> Nothing, defining |-> FALSE]

Init ==
  /\ files = [n \in Names |-> Nothing]
  /\ temps = [n \in Names |-> Nothing]
  /\ proc = [p \in Procs |-> Idle]
  /\ runs = 0

-----------------------------------------------------------------------------
Readable(name) == files[name] # Nothing /\ files[name].whole

\* Mutant of RawValid: the manifest's checksum is not compared.
RawValidUnhashed(request) ==
  /\ files["raw"] # Nothing
  /\ Readable("raw_manifest")
  /\ files["raw_manifest"].value.request = request

\* cached_request_is_valid.  A checksum stands for the file it was computed from.
RawValid(request) ==
  /\ files["raw"] # Nothing
  /\ Readable("raw_manifest")
  /\ files["raw_manifest"].value.request = request
  /\ files["raw_manifest"].value.raw = files["raw"]

\* Mutant of AdjustedValid: the raw checksum is not compared.
AdjustedValidAlone ==
  /\ files["adjusted"] # Nothing /\ files["factors"] # Nothing
  /\ Readable("adjusted_manifest")
  /\ files["adjusted_manifest"].value.factors = files["factors"]
  /\ files["adjusted_manifest"].value.adjusted = files["adjusted"]

\* adjusted_request_is_valid.
AdjustedValid ==
  /\ files["adjusted"] # Nothing /\ files["factors"] # Nothing
  /\ Readable("adjusted_manifest")
  /\ files["adjusted_manifest"].value =
       [raw |-> files["raw"], factors |-> files["factors"], adjusted |-> files["adjusted"]]

Begin(p, c) ==
  /\ proc[p].at = "idle"
  /\ runs < MaxRuns
  /\ runs' = runs + 1
  /\ proc' = [proc EXCEPT ![p] = [Idle EXCEPT !.at = "validate", !.cfg = c]]
  /\ UNCHANGED <<files, temps>>

Goes(p, at, name) ==
  proc' = [proc EXCEPT ![p] = [@ EXCEPT !.at = at, !.name = name, !.handle = "none"]]

\* What comes after the file `name` in the invocation i.
After(i, name) ==
  CASE name = "raw"                                -> "raw_manifest"
    [] name = "raw_manifest" /\ i.defining         -> "definitions"
    [] /\ name = "definitions" \/ (name = "raw_manifest" /\ ~i.defining)
       /\ i.cfg.adjust                              -> "factors"
    [] name = "factors"                            -> "adjusted"
    [] name = "adjusted"                           -> "adjusted_manifest"
    [] OTHER                                       -> "serve"

Served(cfg) == IF cfg.adjust THEN "adjusted" ELSE "raw"

\* The invocation i, done with the file `name`.
Onward(i, name) ==
  LET next == After(i, name)
  IN  [i EXCEPT !.at = IF next = "serve" THEN "serve" ELSE "prepare",
                !.name = IF next = "serve" THEN Served(i.cfg) ELSE next]

\* ensure_cached_csv up to the first request.
Validate(p) ==
  LET cfg     == proc[p].cfg
      raw     == ~cfg.refresh /\ RawValid(cfg.request)
      missing == files["definitions"] = Nothing
      i       == [proc[p] EXCEPT !.defining = cfg.definitions /\ (cfg.refresh \/ missing)]
      reuse   == /\ raw /\ cfg.adjust /\ ~cfg.estimate /\ AdjustedValid
                 /\ cfg.definitions => ~missing
  IN  /\ proc[p].at = "validate"
      /\ \/ reuse /\ Goes(p, "serve", "adjusted")
         \/ (~raw \/ cfg.estimate) /\ proc' = [proc EXCEPT ![p] = [i EXCEPT !.at = "inspect"]]
         \/ /\ raw /\ ~cfg.estimate /\ ~reuse
            /\ proc' = [proc EXCEPT ![p] = Onward(i, "raw_manifest")]
      /\ UNCHANGED <<files, temps, runs>>

\* inspect_request and confirm_cost.  An estimate ends here; its file is read by
\* nobody.
Inspect(p) ==
  /\ proc[p].at = "inspect"
  /\ proc' = [proc EXCEPT ![p] =
       IF proc[p].cfg.estimate THEN Idle
       ELSE [proc[p] EXCEPT !.at = "prepare", !.name = "raw"]]
  /\ UNCHANGED <<files, temps, runs>>

-----------------------------------------------------------------------------
\* What is to be written.

Preparing(p, name) == proc[p].at = "prepare" /\ proc[p].name = name

Makes(p, value) == proc' = [proc EXCEPT ![p] = [@ EXCEPT !.at = "open", !.value = value]]

Answer(request, version) == [request |-> request, version |-> version]

\* fetch_to_cache.
FetchRaw(p) ==
  /\ Preparing(p, "raw")
  /\ \E v \in Versions : Makes(p, Answer(proc[p].cfg.request, v))
  /\ UNCHANGED <<files, temps, runs>>

\* cache_manifest.
RawManifest(p) ==
  /\ Preparing(p, "raw_manifest")
  /\ files["raw"] # Nothing
  /\ Makes(p, [request |-> proc[p].cfg.request, raw |-> files["raw"]])
  /\ UNCHANGED <<files, temps, runs>>

\* fetch_definitions.
FetchDefinitions(p) ==
  /\ Preparing(p, "definitions")
  /\ \E v \in Versions : Makes(p, Answer(proc[p].cfg.request, v))
  /\ UNCHANGED <<files, temps, runs>>

\* Factors on disk are used for whatever request, unless a refresh is asked for.
ReuseFactors(p) ==
  /\ Preparing(p, "factors")
  /\ ~proc[p].cfg.refresh /\ Readable("factors")
  /\ proc' = [proc EXCEPT
       ![p] = [@ EXCEPT !.factors = files["factors"].value, !.name = "adjusted"]]
  /\ UNCHANGED <<files, temps, runs>>

FetchFactors(p) ==
  /\ Preparing(p, "factors")
  /\ proc[p].cfg.refresh \/ files["factors"] = Nothing
  /\ \E v \in Versions :
       LET factors == Answer(proc[p].cfg.request, v)
       IN  proc' = [proc EXCEPT
             ![p] = [@ EXCEPT !.at = "open", !.value = factors, !.factors = factors]]
  /\ UNCHANGED <<files, temps, runs>>

\* materialize_adjusted_csv reads the raw file it finds.
Adjust(p) ==
  /\ Preparing(p, "adjusted")
  /\ files["raw"] # Nothing
  /\ Makes(p, [raw |-> files["raw"], factors |-> proc[p].factors])
  /\ UNCHANGED <<files, temps, runs>>

\* adjusted_manifest.
AdjustedManifest(p) ==
  /\ Preparing(p, "adjusted_manifest")
  /\ Nothing \notin {files["raw"], files["factors"], files["adjusted"]}
  /\ Makes(p, [raw |-> files["raw"], factors |-> files["factors"], adjusted |-> files["adjusted"]])
  /\ UNCHANGED <<files, temps, runs>>

-----------------------------------------------------------------------------
\* How it is written: write_json_atomic, and alike for the CSV files.

\* The handles of other invocations that are open on the file `from`.
Others(p, name, from) ==
  {q \in Procs \ {p} : proc[q].at = "fill" /\ proc[q].name = name /\ proc[q].handle = from}

\* Invocation p goes on as `mine`; the handles of `others` now lead to `to`.
Moved(p, mine, others, to) ==
  [q \in Procs |-> IF q = p THEN mine
                   ELSE IF q \in others THEN [proc[q] EXCEPT !.handle = to]
                   ELSE proc[q]]

\* Mutant of Open: the file is created under its final name.
OpenFinal(p) ==
  /\ proc[p].at = "open"
  /\ files' = [files EXCEPT ![proc[p].name] = File(proc[p].value, FALSE)]
  /\ proc' = [proc EXCEPT ![p].at = "fill", ![p].handle = "final"]
  /\ UNCHANGED <<temps, runs>>

\* File::create truncates a temporary file that another invocation is filling:
\* what that one still writes leaves a hole.
Open(p) ==
  LET name == proc[p].name
  IN  /\ proc[p].at = "open"
      /\ temps' = [temps EXCEPT ![name] = File(proc[p].value, FALSE)]
      /\ proc' = Moved(p, [proc[p] EXCEPT !.at = "fill", !.handle = "temp"],
                       Others(p, name, "temp"), "none")
      /\ UNCHANGED <<files, runs>>

Fill(p) ==
  LET name == proc[p].name
      all  == File(proc[p].value, TRUE)
  IN  /\ proc[p].at = "fill"
      /\ files' = IF proc[p].handle = "final" THEN [files EXCEPT ![name] = all] ELSE files
      /\ temps' = IF proc[p].handle = "temp" THEN [temps EXCEPT ![name] = all] ELSE temps
      /\ Goes(p, "unlink", name)
      /\ UNCHANGED runs

\* A handle on an unlinked file leads nowhere.
Unlink(p) ==
  LET name == proc[p].name
  IN  /\ proc[p].at = "unlink"
      /\ files' = [files EXCEPT ![name] = Nothing]
      /\ proc' = Moved(p, [proc[p] EXCEPT !.at = "rename"], Others(p, name, "final"), "none")
      /\ UNCHANGED <<temps, runs>>

\* fs::rename; an open handle follows the file to its new name.
Publish(p) ==
  LET name == proc[p].name
  IN  /\ proc[p].at = "rename" /\ temps[name] # Nothing
      /\ files' = [files EXCEPT ![name] = temps[name]]
      /\ temps' = [temps EXCEPT ![name] = Nothing]
      /\ proc' = Moved(p, Onward(proc[p], name), Others(p, name, "temp"), "final")
      /\ UNCHANGED runs

-----------------------------------------------------------------------------
\* The backtest has read the file, or the invocation ends where it stands.
End(p) ==
  /\ proc[p].at # "idle"
  /\ proc' = [proc EXCEPT ![p] = Idle]
  /\ UNCHANGED <<files, temps, runs>>

\* Zero rows: the temporary file is removed before the error.
EndEmpty(p) ==
  /\ proc[p].at = "fill" /\ proc[p].name = "raw"
  /\ temps' = [temps EXCEPT !["raw"] = Nothing]
  /\ proc' = Moved(p, Idle, Others(p, "raw", "temp"), "none")
  /\ UNCHANGED <<files, runs>>

Step(p) ==
  \/ \E c \in Configs : Begin(p, c)
  \/ Validate(p) \/ Inspect(p)
  \/ FetchRaw(p) \/ RawManifest(p) \/ FetchDefinitions(p)
  \/ ReuseFactors(p) \/ FetchFactors(p) \/ Adjust(p) \/ AdjustedManifest(p)
  \/ Open(p) \/ Fill(p) \/ Unlink(p) \/ Publish(p)
  \/ End(p) \/ EndEmpty(p)

\* The files stay when no invocation runs.
Rest == (\A p \in Procs : proc[p].at = "idle") /\ UNCHANGED vars

Next == (\E p \in Procs : Step(p)) \/ Rest

Spec == Init /\ [][Next]_vars

-----------------------------------------------------------------------------
Writing == {"open", "fill", "unlink", "rename"}

Steps == {"idle", "validate", "inspect", "prepare", "open", "fill", "unlink", "rename", "serve"}

FilesOf(values) == [value : values, whole : BOOLEAN]

Answers   == [request : Requests, version : Versions]
Manifests == [request : Requests, raw : FilesOf(Answers)]
Adjusted  == [raw : FilesOf(Answers), factors : Answers]
Bindings  == [raw : FilesOf(Answers), factors : FilesOf(Answers), adjusted : FilesOf(Adjusted)]

Values(name) ==
  CASE name \in {"raw", "definitions", "factors"} -> Answers
    [] name = "raw_manifest"                      -> Manifests
    [] name = "adjusted"                          -> Adjusted
    [] OTHER                                      -> Bindings

Invocations ==
  [at : Steps, cfg : Configs \cup {Nothing}, name : Names,
   value : Answers \cup Manifests \cup Adjusted \cup Bindings \cup {Nothing},
   handle : {"none", "temp", "final"}, factors : Answers \cup {Nothing},
   defining : BOOLEAN]

\* What is written and what is in memory fits the file in the making.
Fits(i) ==
  /\ i \in Invocations
  /\ i.at # "idle" => i.cfg \in Configs
  /\ i.at \in Writing => i.value \in Values(i.name)
  /\ i.name = "factors" /\ i.at \in Writing => i.factors \in Answers
  /\ i.name = "adjusted" /\ i.at # "serve" => i.factors \in Answers

AreFiles(f) ==
  /\ DOMAIN f = Names
  /\ \A n \in Names : f[n] \in FilesOf(Values(n)) \cup {Nothing}

TypeOK ==
  /\ AreFiles(files) /\ AreFiles(temps)
  /\ DOMAIN proc = Procs /\ \A p \in Procs : Fits(proc[p])
  /\ runs \in Nat

\* Where invocations run one after the other, a crash at any step leaves no
\* file half-written under its final name.
PublishedIsWhole == \A n \in Names : files[n] # Nothing => files[n].whole

\* README.md: legacy, partial or modified cache files are fetched again instead of
\* being treated as complete.
ReuseIsComplete ==
  \A r \in Requests :
    RawValid(r) => files["raw"].whole /\ files["raw"].value.request = r

\* What an invocation hands to the backtest is whole and its own request's, and
\* an adjusted file was made from the raw data and the factors that lie beside it,
\* whatever earlier invocations left behind.  Definitions that were asked for are
\* there.
ServedIsOurs ==
  \A p \in Procs :
    proc[p].at = "serve" =>
      /\ RawValid(proc[p].cfg.request)
      /\ PublishedIsWhole
      /\ files["raw"].value.request = proc[p].cfg.request
      /\ proc[p].cfg.definitions => Readable("definitions")
      /\ proc[p].cfg.adjust =>
           files["adjusted"].value = [raw |-> files["raw"], factors |-> files["factors"].value]
=============================================================================
