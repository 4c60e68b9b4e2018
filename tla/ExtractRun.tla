----------------------------- MODULE ExtractRun -----------------------------
(***************************************************************************)
(* One extraction at the level of its processes: the audit that spawned     *)
(* `cargo rustc` and reads its two pipes, Cargo, which starts the audit's   *)
(* wrapper for several units at a time and passes on what they print, and   *)
(* the wrappers, which scan a unit and then run the real rustc on it.       *)
(* RufAudit takes an extraction as one step; this module is the detail      *)
(* behind that step.                                                        *)
(***************************************************************************)
EXTENDS Extraction

CONSTANTS
    Worlds,       \* as in RufAudit
    NumJobs,      \* how many units Cargo works on at a time (-j)
    PipeSize,     \* how many lines a pipe holds
    Verbosity     \* the values --verbose may have

ASSUME WorldsAssumption == \A w \in Worlds : IsWorld(w)
ASSUME SizesAssumption ==
    NumJobs \in Nat \ {0} /\ PipeSize \in Nat \ {0} /\ Verbosity \subseteq BOOLEAN

VARIABLES
    world, lock,
    verbose,     \* BuildConfig.verbose
    before,      \* the units fresh in target/ when Cargo started
    built,       \* the units rustc has compiled
    unit,        \* how far each unit is
    messages,    \* what the wrappers printed and Cargo has not passed on
    cargo,       \* "running", or its exit status, "ok" or "failed"
    out, err,    \* Cargo's stdout pipe, and how many lines its stderr pipe holds
    reader,      \* what extract reads: "stderr" alone, all "output", or it has "parsed"
    infos        \* the CheckInfos it has read

setting == <<world, lock, verbose, before>>
vars == <<setting, built, unit, messages, cargo, out, err, reader, infos>>

IsBuild(u) == u[2] = {}

\* The units whose results a unit is compiled from.
LibInputs(u) == {v \in DOMAIN unit \ {u} : ~ IsBuild(u) /\ ~ IsBuild(v) /\ v[1] \in u[2]}

\* Mutant: Cargo runs the wrapper for fresh units too.
InitNoneFresh ==
    /\ world \in Worlds /\ lock \in Locks(world) /\ verbose \in Verbosity
    /\ before \in UNION {Stopped(world, L, {}) : L \in Locks(world)}
    /\ built = before
    /\ unit = [u \in Units(world, lock) |-> "waiting"]
    /\ messages = <<>> /\ cargo = "running" /\ out = <<>> /\ err = 0
    /\ reader = IF verbose THEN "stderr" ELSE "output"
    /\ infos = {}

Init ==
    /\ world \in Worlds /\ lock \in Locks(world) /\ verbose \in Verbosity
    \* target/ holds what an earlier extraction, ended or not, left there.
    /\ before \in UNION {Stopped(world, L, {}) : L \in Locks(world)}
    /\ built = before
    /\ unit = [u \in Units(world, lock) |-> IF u \in before THEN "ran" ELSE "waiting"]
    /\ messages = <<>> /\ cargo = "running" /\ out = <<>> /\ err = 0
    /\ reader = IF verbose THEN "stderr" ELSE "output"
    /\ infos = {}
-----------------------------------------------------------------------------
\* Cargo.

\* Mutant: a unit whose wrapper failed keeps its place.
ActiveWithFailed == {u \in DOMAIN unit : unit[u] \in {"scanning", "compiling", "failed"}}

Active == {u \in DOMAIN unit : unit[u] \in {"scanning", "compiling"}}

\* A unit is ready when rustc has ended on its inputs (it need not have
\* succeeded, Cargo cannot tell) and its build script could be run.
Ready(u) ==
    /\ unit[u] = "waiting"
    /\ \A v \in LibInputs(u) : unit[v] = "ran"
    /\ ~ IsBuild(u) /\ world.build[u[1]] # {} =>
         BuildUnit(u[1]) \in built /\ u[1] \notin world.norun

\* Cargo says on stderr which unit it compiles, and runs the wrapper for it.
StartUnit(u) ==
    /\ cargo = "running" /\ Ready(u)
    /\ Cardinality(Active) < NumJobs /\ err < PipeSize
    /\ unit' = [unit EXCEPT ![u] = "scanning"] /\ err' = err + 1
    /\ UNCHANGED <<setting, built, messages, cargo, out, reader, infos>>

PassOn ==
    /\ messages # <<>> /\ Len(out) < PipeSize
    /\ out' = Append(out, Head(messages)) /\ messages' = Tail(messages)
    /\ UNCHANGED <<setting, built, unit, cargo, err, reader, infos>>

\* Cargo succeeds when it is done with all units, fresh or not.
CargoExit ==
    /\ cargo = "running" /\ messages = <<>>
    /\ Active = {} /\ ~ \E u \in DOMAIN unit : Ready(u)
    /\ cargo' = IF \A u \in DOMAIN unit : unit[u] = "ran" THEN "ok" ELSE "failed"
    /\ UNCHANGED <<setting, built, unit, messages, out, err, reader, infos>>

\* Or it fails before it starts a unit: it cannot fetch a package, or the
\* wrapper fails when Cargo asks it for the version of rustc.
CargoAborts ==
    /\ cargo = "running" /\ err < PipeSize
    /\ \A u \in DOMAIN unit \ before : unit[u] = "waiting"
    /\ cargo' = "failed" /\ err' = err + 1
    /\ UNCHANGED <<setting, built, unit, messages, out, reader, infos>>
-----------------------------------------------------------------------------
\* The wrapper.

\* What the scanner prints for a unit.
Report(u) == IF IsBuild(u) THEN BuildCheckInfo(world, u[1]) ELSE CheckInfo(world, u[1])

\* Mutant: a wrapper that failed is started once more.
WrapperRetried(u) ==
    /\ unit[u] = "scanning" /\ err < PipeSize
    /\ u[1] \in world.flaky \/ (~ IsBuild(u) /\ u[1] \in world.broken)
    /\ unit' = [unit EXCEPT ![u] = "waiting"] /\ err' = err + 1
    /\ UNCHANGED <<setting, built, messages, cargo, out, reader, infos>>

\* The wrapper may fail before anything is printed: it cannot build its
\* configuration, or spawn the scanner; or the scanner cannot parse the unit.
WrapperFails(u) ==
    /\ unit[u] = "scanning" /\ err < PipeSize
    /\ u[1] \in world.flaky \/ (~ IsBuild(u) /\ u[1] \in world.broken)
    /\ unit' = [unit EXCEPT ![u] = "failed"] /\ err' = err + 1
    /\ UNCHANGED <<setting, built, messages, cargo, out, reader, infos>>

\* Mutant: real rustc is run first, and only what it accepts is scanned.
ScanUnitIfAccepted(u) ==
    /\ unit[u] = "scanning"
    /\ unit' = [unit EXCEPT ![u] = "compiling"]
    /\ messages' = IF u[1] \in world.refused THEN messages
                   ELSE Append(messages, Report(u))
    /\ UNCHANGED <<setting, built, cargo, out, err, reader, infos>>

ScanUnit(u) ==
    /\ unit[u] = "scanning"
    /\ IsBuild(u) \/ u[1] \notin world.broken
    /\ unit' = [unit EXCEPT ![u] = "compiling"]
    /\ messages' = Append(messages, Report(u))
    /\ UNCHANGED <<setting, built, cargo, out, err, reader, infos>>

Compiles(u) ==
    IF IsBuild(u) THEN u[1] \notin world.noscript
    ELSE u[1] \notin world.refused /\ LibInputs(u) \subseteq built

\* Mutant: the failure of real rustc is the wrapper's.
RustcUnitUnblocked(u) ==
    /\ unit[u] = "compiling"
    /\ unit' = [unit EXCEPT ![u] = IF Compiles(u) THEN "ran" ELSE "failed"]
    /\ built' = IF Compiles(u) THEN built \cup {u} ELSE built
    /\ UNCHANGED <<setting, messages, cargo, out, err, reader, infos>>

\* Mutant: a unit is fresh although rustc failed on it.
RustcUnitFresh(u) ==
    /\ unit[u] = "compiling"
    /\ unit' = [unit EXCEPT ![u] = "ran"] /\ built' = built \cup {u}
    /\ UNCHANGED <<setting, messages, cargo, out, err, reader, infos>>

\* Then the real rustc, whose failure is blocked: what it would have written is
\* missing, but the wrapper succeeds and Cargo goes on.
RustcUnit(u) ==
    /\ unit[u] = "compiling"
    /\ unit' = [unit EXCEPT ![u] = "ran"]
    /\ built' = IF Compiles(u) THEN built \cup {u} ELSE built
    /\ UNCHANGED <<setting, messages, cargo, out, err, reader, infos>>

\* Or the wrapper fails after the report is printed: real rustc cannot be run,
\* or the wrapper is killed meanwhile.
RustcFails(u) ==
    /\ unit[u] = "compiling" /\ u[1] \in world.flaky /\ err < PipeSize
    /\ unit' = [unit EXCEPT ![u] = "aborted"] /\ err' = err + 1
    /\ UNCHANGED <<setting, built, messages, cargo, out, reader, infos>>
-----------------------------------------------------------------------------
\* extract.

\* Mutant: stderr is left alone without --verbose.
ReadStderrVerbose ==
    /\ reader = "stderr" /\ err > 0
    /\ err' = err - 1
    /\ UNCHANGED <<setting, built, unit, messages, cargo, out, reader, infos>>

\* stderr is read to its end before anything else with --verbose, and by
\* wait_with_output, together with stdout, without.
ReadStderr ==
    /\ reader \in {"stderr", "output"} /\ err > 0
    /\ err' = err - 1
    /\ UNCHANGED <<setting, built, unit, messages, cargo, out, reader, infos>>

StderrEnds ==
    /\ reader = "stderr" /\ err = 0 /\ cargo # "running"
    /\ reader' = "output"
    /\ UNCHANGED <<setting, built, unit, messages, cargo, out, err, infos>>

ReadStdout ==
    /\ reader = "output" /\ out # <<>>
    /\ infos' = infos \cup {Head(out)} /\ out' = Tail(out)
    /\ UNCHANGED <<setting, built, unit, messages, cargo, err, reader>>

\* Mutant: the pipes are taken as read once they are empty.
ParseEarly ==
    /\ reader = "output" /\ out = <<>> /\ err = 0
    /\ reader' = "parsed"
    /\ UNCHANGED <<setting, built, unit, messages, cargo, out, err, infos>>

\* wait_with_output returns, and what was read is parsed, whatever Cargo's exit
\* status: an incomplete extraction is only warned of.
Parse ==
    /\ reader = "output" /\ cargo # "running" /\ out = <<>> /\ err = 0
    /\ reader' = "parsed"
    /\ UNCHANGED <<setting, built, unit, messages, cargo, out, err, infos>>

Next ==
    \/ \E u \in DOMAIN unit :
         StartUnit(u) \/ WrapperFails(u) \/ ScanUnit(u) \/ RustcUnit(u) \/ RustcFails(u)
    \/ PassOn \/ CargoExit \/ CargoAborts
    \/ ReadStderr \/ StderrEnds \/ ReadStdout \/ Parse

\* Every process that can go on does so, and each goes on finitely often, so
\* that fairness of the whole is fairness to each of them.
Spec == Init /\ [][Next]_vars /\ WF_vars(Next)
-----------------------------------------------------------------------------
\* Every variable has its type, and no pipe holds more than it can.
TypeOK ==
    /\ world \in Worlds /\ lock \in Locks(world) /\ verbose \in Verbosity
    /\ {before, built} \subseteq SUBSET (Packages \X SUBSET Packages)
    /\ unit \in [Units(world, lock) ->
                    {"waiting", "scanning", "compiling", "ran", "failed", "aborted"}]
    /\ {messages, out} \subseteq Seq(CheckInfos) /\ Len(out) <= PipeSize
    /\ cargo \in {"running", "ok", "failed"} /\ err \in 0 .. PipeSize
    /\ reader \in {"stderr", "output", "parsed"} /\ infos \subseteq CheckInfos

\* What extract returns, once it does.
Answer ==
    IF reader = "parsed"
    THEN {[infos |-> infos, fresh |-> built, incomplete |-> cargo = "failed"]}
    ELSE {}

\* Whatever the order the units are scanned in, however many at a time, and
\* wherever one of them fails: what extract reads, what it leaves fresh, and
\* whether it warns is one of the outcomes RufAudit's one step has.
ExtractExact == \A answer \in Answer : answer \in Extractions(world, lock, before)

\* Wherever the extraction is interrupted, it leaves in target/ what Stopped
\* says: a library is not fresh without those it was compiled from.
InterruptedFresh == built \in Stopped(world, lock, before)

\* A CheckInfo is not lost between the wrapper that printed it and extract,
\* though rustc or the wrapper fails on the unit afterwards: Cargo never counts
\* as done with a unit that it ran and that is not reported or about to be.
NothingLost ==
    \A u \in DOMAIN unit \ before :
        unit[u] \in {"compiling", "ran", "aborted"} =>
            Report(u) \in infos \cup {out[i] : i \in DOMAIN out}
                                \cup {messages[i] : i \in DOMAIN messages}

\* An extraction ends, whether it prints the details of the build (--verbose)
\* or not.
ExtractEnds == <>(reader = "parsed")

\* Cargo's stdout pipe holds all that is reported.
Fits ==
    LET failed == Unscannable(world, lock) IN
    Cardinality(Scanned(world, lock, before, failed))
        + Cardinality(ScannedBuilds(world, lock, before, failed)) <= PipeSize

\* Cargo cannot go on: all it could start has ended, and what was printed does
\* not fit into the stdout pipe, which extract does not read before Cargo closes
\* stderr.
Stuck ==
    /\ reader = "stderr" /\ err = 0 /\ cargo = "running"
    /\ Active = {} /\ ~ \E u \in DOMAIN unit : Ready(u)
    /\ messages # <<>> /\ Len(out) = PipeSize

\* Audit and Cargo wait for each other with --verbose only, and only when Cargo's
\* stdout pipe cannot hold all that is reported.
NotStuckIfFits == ~ verbose \/ Fits => ~ Stuck

\* One of the processes has a step to take, and room to say what it has to say:
\* the conditions of the actions above, faults and aborts left aside.
CanGoOn ==
    \/ \E u \in DOMAIN unit :
         \/ cargo = "running" /\ Ready(u) /\ Cardinality(Active) < NumJobs /\ err < PipeSize
         \/ unit[u] = "scanning" /\ (IsBuild(u) \/ u[1] \notin world.broken \/ err < PipeSize)
         \/ unit[u] = "compiling"
    \/ messages # <<>> /\ Len(out) < PipeSize
    \/ cargo = "running" /\ messages = <<>> /\ Active = {} /\ ~ \E u \in DOMAIN unit : Ready(u)
    \/ reader = "stderr" /\ (err > 0 \/ cargo # "running")
    \/ reader = "output" /\ (err > 0 \/ out # <<>> \/ cargo # "running")

\* Nothing else than that keeps an extraction from its end.
StuckOnStdout == reader = "parsed" \/ Stuck \/ CanGoOn

\* The steps an extraction is from its end, at most.
StepsLeft ==
    LET Count(s) == Cardinality({u \in DOMAIN unit : unit[u] = s}) IN
    7 * Count("waiting") + 5 * Count("scanning") + 2 * Count("compiling")
        + 2 * Len(messages) + Len(out) + err
        + (IF cargo = "running" THEN 2 ELSE 0)
        + (CASE reader = "stderr" -> 2 [] reader = "output" -> 1 [] reader = "parsed" -> 0)

\* Every step of any of the processes brings the extraction nearer to its end:
\* none of them goes on for ever, or does again what was done.
Advances == [][StepsLeft' < StepsLeft]_vars

\* An extraction ends without --verbose, and with it as long as Cargo's stdout
\* pipe holds all that is reported.
ExtractEndsIfItFits == ~ verbose \/ Fits => <>(reader = "parsed")

Promise == INSTANCE ExtractPromise WITH target <- built, answer <- Answer

\* An extraction is to the audit what ExtractPromise says.
KeepsPromise == Promise!Spec
=============================================================================
