----------------------------- MODULE Extraction -----------------------------
(***************************************************************************)
(* Which unstable features an audit sees: the extraction, one `cargo rustc` *)
(* run with the audit as RUSTC_WRAPPER, and the filter that tells which of  *)
(* the features recorded in the database a candidate version would use.     *)
(*                                                                         *)
(* The wrapper prints a CheckInfo only when Cargo runs it.  Cargo does not  *)
(* run it for a fresh unit (compiled before from the same packages), nor    *)
(* for a package compiled from one whose wrapper failed, and it may fail    *)
(* altogether.  The audit goes on with what it has been told, and warns.    *)
(***************************************************************************)
EXTENDS Registry

CONSTANTS
    BuildScript,     \* the crate name every build script is compiled under
    NotJson          \* cfgs whose Rust escape is no JSON escape

ASSUME ExtractionAssumption == BuildScript \in CrateNames /\ NotJson \subseteq Cfgs

CheckInfos == [crate_name : CrateNames, used_rufs : SUBSET Rufs, cfg : SUBSET Cfgs]

\* A compilation unit is fresh when its package was compiled from the same
\* packages; a build script depends on no library of the model.
LibUnit(w, L, p) == <<p, Needs(w, L, p)>>
BuildUnit(p) == <<p, {}>>

Units(w, L) ==
    {LibUnit(w, L, p) : p \in Compiled(w, L)}
        \cup {BuildUnit(p) : p \in {p \in Compiled(w, L) : w.build[p] # {}}}

\* The units whose wrapper fails: those the scanner cannot parse, and now and
\* then another, where the wrapper cannot get its configuration from rustup, or
\* the scanner does not start, or is killed.
Unscannable(w, L) == {LibUnit(w, L, p) : p \in Compiled(w, L) \cap w.broken}

Failures(w, L, built) ==
    {Unscannable(w, L) \cup faults :
        faults \in SUBSET {u \in Units(w, L) \ built : u[1] \in w.flaky}}

\* Mutant: the failure of the real rustc is not blocked.
ReachedUnblocked(w, L, failed) ==
    {p \in Compiled(w, L) : \A q \in Needs(w, L, p) :
        /\ q \notin w.noscript \cup w.norun
        /\ q # p => q \notin w.refused
        /\ \A u \in failed : u[1] = q => u = LibUnit(w, L, p)}

\* The packages whose libraries Cargo gets to: of what they need all build
\* scripts could be run, and no wrapper failed (but that of the library itself).
Reached(w, L, failed) ==
    {p \in Compiled(w, L) : \A q \in Needs(w, L, p) :
        /\ q \notin w.noscript \cup w.norun
        /\ \A u \in failed : u[1] = q => u = LibUnit(w, L, p)}

\* The units cargo runs the wrapper for to its end, and the units that are fresh
\* afterwards: real rustc compiled them (its failure is
\* blocked, so Cargo goes on, but the unit is compiled again the next time).
Scanned(w, L, built, failed) ==
    {p \in Reached(w, L, failed) : LibUnit(w, L, p) \notin failed \cup built}

ScannedBuilds(w, L, built, failed) ==
    {p \in Compiled(w, L) : w.build[p] # {} /\ BuildUnit(p) \notin failed \cup built}

\* Mutant: a unit is fresh although rustc failed on it.
BuiltAnyway(w, L, built, failed) ==
    built \cup {BuildUnit(p) : p \in ScannedBuilds(w, L, built, failed)}
          \cup {LibUnit(w, L, p) : p \in Scanned(w, L, built, failed)}

Built(w, L, built, failed) ==
    built \cup {BuildUnit(p) : p \in ScannedBuilds(w, L, built, failed) \ w.noscript}
          \cup {LibUnit(w, L, p) : p \in {p \in Scanned(w, L, built, failed) :
                                            Needs(w, L, p) \cap w.refused = {}}}

\* The exit status of cargo is a failure when it could not do all.
Incomplete(w, L, failed) ==
    failed # {} \/ Compiled(w, L) \cap (w.noscript \cup w.norun) # {}

\* What the scanner prints for one unit.
CheckInfo(w, p) ==
    [crate_name |-> w.lib[p[1]], used_rufs |-> DeclaredRufs(w, p),
     cfg |-> w.cfgs[p]]

BuildCheckInfo(w, p) ==
    [crate_name |-> BuildScript, used_rufs |-> w.build[p], cfg |-> w.features[p]]

ScannerOutput(w, L, built, failed) ==
    {CheckInfo(w, p) : p \in Scanned(w, L, built, failed)}
        \cup {BuildCheckInfo(w, p) : p \in ScannedBuilds(w, L, built, failed)}

\* A wrapper may also fail after that, when it cannot run the real rustc or is
\* killed meanwhile: its unit is reported, and has failed.
LateFailures(w, L, failed) ==
    SUBSET {u \in failed : u[2] # {} => u[1] \in Reached(w, L, failed) \ w.broken}

LateOutput(w, late) ==
    {CheckInfo(w, u[1]) : u \in {u \in late : u[2] # {}}}
        \cup {BuildCheckInfo(w, u[1]) : u \in {u \in late : u[2] = {}}}

\* How a `cargo rustc` may end: what was printed, what is fresh then, and
\* whether the audit warns that the extraction is incomplete.  It may fail
\* before it compiles anything (no network, a probe of the wrapper fails).
Ends(w, L, built, failed) ==
    {[infos |-> ScannerOutput(w, L, built, failed) \cup LateOutput(w, late),
      fresh |-> Built(w, L, built, failed),
      incomplete |-> Incomplete(w, L, failed)] : late \in LateFailures(w, L, failed)}

Extractions(w, L, built) ==
    {[infos |-> {}, fresh |-> built, incomplete |-> TRUE]}
        \cup UNION {Ends(w, L, built, failed) : failed \in Failures(w, L, built)}

\* What a unit is compiled from: a library, from the libraries its package
\* needs, once their build scripts could be run.
Inputs(w, L, u) ==
    {LibUnit(w, L, q) : q \in u[2] \ {u[1]}}
        \cup {BuildUnit(q) : q \in {q \in u[2] : w.build[q] # {}}}

\* Mutant: a unit that was scanned is fresh, though rustc has not ended on it.
StoppedAnyway(w, L, built) ==
    SUBSET BuiltAnyway(w, L, built, Unscannable(w, L))

\* What may be fresh when a `cargo rustc` was stopped on its way: each unit was
\* compiled after its inputs.
Stopped(w, L, built) ==
    LET more == Built(w, L, built, Unscannable(w, L)) \ built
        inputs == {<<u, Inputs(w, L, u)>> : u \in more}
    IN  {built \cup part : part \in
            {part \in SUBSET more :
                \A i \in inputs : i[1] \in part => i[2] \subseteq built \cup part}}

\* target/ is sound: no fresh unit is one that the scanner or rustc fails on, and
\* a library is fresh together with all it was compiled from.
TargetSound(w, b) ==
    /\ \A u \in b : \A q \in u[2] : LibUnit(w, u[2], q) \in b
    /\ \A u \in b :
         /\ u[2] = {} => u[1] \notin w.noscript
         /\ u[2] # {} =>
              /\ u[1] \in u[2]
              /\ u[1] \notin w.broken \cup w.refused \cup w.noscript \cup w.norun
              /\ \A q \in u[2] : w.build[q] # {} => BuildUnit(q) \in b

\* extract: the CheckInfos of one crate name are merged.
Reported(infos) == {info.crate_name : info \in infos}

\* Mutant: a later CheckInfo of a name replaces an earlier one.
ExtractReplaces(infos) ==
    [name \in Reported(infos) |->
        (CHOOSE info \in infos : info.crate_name = name).used_rufs]

Extract(infos) ==
    [name \in Reported(infos) |->
        UNION {info.used_rufs : info \in {i \in infos : i.crate_name = name}}]

\* update_build_cfgs for every name reported: cfgs recorded earlier for other
\* names stay.
UpdateBuildCfgs(cfgs, infos) ==
    [name \in DOMAIN cfgs \cup Reported(infos) |->
        IF name \in Reported(infos)
        THEN UNION {info.cfg : info \in {i \in infos : i.crate_name = name}}
        ELSE cfgs[name]]

\* filter_rufs looks a package's cfgs up by its name (`-` read as `_`, which
\* the model's names already are).  It panics when it needs cfgs and has none,
\* or has one that extract recorded with a Rust escape and is no JSON string.
NeedsCfgs(rufs) == \E r \in rufs : r.cond # <<>>

FilterPanics(cfgs, name, rufs, msg) ==
    /\ NeedsCfgs(rufs)
    /\ \/ msg = "no cfgs found" /\ name \notin DOMAIN cfgs
       \/ /\ msg = "cfg is not JSON"
          /\ name \in DOMAIN cfgs /\ cfgs[name] \cap NotJson # {}

\* Mutant: conditional features are left out.
FilterUnconditional(cfgs, name, rufs) == {r.feature : r \in {r \in rufs : r.cond = <<>>}}

FilterRufs(cfgs, name, rufs) ==
    {r.feature : r \in {r \in rufs :
        r.cond # <<>> => CondHolds(r.cond, cfgs[name])}}
=============================================================================
