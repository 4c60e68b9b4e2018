# A verification of ruf-audit

`cargo ruf audit` looks for *rufs*, Rust unstable features (`#![feature(..)]`), that the packages of a
project use and the project's rustc does not have, and tries to fix what it finds: by downgrading packages
of `Cargo.lock`, or else by naming a rustc version that can be used with the oldest dependencies. This
directory holds a TLA+ model of it, TLC runs over small registries of packages, and proofs that TLAPS checks.

Paths below are relative to the repository. Shorthand: `audit.rs`, `extract.rs`, `main.rs`, `error.rs` are in
`audit/src/`; `dep_manager/impl.rs` and `build_config/impl.rs` too; `scanner/` is the scanner's crate;
`basic_usages/` is `deps/basic_usages/src/`.

## 1. The system

### Components

| component | state it keeps | operations | what makes it correct |
|---|---|---|---|
| audit and its fixes (`audit.rs`) | the rufs of the last extraction; the package at hand | `audit`, `check_rufs`, `slow_fix`, `up_fix`, `fix_with_rustc` | a success it reports is one; it gives up only when nothing helps; it always ends; it only downgrades |
| test mode (`audit.rs`, `test`) and `--extract` (`main.rs`) | four answers | `test`; a listing | each answer is right; the lock file is replaced only if it has to be; the listing is exact |
| dependency manager (`dep_manager/`) | `dep_tree`, `req_by`, handles of the index and of Cargo's lock | `new`, `get_candidates`, `get_candidates_up_fix`, `update_pkg`, `root` | what it computes is about the lock file there is; a candidate suits its dependents; none is overlooked |
| build configuration (`build_config/`) | `crates_cfgs`, options, rustc version of the project | `default`, `update_build_cfgs`, `filter_rufs`, `rufs_usable`, `usable_rustc_for_rufs` | cfgs are those of the crate asked about; the two queries agree |
| extraction (`extract.rs`, wrapper mode of `main.rs`) | none; `target/` through Cargo | `extract` | reads every report of every unit that Cargo ran, and ends |
| scanner (`scanner/`) | none | scan a unit, then run the real rustc | one report per unit; its rustc's failure does not stop Cargo |
| lifetime table (`basic_usages/ruf_lifetime`, `ruf_check_info`) | a constant table | `get_ruf_status`, `get_ruf_all_status`, `is_usable` | total on all rufs and versions |
| ruf database (`basic_usages/ruf_db_usage`) | PostgreSQL, read only | rufs by crate name | returns every version with what it uses |

Outside the program: Cargo (resolver, job queue, fingerprints), the registry's index, rustc.

### How they interact

`main` builds a configuration and calls `audit`, which runs to its end in one thread. Concurrency is in
`extract`: it spawns `cargo rustc --keep-going` with the audit's own executable as `RUSTC_WRAPPER`. Cargo runs
several wrappers at once; each runs the scanner on its unit, which prints one `CheckInfo` (crate name, features
in use, cfgs) and then runs the real rustc, whose failure it hides. `extract` reads Cargo's two pipes and merges
the reports by crate name: features to the caller, cfgs into `crates_cfgs`.

`check_rufs` compares the features with the table. If one is not usable, `slow_fix` loops: breadth-first from the
root of the tree to the first package with an unusable ruf; candidates for it from the database and its
dependents' requirements; those that `filter_rufs` finds usable under the recorded cfgs; the greatest of them goes to
`cargo update --precise`; the tree is reloaded, `req_by` cleared, everything extracted again. Without a candidate
`up_fix` climbs to the strictest dependent (recorded in `req_by` by `get_candidates`), and to that one's.
Any error of `slow_fix` leads to `fix_with_rustc`, which resolves the project to its oldest dependencies, extracts
once more and looks for the greatest rustc all features agree on.

### What is hard about it

The state that decides is a copy of something else, at every level: `dep_tree` of the lock file, `req_by` of the
tree, `used_rufs` of the packages compiled, `crates_cfgs` of packages compiled some time ago, `target/` of
earlier extractions. A fix is a long sequence of steps each of which may fail after some have been done.
Package names, library names and crate names are confused. Extraction is concurrent, and may be incomplete,
now and then or always. Nothing of an audit survives it but `Cargo.lock` and `target/`, which the next one starts from.
`PROJECT.json` lists these hazards one by one, at their lines, with the properties that guard against each.

## 2. The modules

| module | models | written as |
|---|---|---|
| `RufLifetime` | the table, its status codes, `rufs_usable`, `usable_rustc_for_rufs` | operators over a constant table |
| `Registry` | what is external: packages, requirements, lock files, resolution, which packages are compiled | operators over a *world* |
| `Extraction` | scanner, wrapper, fingerprints, `extract`, `update_build_cfgs`, `filter_rufs` | operators |
| `DepManager` | the dependency manager and the database's queries | operators |
| `RufAudit` | one run of the audit: the state machine that composes the four above | VARIABLES, one action per step |
| `AuditPromise` | what the audit promises, by its messages and exit codes | abstract state machine, implemented by `RufAudit` |
| `AuditRuns` | several runs on one project, which may be killed at any step | extends `RufAudit` |
| `ExtractRun` | one extraction at the level of processes and pipes | state machine, the detail of one step of the others |
| `ExtractPromise` | what an extraction is to those that make one | abstract state machine, implemented by `ExtractRun` |
| `AuditProcesses` | several runs with the processes of their extractions, killed at any step of any process | extends `ExtractRun`, composes it with the audit; implements `AuditRuns` |
| `AuditTest` | `--test` and `--extract` | state machine |
| `MCWorlds`, `MCRufAudit`, `MCAuditRuns`, `MCExtractRun`, `MCAuditProcesses`, `MCAuditTest` | constants and worlds for TLC | |
| `Extraction_proofs`, `RufAudit_proofs`, `RufAuditSearch_proofs`, `RufAuditPromise_proofs`, `AuditRuns_proofs`, `ExtractRun_proofs`, `AuditProcesses_proofs`, `AuditTest_proofs` | theorems | TLAPS |

### Worlds

A world (`IsWorld` in `Registry`) is a setting an audit may run in, fixed for the run: the published packages and their
dependencies, the workspace, the features each source declares and under which cfg, the features of build scripts, the
cfgs of each package and those of them that its build script gets too, the name each library is compiled under, what
fails (below), the crates the database knows, the versions its snapshot lacks (`unlisted`), the project's rustc. A
version is `10*major + minor`, a requirement is an interval. A lock file is the set of packages it pins; `Locks(w)` are
the sets Cargo can resolve to, `CargoUpdate` those `cargo update --precise` may write, with the choice of versions for
packages it has to add left open, `MinimalLocks` those of `generate-lockfile -Z minimal-versions`.

Why an extraction may miss something, and where it is modelled:

| cause | field of the world | effect |
|---|---|---|
| the scanner cannot parse a package | `broken` | neither it nor anything compiled from it is reported |
| the wrapper or the scanner fails for a reason of its own | `flaky` | the same, in some extractions and not in others; or it fails after its report is printed (`scanner/src/main.rs:77`), and is reported |
| a build script does not compile, or fails when run | `noscript`, `norun` | its library is not reached, nor anything compiled from it |
| the audit's rustc refuses the library | `refused` | the failure is blocked: it is reported, and never fresh |
| Cargo fails as a whole | any world | nothing is reported |
| the unit is fresh | `built` | it is not reported again |

All but the last make Cargo fail, and the audit warn; `incomplete` records that.

### RufAudit, state and steps

| variable | in the code |
|---|---|
| `lock` | the file `Cargo.lock` |
| `dep_tree`, `req_by` | the fields of `DepManager`; node indices are packages of the tree |
| `used_rufs` | the local of that name in `check_rufs` and `slow_fix` |
| `crates_cfgs`, `quick` | fields of `BuildConfig` |
| `built` | which units are fresh in `target/`: a package with the packages it was compiled from |
| `incomplete` | the warning "extraction incomplete" was printed for the last extraction |
| `at`, `fix_ver` | `issued_depnx` or `p_req`, and `fix_ver` |
| `pc` | the place in `main`, `audit`, `check_rufs`, `slow_fix`, `up_fix`, `fix_with_rustc` |
| `verdict`, `rustc`, `exit` | the message, the version and the exit code the run ends with |

| action | code |
|---|---|
| `Main` | `BuildConfig::default` and the options: an error, the help that is not implemented, or a run |
| `AuditExtract`, `ReExtract`, `RustcExtract` | the three calls of `extract`, with what each does with an error |
| `ExtractPanics` | the panics inside `extract` at any of these calls (`extract.rs:40`, `:47`, `:71`, a `CheckInfo` that does not deserialize), with what Cargo has compiled by then |
| `NewDepManager` | `DepManager::new` |
| `CheckRufs` | the check in `check_rufs`, its assertion about the rustc version, and `quick_fix` |
| `FindIssue` | `root` with its assertion, the breadth-first search, and the success when nothing is found |
| `DownFix` | `get_candidates`, `filter_rufs` on each, the choice (`Search`, `Choose`) |
| `UpFix` | one level of `up_fix`: `req_by`, `get_candidates_up_fix`, `filter_rufs`, the choice |
| `UpdatePkg` | `update_pkg` with the reload and the reset of `req_by`; Cargo may fail, or the reload |
| `GenerateLockfile`, `RustcFix` | the two halves of `fix_with_rustc` |

A panic is an outcome: exit code 101 with its message as the verdict. What the program cannot foresee (a
process that does not start, the database, the index, the network) fails nondeterministically. The order of a graph's
edges, which decides between packages of one depth and between several strict parents, is nondeterministic too.

The program does not check that Cargo runs the wrapper for every unit, and Cargo does not. `Scanned`, `Reached` and
`Built` say which reports an extraction gives and what is fresh after it; `Extractions` are the outcomes one may have.
The finding `accepted_ruf` and most of the conditions on worlds come from here.

### AuditRuns

`Restart` gives a new process the state of one: everything but the world, `lock` and `built` is reset. It happens after
a run has ended (`Again`), in the middle of one (`Interrupt`), or when the user has given the project the rustc the
audit named (`FollowAdvice`, a step of the user and not of the code). `Stopped` says what a killed extraction leaves
fresh: any part of what it would have compiled in which each unit comes with the units it was compiled from. `settled`
is a history variable.

### ExtractRun

Each unit goes from waiting to scanning, compiling and ran, or it fails while it is scanned (`failed`, not reported) or
after its report is printed (`aborted`); at most `NumJobs` at a time. Cargo holds the messages of its wrappers, passes
them on through a stdout pipe of `PipeSize` lines, and writes a line to a stderr pipe when it starts a unit and when one
fails; both block when full. It may abort before it starts a unit. The reader is the audit: with `--verbose` it reads
stderr to its end first, without it both pipes together. `ExtractExact` ties the module to the others: what is read at
the end, what is fresh and whether Cargo failed is one of the `Extractions` that the other modules take in one step.
`KeepsPromise` says so of whole behaviours: under `target <- built` and `answer <- Answer` (nothing until the reader has
parsed, then what it parsed) an extraction is one of `ExtractPromise`, where `target/` only grows, within `Stopped`, and
one answer is given, which is one of the `Extractions` and about the `target/` there is at that moment. Deadlock is not
checked in its two runs because an extraction stops when it has parsed.

### AuditProcesses

`RufAudit` takes a call of `extract` as one step. Here the call is `Spawn`, then the steps of `ExtractRun`, then
`Return`, and nothing else in the audit happens meanwhile, since it waits for Cargo in its only thread. All other steps
are those of `RufAudit`, which is instantiated with `built <- Target`: to the audit, `target/` is what it was until
`extract` returns. `Kill` may come at any step of any process: a unit may be half scanned, its report in a pipe, and
`target/` is what rustc has written by then. Cargo and the wrappers stop with the audit. If they went on for a while,
what they then did is what they do in a run killed later. `ExtractPanics` ends the run likewise, at any step of an
extraction. The next run starts from that `target/`, with the lock file as an update or a replacement has left it, so
that units of several lock files are fresh in it at once.

### AuditTest

After the options: the four questions of `--test` in order, with the two extractions, the replacement of the lock file
between the second and the third, and the exit codes 0, 1, 2 and 101; or the listing of `--extract`, which exits with 0
whether the extraction failed or not. An extraction may panic here too. `incomplete` is whether the last extraction was;
the second one of `--test` is quiet and does not say.

## 3. What is checked

All runs use the constants of `MCWorlds`: rustc versions 0 to 2 with the project on 1 (mostly), a ruf usable in all of
them (*stable*), one removed before 1 (*gone*), one that comes after it (*fresh*), one the table does not have (*odd*),
a cfg, a second cfg whose text is not JSON, and up to five crates with up to five versions.

### Runs that pass

**audit_search** (59522 states). *Diamonds*, where `app` needs `q`, `p` and `d`, `q` restricts `p` and `p` restricts
`d`, the rufs of the versions of `p` and `d` vary, with and without a cfg; *chains* where `up_fix` climbs two and three
levels; *two majors* of one crate; a *dev-dependency* that is locked and not compiled; downgrades that make Cargo *add*
a package that has an issue of its own, or that asks for one it had not needed before; and twenty-one *corners*, each
with one thing out of the ordinary (a ruf in the project itself, an unknown crate, each cause of the table above, a
renamed library, a database that lacks versions the lock file has, a rustc beyond the table, a second member, and so
on). All from every lock file Cargo can give, with an empty or a used `target/`.
- `TypeOK`. `TreeIsLock`: while `slow_fix` decides, the tree is the one in `Cargo.lock`. `StrictParentsCurrent`: `req_by`
  never outlives the tree it was computed in.
- `ReportsCurrent`: what is held against a name is used by a package of the present lock file. `CulpritFixed`: the package
  `slow_fix` sets out to fix is one that has an issue (where no two have its name).
- `CfgsCurrent`: every package compiled from the one at hand is recorded with the cfgs it has now, although
  `crates_cfgs` is never cleared and most packages were fresh in the last extraction (after a complete one, where names
  tell packages apart and all that is locked is compiled). It depends on rustc's failure being blocked.
- `FixSuitsDependents`: the version chosen meets the requirement of every dependent. `FixIsUsable`: it uses no ruf the
  rustc lacks, though judged by cfgs of another version (where the versions of a crate have the same cfgs).
- `LowestFoundIfRecorded`, `RootNotSearched`, `OneRootIfOneMember`, `CfgsFoundIfTold`: what makes four assertions of the
  code fail, or that nothing does. The first needs a version the database does not record: the one locked, when it is
  newer than the snapshot, or that of a package `up_fix` has climbed to. The last is about the cfgs of a package: they
  are always recorded for one that was found to have an issue, and for one `up_fix` climbs to where the extraction was
  complete, names tell packages apart and all that is locked is compiled.
- `FixSound`: a reported success leaves a usable lock file. `RustcFixSound`: the rustc named can be used with the lock
  file left behind, and no greater one can. `GivesUpRightly`: exit code -2 only when no rustc of the table helps, in every
  world: an incomplete extraction may hide a problem and never makes one up.
- `OnlyDowngrades`: an update makes the package at hand older and touches no package that depends on it.
- `SlimsDown`: "each time we slim down the candidates" (`audit.rs:294`). The comment counts versions and does not
  consider that Cargo may add packages, and newer ones, to satisfy a downgrade. What holds is that the lock file gets
  `Slimmer`: where the two differ there is an older version, or a crate that leads to the difference and that differs
  too. That needs requirements within one major (`OneMajor`) and no cycle of crates (`CratesAcyclic`).
- `ClimbsUp`: with each level `up_fix` goes up, what is above the package at hand is less, so that a climb ends.
- `RecordedNotOverlooked`: `slow_fix` turns to the dependents only if no older version that has a row in the
  database would have done (where requirements and cfgs are found by name).
- `Termination`: every run ends, through all loops of `slow_fix` (`audit.rs:294`).
- `KeepsPromise`: the run implements `AuditPromise` (refinement, with the phase a function of `pc` and the verdict).

**audit_again** (18733 states): up to three audits of one project, in seven small projects with each rustc the project
may have. `FixSound` again, now from whatever the earlier runs left; `SettledStays`: once a run has said, without a
warning and in a trusted world, that nothing is left to fix, or its advice was followed, no later run gets to
`slow_fix`: the audit does not contradict itself.

**audit_processes** (44906 states): two runs of the audit with two jobs and pipes of one line, in chains of three packages
with each rustc the project may have, with issues that are fixed by a downgrade, by another rustc, or not at all, with a
build script and with a wrapper that fails now and then. The first run is killed at any step of any process, or ends.
- `FreshIsSound`: at every moment, a fresh library is in `target/` with all it was compiled from, and nothing is fresh
  that the scanner, rustc or a build script stopped.
- `ReportsSound`: `FixSound`, `RustcFixSound`, `GivesUpRightly` and `SettledStays` of the runs with their processes.
- `KeepsRuns`: the refinement of `AuditRuns`.
- `LastRunEnds`: the last run ends if it is without `--verbose`, whatever the interrupted one left.

Deadlock is not checked: the last run stops.

**audit_test** (7151 states): `FreshIsSound` (the `target/` these modes leave, which the next audit starts from, is
sound, though it comes from two lock files and an extraction may have panicked); `YesIsRight` (in trusted worlds, after
a complete extraction) and `NoIsRight` (in any world); `ListRight`: `--extract` lists as not ok only what is, and all
that is where it can be trusted; `ReplacedForCause` (the lock file is replaced only when no rustc can use it).

**extract_run** (37114 states): two jobs, two pipes of one line, worlds with one cause each for a partly failing
extraction, from each `target/` an earlier extraction leaves, ended or killed, with and without `--verbose`.
`InterruptedFresh` (at any moment, what is fresh is what `Stopped` lets a killed extraction leave), `ExtractExact`,
`NothingLost` (a report is in some buffer from the moment it is printed), `ExtractEndsIfItFits` (an extraction ends
without `--verbose`, and with it if the stdout pipe holds all reports; `extract_verbose` shows that the condition is
needed), and what that rests on: `NotStuckIfFits` (audit and Cargo do not wait for each other then), `StuckOnStdout`
(nothing else than such waiting keeps an extraction from a next step: `CanGoOn` has the guards of the actions. Were it
to hold where no action is possible, `ExtractEndsIfItFits` would fail), and `Advances` (every step of any process brings
the end nearer, by the measure `StepsLeft`). `KeepsPromise`: the refinement of `ExtractPromise`.

`TypeOK` of `ExtractRun` and `AuditTest` is in no run: it is proved (`RunTypeCorrect`, `TestTypeCorrect`).

### Runs that end in a violation

Each shows a place where the code does not do what the repository says of it. The quotations are in `PROJECT.json`.

| run | property | what the run shows |
|---|---|---|
| `single_parent` | `StrictParentFound` | `get_candidates` panics for a package with one dependent, or whose dependents all allow the same lowest version: it expects a strict parent where there is none (`dep_manager/impl.rs:155`) |
| `ruf_free_version` | `NothingOverlooked` | a version that uses no ruf is never a candidate: the query drops it (`ruf_db_usage/mod.rs:64`) |
| `accepted_ruf` | `FixedIsUsable` | a ruf that the audit's rustc accepts and the project's does not, used by two packages: `slow_fix` replaces one of them, the other is fresh in the extraction after that, its silence is taken for a fix and success is announced (`audit.rs:65`) |
| `build_script_ruf` | `FixedIsUsable` | a ruf of a build script is reported as `build_script_build`; `check_rufs` starts `slow_fix` over it, whose search (`audit.rs:309`) knows only names of packages and finds nothing, and success is announced |
| `dev_dependency` | `FixSuitsDependents` | a dependent that lists a crate twice is asked for its first requirement only (`dep_manager/impl.rs:120`) |
| `two_members` | `OneRoot` | the answer to "When will this not be 1 ?": a workspace with two independent members (`dep_manager/impl.rs:246`) |
| `extract_verbose` | `ExtractEnds` | with `--verbose`, Cargo blocks on stdout and the audit on stderr for ever (`extract.rs:36`) |

### Conditions on the world

Properties that speak of success need that the program is told of a ruf at all, which its design takes for granted.
They are at the end of `Registry`:

| condition | where the code relies on it |
|---|---|
| `~ incomplete`: no warning was printed for the last extraction | `extract.rs:58-63` says that an incomplete extraction "may left out some ruf usages" |
| `RefusedAlike`: what the project's rustc lacks, the audit's refuses | `main.rs:86-88`; it fails in `accepted_ruf` |
| `NeverFresh`: rufs that are missing in *some* rustc are refused | as above, for the search among all rustc versions |
| `NamedAlike`: a library is called as its package, and build scripts use only rufs the project's rustc has | `audit.rs:309`, `build_config/impl.rs:133`; it fails in `build_script_ruf`. A package whose library is renamed is never flagged, and success is announced all the same, in a corner of `audit_search`. (The panic of `build_config/impl.rs:134` is met in other corners, where an extraction was incomplete) |
| `RootOnTop`: nothing depends on the package audited | `root`, `dep_manager/impl.rs:244`; a dev-dependency cycle is what it excludes |
| the table covers the project's rustc | `rufs_usable` asserts it, `build_config/impl.rs:190`, but only if a crate was reported |
| `CfgsByCrate`: versions of a crate have the same cfgs | `crates_cfgs` is indexed by name only |
| `OnePerCrate`: the lock file has one version of each crate | reports are merged by name, `extract.rs:68` |
| `AllCompiled`: all that is locked is compiled | only what is compiled is reported |
| `RequiredOnce`: a package lists a crate once | `dep_manager/impl.rs:120`; it fails in `dev_dependency` |
| `OneMajor`: a requirement allows versions of one major only | `audit.rs:294`, what slims down is the version in a slot of the lock file |
| `CratesAcyclic`: no crate depends on itself through others, in any versions | `audit.rs:294` |

`Trusted` is the conjunction of those a user may rely on for what the audit says. Each property names the conditions it
needs and no other, and the passing runs contain worlds outside them, so that the parts of a property without a condition
are checked there too.

### Bounds, and why they are enough

Nothing is cut off inside a run: with finitely many packages the state space is finite, and every run is explored to
its end. What is bounded is the worlds. Two dependents are what it takes for a strict parent, three levels for a climb
from a climb, four versions of `d` for candidates below, above and inside the dependents' intervals, and a second
major of it for reports merged under one name. Three rustc versions give one before, at and after the project's. One cfg
gives conditions that hold, do not hold, and are absent. `MaxRuns = 3` gives an audit that finds what an
interrupted one made of what an earlier one left. For extraction, pipes of one line are the most hostile ones;
`extract_verbose` gives them two, so that the deadlock is not an artefact of the smallest size. In `audit_processes` two
jobs and two runs are enough for a run that is killed while one wrapper compiles and another scans, and for one that
starts from what that left; three runs are in `audit_again`, which `KeepsRuns` makes a model of the same.

### Fairness

`WF_vars(Next)`: the program is sequential, and each step ends. Its calls of other processes end as well; `ExtractRun`
is the detail behind the one of these that is not plain, and shows when it fails. There, weak fairness of the whole is
enough, since each process takes finitely many steps: `EveryStepAdvances` proves that every step lowers `StepsLeft`, so
none can starve another for ever. In `AuditProcesses` the steps of all processes are fair as a whole (`Go`, without the
panics of `extract`, which need not happen), by the same measure between `Spawn` and `Return`, and nobody need kill a
run or start another. `AuditRuns` has no fairness: it is there for safety. `RufAudit` and `AuditTest` loop on `Exited`
at the end, so that TLC's deadlock check is on.

## 4. What is proved

TLAPS checks these for every table, every set of crates, versions, rufs and cfgs, and every set of worlds. The assumptions
are `LifetimeAssumption` (the table has a code from 0 to 4 for each known ruf and version), `VersionsAssumption`
(a version is a number), `ExtractionAssumption` (names), `WorldsAssumption` (each world is one, `IsWorld`),
`MaxRunsAssumption` and `SizesAssumption`. Some theorems assume more in their statements:
- `FixesAreUsable` and `NoneIsOverlooked`: no package is called `build_script_build`;
- `DowngradesOnly` and `ClimbGoesUp`: no package depends on itself through others (`NoCycles`; Cargo refuses that, but for
  cycles through a dev-dependency);
- `CfgsAreCurrent`: no crate is called `build_script_build`;
- `ExtractionIsExact`, `ExtractionKeepsPromise`, `ProcessesKeepRuns` and `ProcessesReportSound`: no package is compiled
  from itself (`NoBuildCycles`; Cargo refuses it);
- `StuckOnlyIfFull` and `EveryStepAdvances`: the registry is finite, so that its packages can be counted.

| theorem | says | in |
|---|---|---|
| `UsableAgree` | `rufs_usable` and `usable_rustc_for_rufs`, which share no code, agree | `Extraction_proofs` |
| `TypeCorrect` | `Spec => []TypeOK` | `RufAudit_proofs` |
| `SearchOfCurrentTree`, `StrictParentsAreCurrent` | `Spec => []TreeIsLock`, `Spec => []StrictParentsCurrent` | |
| `ReportsAreCurrent` | `Spec => []ReportsCurrent` | |
| `FixesAreSound`, `RustcFixesAreSound`, `GivingUpIsRight` | `FixSound`, `RustcFixSound`, `GivesUpRightly` | |
| `CulpritsAreFixed`, `FixesSuitDependents`, `FixesAreUsable`, `RootIsNotSearched`, `OneRootWithOneMember`, `LowestIsFoundIfRecorded` | `CulpritFixed`, `FixSuitsDependents` (where packages list a crate once), `FixIsUsable`, `RootNotSearched`, `OneRootIfOneMember`, `LowestFoundIfRecorded` | `RufAuditSearch_proofs` |
| `NoneIsOverlooked`, `DowngradesOnly`, `CfgsAreCurrent` | `RecordedNotOverlooked`, `OnlyDowngrades`, `CfgsCurrent` | |
| `CfgsAreFoundIfTold`, `ClimbGoesUp`, `UpdatesSlimDown` | `CfgsFoundIfTold`, `ClimbsUp`, `SlimsDown` | |
| `SlimmerIsOrder` | `Slimmer` is irreflexive and transitive on the lock files of a world | |
| `RunTypeCorrect`, `NoReportIsLost`, `InterruptsLeaveFresh`, `ExtractionIsExact` | `TypeOK`, `NothingLost`, `InterruptedFresh`, `ExtractExact` of `ExtractRun` | `ExtractRun_proofs` |
| `StuckOnlyIfFull`, `OnlyStdoutBlocks`, `EveryStepAdvances` | `NotStuckIfFits`, `StuckOnStdout`, `Advances` | |
| `ExtractionKeepsPromise` | `Spec => Promise!Spec`: `ExtractRun` implements `ExtractPromise` | |
| `PromiseIsKept` | `Spec => Promise!Spec`: `RufAudit` implements `AuditPromise` | `RufAuditPromise_proofs` |
| `RunsAreSound`, `SettledForGood` | `SpecRuns => []FixSound`, `SpecRuns => []SettledStays` | `AuditRuns_proofs` |
| `TargetStaysSound` | `SpecProcesses => []FreshIsSound` | `AuditProcesses_proofs` |
| `ProcessesKeepRuns` | `SpecProcesses => KeepsRuns`: `AuditProcesses` implements `AuditRuns` | |
| `ProcessesReportSound` | `SpecProcesses => []ReportsSound` | |
| `TestTypeCorrect`, `TestLeavesSound`, `NoAnswersAreRight`, `YesAnswersAreRight`, `ListingIsRight`, `IsReplacedForCause` | `TypeOK`, `FreshIsSound`, `NoIsRight`, `YesIsRight`, `ListRight`, `ReplacedForCause` | `AuditTest_proofs` |

The argument. `Extraction_proofs` has what every outcome of an extraction satisfies: what is reported is *truthful*
(each ruf is used by a package compiled under that name), a package that the audit's rustc refuses is never fresh, and a
complete extraction from a `target/` without such packages leaves none of the unusable packages out. It is shared by the
audit and by test mode.

`TypeInv` strengthens `TypeOK` with: the package at hand is in the tree while the search is on, and each entry of
`req_by` is an edge of the tree. `TypeOK` alone is not inductive, since `UpFix` moves to `req_by[at]`. `SearchInv` is
what makes a report trustworthy, and each part is needed because the report of a success comes long after the extraction
it rests on:
- the tree is the lock file, and reports held between steps are about it, truthful and, unless incomplete, full;
- a package the audit's rustc refuses is never fresh (`RefusedNotBuilt`): that is why the next extraction meets it again,
  and the fact that `accepted_ruf` breaks;
- a chosen version is an older version of the package at hand;
- a run that is not over has no verdict.

`Outcomes` then lists the ways a step can end a run, and each result follows from `SearchInv` in the state before. That
no rustc is overlooked and that none is made up are two lemmas, `UsableRustcIsFound` (which needs truthful reports) and
`FoundRustcIsUsable` (which needs full ones).

The refinement is a simulation by phases: each action of `RufAudit` is shown to be a step of `AuditPromise` or a
stutter, `UpdatePkg` being a `Downgrade` (the replaced package is the one at hand), `GenerateLockfile` the return to the
oldest dependencies, an extraction a `Warn`, and the last step of a run a report whose condition is `FixSound`,
`RustcFixSound` or `GivesUpRightly`.

For several runs the point is which facts hold of the files a dead process leaves: `RefusedNotBuilt` is kept by
`Stopped`, and everything else in `SearchInv` is about a process and holds of a new one. `Settled` says of the lock file
what a success reported; it is stable since a run that finds all usable changes nothing.

`CfgsAreCurrent` needs an invariant over all extractions so far, `ToldInv`. A library is fresh only together with all
that it was compiled from (`TargetSound`, which every extraction keeps, ended, panicked or killed), so a package that is
reported was not fresh, nor was anything compiled from it, and all of that is reported again with its cfgs. That is true
of a flagged package when it is found, and of the package `up_fix` climbs to because all that is compiled from a
dependent is compiled from the package it depends on.

`DowngradesOnly` is an argument about a minimal package: of those Cargo would replace although they depend on the
package at hand, one has no dependent among them; its dependents stay, and Cargo keeps what is required by packages that
stay.

Why `slow_fix` ends is proved but for the last step, which is about liveness. A climb goes up: `at'` has a path to `at`
and, without cycles, `at` has none back, so `Above` shrinks (`ClimbGoesUp`). A round of the loop ends in an update, and
each leads to a slimmer lock file: the package at hand gets older in its slot (its dependents' requirements stay within
its major), and every other difference is in a crate that its crate leads to. If not, take of the other differences one
on which none of them depends. Were it gone, its dependent would stay and Cargo would have kept it; were it new, its
dependent was there before, with its requirement met by a package of the same slot that is gone, which can only be the
package at hand; but that slot has the chosen version. `SlimmerIsOrder` makes this a measure: of three lock files in a
row, take of the crates in which any two differ one that none of the others leads to; there the versions only get
older, so the first and the third differ there too, in the same direction.
A world has finitely many lock files, so no sequence of updates goes on for ever. `Termination`, which
adds that a step is always taken, is left to TLC.

`CfgsAreFoundIfTold` has two halves: a flagged package has its cfgs since whatever is reported has them recorded
(`Recorded`), and one `up_fix` climbs to has them by `ToldInv`, which needs the condition.

For `ExtractRun`, `PipesInv` says that the two pipes and what was read hold exactly the reports of the units scanned so
far, and `WorkInv` that each unit started had its inputs, and that a unit that ran (and did not fail, before or after
its report) is fresh if and only if rustc accepted it and them. `Outcome` says how Cargo may have ended. From these,
when Cargo can go no further the units that ran are those `Scanned` names: one half holds always (`RanIsReached`), the
other because a package whose needs all ran could be started (`NeedsInduction`, which is where cycles would matter:
Cargo would wait for ever). So one extraction is one step of `RufAudit`.

`StuckOnlyIfFull` needs `Unread`: until Cargo closes stderr nothing of stdout was read in verbose mode, so the reports
printed are those in the buffers, one for each unit scanned. They are among the units `Scanned` names, and if these fit
into the pipe, a pipe that is full leaves no message to pass on. `EveryStepAdvances` counts: a unit that starts trades 7
for 5 and one line of stderr, one that is scanned trades 5 for 2 and a message of 2, and so on. With `OnlyStdoutBlocks`
these are the parts of `ExtractEndsIfItFits`: what is left to TLC is the step from "can go on, and every step advances"
to "ends". For `OnlyStdoutBlocks`, suppose that nothing can go on: then stderr is empty and not closed, so a wrapper at
work would have room for what it says and a unit that is ready could be started; so there is neither, and Cargo has
messages left and stdout is full; a reader of both pipes would read from it, so the reader is the one of `--verbose`. In
the refinement of `ExtractPromise`, rustc's success is a `Compile` (or a stutter, when it leaves nothing fresh), `Parse`
is the `Reply`, and every other step a stutter; `ExtractionIsExact` gives the condition of the reply.

For `AuditProcesses` the invariant is `ProcessInv`: `target/` is sound (`TargetSound`), and while the audit waits for an
extraction, that extraction satisfies `Worked` and `Outcome`, the invariants of `ExtractRun`. These were first proved
from `Init` of `ExtractRun`, whose `target/` is one that an extraction of the *same* lock file leaves. Inside a sequence
of audits that is not so, and the proofs now start from `Started`, which asks of the `target/` before only that it is
sound. `TargetSound` is about the world and not about the lock file, which makes it survive updates, and `Kill` may drop
all that is said of the processes since it needs nothing else. `ProcessesKeepRuns` is then a simulation: a step of a
process is a stutter of `AuditRuns`, `Return` is `RunExtract` with the outcome that `ExtractionIsExact` gives it, and
`Kill` an `Interrupt` because what is fresh is in `Stopped` (`InterruptsLeaveFresh`). `ProcessesReportSound` applies the
theorems of `AuditRuns_proofs`, as an instance with `built <- Target`, to that simulation; `SameRuns` shows that the
instance of the specification and the instance of the proofs define the same. So what a run reports is proved down to
the interleavings of the wrappers, with nothing assumed of an extraction but what its processes do.

**Only model-checked**: `Termination` of `RufAudit`, `ExtractEndsIfItFits` of `ExtractRun` and `LastRunEnds` of
`AuditProcesses`, since liveness under fairness is beyond the prover. Every other property of a passing run is a
theorem. No module uses a RECURSIVE operator; reachability is a closure, not a recursion, so that the proofs can use it.

## 5. What is not modelled

- The contents of the lifetime table (`lifetime.rs`, generated) and the script that generates it: data. The model has any
  table of its form (`LifetimeTables`); the one in the repository has it: 1875 rufs, 64 codes each, all from 0 to 4.
- `rustc_version`: a constant table of nightly toolchains and a loop that installs them, not called by the audit.
- `scanner/src/rustc70.rs`: no module declares it. `quick_fix` in `audit.rs:250`: never called.
- The wording of options, messages and colours; the paths and the arguments that are passed on to Cargo.
- The connection to PostgreSQL; the split of the index into a local cache and the network. Both may fail in `Search`.
- Cargo's probes `rustc -`, which the wrapper passes on to rustc, other than that one may fail (`CargoAborts`).
- The text of cfgs and features: the regular expressions on Cargo's output. Of the escaping of a cfg, on its way from
  `extract.rs:80` to `build_config/impl.rs:140`, only that a cfg may have an escape that JSON does not have.
- A second process that changes `Cargo.lock` or `target/` meanwhile; a lock file written in part (Cargo replaces it
  whole).
- Dependencies renamed in a manifest.

## 6. Plan

Done: the modules above, in the order of the table in section 2, their runs, and the theorems of section 4. The order was
that of importance: what a reported success means comes first, then what is true of the search, then of several runs, then
the composition of all that with the processes.

What is left is worth less than what is done:
1. `--test` and `--extract` with their processes, as `AuditProcesses` has the audit. Their runs are not interrupted
   halfway to any effect on each other but through `target/`, for which `TargetStaysSound` has the argument.
2. Two audits at once in one project: Cargo's own locks order their extractions, not their updates of the lock file.
