------------------------------ MODULE RufAudit ------------------------------
(***************************************************************************)
(* One run of `cargo ruf audit`: extract the rufs in use, check them, and   *)
(* when some are not usable try to fix them, first by downgrading packages  *)
(* of Cargo.lock (slow_fix, which climbs to dependents with up_fix), then   *)
(* by looking for a rustc that suits the oldest dependencies                *)
(* (fix_with_rustc).  The program is sequential; what surrounds it (Cargo,  *)
(* the index, the network, processes that cannot be spawned) fails          *)
(* nondeterministically and resolves nondeterministically.                  *)
(***************************************************************************)
EXTENDS DepManager

CONSTANT Worlds         \* the settings an audit may run in

ASSUME WorldsAssumption == \A w \in Worlds : IsWorld(w)

VARIABLES
    world,         \* the setting of this run
    quick,         \* BuildConfig.quick_fix
    pc,            \* where the run is
    lock,          \* Cargo.lock
    built,         \* the compilation units that are fresh in target/
    dep_tree,      \* DepManager.dep_tree: Cargo.lock when it was last read
    req_by,        \* DepManager.req_by: the strict parent found for a package
    used_rufs,     \* the rufs of the last extraction, by crate name
    crates_cfgs,   \* BuildConfig.crates_cfgs
    incomplete,    \* the audit warned that the last extraction is incomplete
    at,            \* the package slow_fix or up_fix works on (issued_depnx)
    fix_ver,       \* the version chosen for it
    verdict,       \* what the run reports: "clean", "tree", "rustc", "failed",
                   \* or the message of the panic that ended it
    rustc,         \* the rustc version it reports
    exit           \* its exit code

setting == <<world, quick>>
config == <<used_rufs, crates_cfgs, incomplete, built>>
manager == <<dep_tree, req_by>>
target == <<at, fix_ver>>
result == <<verdict, rustc, exit>>
vars == <<setting, pc, lock, config, manager, target, result>>

Unexpected == -1         \* AuditError::exit_code
Functionality == -2
Panicked == 101          \* the exit code of a panic

Init ==
    /\ world \in Worlds
    /\ quick = FALSE
    /\ pc = "start"
    /\ lock \in Locks(world)
    \* target/ is empty, or holds an earlier audit of the same lock file.
    /\ built \in {{}, Built(world, lock, {}, Unscannable(world, lock))}
    /\ dep_tree = {} /\ req_by = <<>>
    /\ used_rufs = <<>> /\ crates_cfgs = <<>> /\ incomplete = FALSE
    /\ at = world.root /\ fix_ver = world.root[2]
    /\ verdict = "none" /\ rustc = 0 /\ exit = 0

Finish(code, what) ==
    /\ pc' = "done" /\ exit' = code /\ verdict' = what
    /\ UNCHANGED <<setting, lock, config, manager, target, rustc>>

Panic(msg) == Finish(Panicked, msg)

Goto(where) == pc' = where /\ UNCHANGED <<setting, result>>

\* The configuration is built from what `rustup show` prints and the options
\* are parsed; either may fail, and the help is not implemented.
Main ==
    /\ pc = "start"
    /\ \/ Finish(Unexpected, "failed")
       \/ Panic("not implemented")
       \/ /\ crates_cfgs' = <<>> /\ quick' \in BOOLEAN
          /\ pc' = "extract"
          /\ UNCHANGED <<world, lock, used_rufs, incomplete, built, manager, target, result>>

\* extract, when the cargo process could be spawned.
RunExtract ==
    \E e \in Extractions(world, lock, built) :
        /\ used_rufs' = Extract(e.infos)
        /\ crates_cfgs' = UpdateBuildCfgs(crates_cfgs, e.infos)
        /\ built' = e.fresh /\ incomplete' = e.incomplete
        /\ UNCHANGED <<lock, manager, target>>

Calls == pc \in {"extract", "reextract", "rustc_extract"}

\* extract panics, wherever it is called: it cannot read a pipe (while Cargo may
\* still be at work) or wait for Cargo, or what it has read is no CheckInfo.
ExtractPanics ==
    /\ Calls
    /\ pc' = "done" /\ exit' = Panicked /\ verdict' = "extraction cannot be read"
    /\ built' \in Stopped(world, lock, built)
    /\ UNCHANGED <<setting, lock, used_rufs, crates_cfgs, incomplete, manager, target, rustc>>

AuditExtract ==
    /\ pc = "extract"
    /\ \/ Finish(Unexpected, "failed")
       \/ RunExtract /\ Goto("new")

NewDepManager ==
    /\ pc = "new"
    /\ \/ /\ dep_tree' = lock /\ req_by' = <<>>
          /\ Goto("check") /\ UNCHANGED <<lock, config, target>>
       \/ Finish(Unexpected, "failed")

AllUsable ==
    \A name \in DOMAIN used_rufs : RufsUsable(used_rufs[name], world.rustc)

\* rufs_usable asserts that the table covers the rustc of the project.
CheckRufs ==
    /\ pc = "check"
    /\ \/ /\ used_rufs # <<>> /\ world.rustc \notin RustcVersions
          /\ Panic("rust_version < RUSTC_VER_NUM")
       \/ /\ used_rufs # <<>> => world.rustc \in RustcVersions
          /\ \/ AllUsable /\ Finish(0, "clean")
             \/ /\ ~ AllUsable
                /\ Goto(IF quick THEN "minimal" ELSE "find")
                /\ UNCHANGED <<lock, config, manager, target>>
-----------------------------------------------------------------------------
\* slow_fix

\* The packages whose name is that of a crate with an unusable ruf.
Flagged ==
    {n \in dep_tree : /\ n[1] \in DOMAIN used_rufs
                      /\ ~ RufsUsable(used_rufs[n[1]], world.rustc)}

Issues(root) ==
    Flagged \cap Reachable(dep_tree, LockEdges(world, dep_tree), {root})

\* The packages k edges below root, and the issues a breadth-first search may
\* meet first.
Layer(root, depth) ==
    LET below[k \in Nat] ==
            IF k = 0 THEN {root}
            ELSE LET above == below[k - 1]
                 IN  {n \in dep_tree : GetDepParent(world, dep_tree, n) \cap above # {}}
    IN  below[depth]

FirstIssues(root) ==
    {n \in Issues(root) : \E k \in 0 .. Cardinality(dep_tree) :
        /\ n \in Layer(root, k)
        /\ \A j \in 0 .. k : \A m \in Issues(root) : m \in Layer(root, j) => j = k}

FindIssue ==
    /\ pc = "find"
    /\ \/ /\ ~ \E root \in dep_tree : Roots(world, dep_tree) = {root}
          /\ Panic("roots.len() == 1")
       \/ \E root \in dep_tree :
            /\ Roots(world, dep_tree) = {root}
            /\ \/ Issues(root) = {} /\ Finish(0, "tree")
               \/ \E n \in FirstIssues(root) :
                    /\ at' = n /\ Goto("down")
                    /\ UNCHANGED <<lock, config, manager, fix_ver>>

\* Any error of slow_fix ends it, and the rustc fix is tried.
SlowFixFails ==
    Goto("minimal") /\ UNCHANGED <<lock, config, manager, target>>

\* Candidate versions of n go through filter_rufs, and the greatest of those
\* left is the fix; without one, the search goes on from n in up_fix.
Usable(n, versions) ==
    {ver \in versions : RufsUsable(
        FilterRufs(crates_cfgs, n[1], world.rufs[<<n[1], ver>>]), world.rustc)}

Choose(n, versions) ==
    /\ at' = n
    /\ req_by' \in ReqByAfter(world, dep_tree, n, req_by)
    /\ \/ \E ver \in Usable(n, versions) :
            /\ \A other \in Usable(n, versions) : other <= ver
            /\ fix_ver' = ver /\ Goto("update")
       \/ /\ Usable(n, versions) = {}
          /\ Goto("up") /\ UNCHANGED fix_ver
    /\ UNCHANGED <<lock, config, dep_tree>>

FiltersPanic(n, versions, msg) ==
    \E ver \in versions :
        FilterPanics(crates_cfgs, n[1], world.rufs[<<n[1], ver>>], msg)

\* The search for candidates of n, found by GetCandidates or
\* GetCandidatesUpFix.  The database, the index or the scanner may fail, or be
\* out of reach altogether.
Search(n, versions) ==
    \/ \E msg \in {"root has no parents", "cannot find lowest allowing version",
                   "no strict parent found"} :
         GetCandidatesPanics(world, dep_tree, n, msg) /\ Panic(msg)
    \/ /\ n \notin world.local /\ GetDepParent(world, dep_tree, n) # {}
       /\ SlowFixFails \/ Panic("no database, index lock or scanner")
    \/ /\ \A msg \in {"root has no parents", "cannot find lowest allowing version",
                      "no strict parent found"} :
            ~ GetCandidatesPanics(world, dep_tree, n, msg)
       /\ ~ GetCandidatesFails(world, dep_tree, n)
       /\ \/ \E msg \in {"no cfgs found", "cfg is not JSON"} :
                FiltersPanic(n, versions, msg) /\ Panic(msg)
          \/ /\ \A msg \in {"no cfgs found", "cfg is not JSON"} :
                  ~ FiltersPanic(n, versions, msg)
             /\ Choose(n, versions)

DownFix ==
    pc = "down" /\ Search(at, GetCandidates(world, dep_tree, at))

\* Mutant: a climb that found no dependent left to relax counts as a fix.
UpFixAtRootSucceeds ==
    /\ pc = "up"
    /\ \/ /\ at \notin DOMAIN req_by
          /\ Goto("reextract") /\ UNCHANGED <<lock, config, manager, target>>
       \/ /\ at \in DOMAIN req_by
          /\ Search(req_by[at], GetCandidatesUpFix(world, dep_tree, req_by[at], at))

\* Mutant: the strict parent is asked for again from the same package.
UpFixStays ==
    /\ pc = "up"
    /\ \/ at \notin DOMAIN req_by /\ SlowFixFails
       \/ /\ at \in DOMAIN req_by
          /\ Search(at, GetCandidatesUpFix(world, dep_tree, req_by[at], at))

\* up_fix: the strict parent of the package at hand is given a version with
\* another requirement on it, or else its own strict parent is tried.
UpFix ==
    /\ pc = "up"
    /\ \/ at \notin DOMAIN req_by /\ SlowFixFails
       \/ /\ at \in DOMAIN req_by
          /\ LET p_req == req_by[at] IN
             Search(p_req, GetCandidatesUpFix(world, dep_tree, p_req, at))

\* Mutant: the dependency tree is not reloaded.
UpdatePkgNoReload ==
    /\ pc = "update"
    /\ lock' \in CargoUpdate(world, lock, at, fix_ver)
    /\ req_by' = <<>> /\ Goto("reextract")
    /\ UNCHANGED <<dep_tree, config, target>>

\* Mutant: req_by is not cleared.
UpdatePkgKeepsReqBy ==
    /\ pc = "update"
    /\ lock' \in CargoUpdate(world, lock, at, fix_ver)
    /\ dep_tree' = lock' /\ Goto("reextract")
    /\ UNCHANGED <<req_by, config, target>>

\* Mutant: `cargo update` is not told which package, and updates any of them.
UpdatePkgAny ==
    /\ pc = "update"
    /\ lock' \in {L \in Locks(world) : <<at[1], fix_ver>> \in L /\ at \notin L}
    /\ dep_tree' = lock' /\ req_by' = <<>> /\ Goto("reextract")
    /\ UNCHANGED <<config, target>>

\* update_pkg.  Cargo may write the lock file and the tree not load.
UpdatePkg ==
    /\ pc = "update"
    /\ \/ Panic("execute cargo update fails")
       \/ SlowFixFails
       \/ \E L \in CargoUpdate(world, lock, at, fix_ver) :
            /\ lock' = L
            /\ \/ dep_tree' = L /\ req_by' = <<>> /\ Goto("reextract")
               \/ Goto("minimal") /\ UNCHANGED manager
            /\ UNCHANGED <<config, target>>

\* Mutant: the rufs are not extracted again after an update.
ReExtractSkipped ==
    pc = "reextract" /\ Goto("find") /\ UNCHANGED <<lock, config, manager, target>>

ReExtract ==
    /\ pc = "reextract"
    /\ \/ SlowFixFails
       \/ RunExtract /\ Goto("find")
-----------------------------------------------------------------------------
\* fix_with_rustc

GenerateLockfile ==
    /\ pc = "minimal"
    /\ \/ Finish(Unexpected, "failed")
       \/ /\ lock' \in MinimalLocks(world)
          /\ Goto("rustc_extract") /\ UNCHANGED <<config, manager, target>>

\* Mutant: the rufs are not extracted again from the oldest dependencies.
RustcExtractSkipped ==
    pc = "rustc_extract" /\ Goto("rustc_fix") /\ UNCHANGED <<lock, config, manager, target>>

RustcExtract ==
    /\ pc = "rustc_extract"
    /\ \/ Finish(Unexpected, "failed")
       \/ RunExtract /\ Goto("rustc_fix")

\* Mutant: versions usable for one crate are reported for all.
UsableRustcForSome ==
    {ver \in RustcVersions : \E name \in DOMAIN used_rufs :
        ver \in UsableRustcForRufs(used_rufs[name])}

UsableRustc ==
    {ver \in RustcVersions : \A name \in DOMAIN used_rufs :
        ver \in UsableRustcForRufs(used_rufs[name])}

RustcFix ==
    /\ pc = "rustc_fix"
    /\ \/ \E ver \in UsableRustc :
            /\ \A other \in UsableRustc : other <= ver
            /\ pc' = "done" /\ exit' = 0 /\ verdict' = "rustc" /\ rustc' = ver
            /\ UNCHANGED <<setting, lock, config, manager, target>>
       \/ UsableRustc = {} /\ Finish(Functionality, "failed")

\* The process has exited.
Exited == pc = "done" /\ UNCHANGED vars

Next ==
    \/ Main \/ AuditExtract \/ NewDepManager \/ CheckRufs
    \/ FindIssue \/ DownFix \/ UpFix \/ UpdatePkg \/ ReExtract
    \/ GenerateLockfile \/ RustcExtract \/ RustcFix
    \/ ExtractPanics
    \/ Exited

\* The program is sequential, and the processes it waits for end (ExtractRun
\* looks at the one wait that may not): some action is always taken.
Spec == Init /\ [][Next]_vars /\ WF_vars(Next)
-----------------------------------------------------------------------------
Searching == pc \in {"find", "down", "up", "update"}

Verdicts == {"none", "clean", "tree", "rustc", "failed"}
PanicMessages ==
    {"rust_version < RUSTC_VER_NUM", "roots.len() == 1", "root has no parents",
     "cannot find lowest allowing version", "no strict parent found",
     "no cfgs found", "cfg is not JSON", "no database, index lock or scanner",
     "execute cargo update fails", "not implemented", "extraction cannot be read"}

\* Every variable has its type: in particular the tree, the lock file and the
\* package worked on stay within the packages the registry has.
TypeOK ==
    /\ world \in Worlds /\ quick \in BOOLEAN
    /\ pc \in {"start", "extract", "new", "check", "find", "down", "up", "update",
               "reextract", "minimal", "rustc_extract", "rustc_fix", "done"}
    /\ lock \in Locks(world) /\ built \subseteq Packages \X SUBSET Packages
    /\ dep_tree \in {{}} \cup Locks(world)
    /\ DOMAIN req_by \subseteq dep_tree /\ req_by \in [DOMAIN req_by -> dep_tree]
    /\ DOMAIN used_rufs \subseteq CrateNames
    /\ used_rufs \in [DOMAIN used_rufs -> SUBSET Rufs]
    /\ DOMAIN crates_cfgs \subseteq CrateNames
    /\ crates_cfgs \in [DOMAIN crates_cfgs -> SUBSET Cfgs]
    /\ incomplete \in BOOLEAN
    /\ at \in DOMAIN world.deps /\ fix_ver \in Versions
    /\ verdict \in Verdicts \cup PanicMessages
    /\ rustc \in RustcVersions
    /\ exit \in {0, Unexpected, Functionality, Panicked}

\* While slow_fix decides, the tree it searches is the one in Cargo.lock,
\* whatever updates it made before (update_pkg reloads it).
TreeIsLock == Searching => dep_tree = lock

\* req_by never outlives the tree it was computed in: each entry names a
\* package and one of its dependents in the present tree (update_pkg clears
\* it; a node index of an older tree would name another package).
StrictParentsCurrent ==
    \A n \in DOMAIN req_by :
        n \in dep_tree /\ req_by[n] \in GetDepParent(world, dep_tree, n)

\* What slow_fix searches by is about the present tree: each ruf it holds
\* against a name is used by a locked package compiled under that name, never
\* by one an update has replaced.
ReportsCurrent ==
    Searching => \A name \in DOMAIN used_rufs : \A ruf \in used_rufs[name] :
        \E p \in lock :
            \/ world.lib[p[1]] = name /\ ruf \in DeclaredRufs(world, p)
            \/ name = BuildScript /\ ruf \in world.build[p]

\* The version chosen for a package suits every package that depends on it in
\* the lock file, in down fix and in up fix ("match its dependents' version
\* req"): Cargo is never asked for a version it must refuse for that reason.
FixSuitsDependents ==
    pc = "update" => \A p \in GetDepParent(world, lock, at) :
        DependsOn(world, p, <<at[1], fix_ver>>, TRUE)

\* The version chosen uses only rufs the project's rustc has, although it was
\* judged by the cfgs recorded for another version, and not by its own.
FixIsUsable ==
    pc = "update" /\ CfgsByCrate(world) /\ NamedAlike(world) =>
        RufsUsable(DeclaredRufs(world, <<at[1], fix_ver>>), world.rustc)

\* filter_rufs judges by the cfgs the packages have now, not by those of a
\* version locked some extractions ago: every package that is compiled from the
\* one at hand was compiled again, and reported, by the last extraction (if that
\* was complete and names do not deceive), whatever was fresh before it.
CfgsCurrent ==
    /\ pc \in {"down", "up"} /\ at \notin world.local /\ ~ incomplete
    /\ NamedAlike(world) /\ OnePerCrate(lock) /\ AllCompiled(world, lock)
    => \A n \in dep_tree : at \in Needs(world, dep_tree, n)
          => n[1] \in DOMAIN crates_cfgs /\ crates_cfgs[n[1]] = world.cfgs[n]

\* "We found a ruf issue": the package slow_fix sets out to fix has an unusable
\* ruf itself (where no other package has its name).
CulpritFixed ==
    pc = "down" /\ NamedAlike(world) /\ OnePerCrate(lock) =>
        ~ RufsUsable(DeclaredRufs(world, at), world.rustc)

\* An assertion of get_candidates, "cannot find lowest allowing version", can
\* only fail for a package whose own version the database records no ruf of
\* (it is newer than the database, or up_fix has climbed to it), or whose
\* dependent requires it twice.
LowestFoundIfRecorded ==
    verdict = "cannot find lowest allowing version" /\ RequiredOnce(world) =>
        \E n \in {at} \cup {req_by[m] : m \in {at} \cap DOMAIN req_by} :
            n[2] \notin RufVersions(world, n[1])

\* An assertion of filter_rufs, "no cfgs found", can only fail for a package
\* up_fix climbs to, and only where the last extraction was incomplete, names
\* deceive, or something locked is not compiled.
CfgsFoundIfTold ==
    verdict = "no cfgs found" =>
        /\ at \in DOMAIN req_by
        /\ \/ incomplete \/ ~ NamedAlike(world)
           \/ ~ OnePerCrate(lock) \/ ~ AllCompiled(world, lock)

\* An assertion of root, "When will this not be 1 ?": when the workspace has
\* several members, or a package depends on it.
OneRootIfOneMember ==
    verdict = "roots.len() == 1" => world.members # {world.root} \/ ~ RootOnTop(world)

\* "all ruf issues are fixed, usable depenency tree are written", which is said
\* when slow_fix finds no issue (any more): every package compiled with the lock
\* file left behind is usable.
FixedIsUsable ==
    verdict = "tree" /\ ~ incomplete => LockUsable(world, lock, world.rustc)

\* That holds, and "Currently no rufs issue found" is true, when every unusable
\* ruf is reported under its package's name.
FixSound ==
    /\ verdict \in {"clean", "tree"} /\ ~ incomplete
    /\ world.rustc \in RustcVersions
    /\ RefusedAlike(world) /\ NamedAlike(world) /\ RootOnTop(world)
    => LockUsable(world, lock, world.rustc)

\* The rustc version reported can be used with the lock file left behind, and
\* no greater one can.
RustcFixSound ==
    verdict = "rustc" =>
        /\ ~ incomplete /\ NeverFresh(world) => LockUsable(world, lock, rustc)
        /\ \A ver \in RustcVersions : ver > rustc => ~ LockUsable(world, lock, ver)

\* The audit gives up (exit code -2) only when no rustc version of the table
\* can be used with the oldest dependencies.
GivesUpRightly ==
    exit = Functionality =>
        \A ver \in RustcVersions : ~ LockUsable(world, lock, ver)

\* An assertion of get_candidates: of the dependents of a flagged package, or
\* of a package up_fix climbs to, one is stricter than the others.
StrictParentFound == verdict # "no strict parent found"

\* An assertion of DepManager::root: the dependency tree has one root.
OneRoot == verdict # "roots.len() == 1"

\* The workspace's own package is never searched for older versions: of all
\* packages only it has no dependent, which get_candidates asserts there is.
RootNotSearched == verdict # "root has no parents"

\* slow_fix only downgrades: an update replaces the package worked on by an
\* older version of it and changes nothing that depends on it.
OnlyDowngrades ==
    [][pc = "update" /\ lock' # lock =>
         /\ <<at[1], fix_ver>> \in lock' /\ fix_ver < at[2]
         /\ \A p \in lock : at \in Reachable(lock, LockEdges(world, lock), {p})
                => p = at \/ p \in lock']_vars

\* Lock file M is slimmer than L: where they differ M has an older version, or
\* they differ in a crate that leads there.
Changed(M, L) == (M \ L) \cup (L \ M)
Slot(p) == <<p[1], Major(p[2])>>
Slimmer(w, M, L) ==
    /\ M # L
    /\ \A p \in Changed(M, L) :
         \/ \E q \in Changed(M, L) : p[1] \in CratesBelow(w, q[1])
         \/ \E new \in M \ L, old \in L \ M :
               Slot(new) = Slot(p) /\ Slot(old) = Slot(p) /\ new[2] < old[2]

\* "Each time we slim down the candidates": an update makes one package older,
\* and otherwise changes only packages of crates that its crate leads to.  Cargo
\* may add packages there, newer ones too, and yet slow_fix cannot go round for
\* ever, as Slimmer is a strict order of the lock files (where requirements are
\* as semver's are by default and no crate depends on itself through others).
SlimsDown ==
    [][/\ pc = "update" /\ lock' # lock
       /\ RequiredOnce(world) /\ OneMajor(world) /\ CratesAcyclic(world)
       => Slimmer(world, lock', lock)]_vars

\* The packages that depend on n, n itself included.
Above(n) == {p \in dep_tree : n \in Reachable(dep_tree, LockEdges(world, dep_tree), {p})}

\* up_fix goes up: it never comes back to a package it has climbed from, nor to
\* one that is not above all of those.
ClimbsUp == [][pc = "up" /\ pc' = "up" => Above(at') \subseteq Above(at) \ {at}]_vars

\* An older version of the package at hand that its dependents accept and that
\* would be usable.
Missed(p) ==
    /\ p[1] = at[1] /\ p[2] < at[2]
    /\ \A q \in GetDepParent(world, lock, at) : DependsOn(world, q, p, TRUE)
    /\ RufsUsable(DeclaredRufs(world, p), world.rustc)

TurnsToDependents == pc = "down" /\ pc' = "up" /\ at \notin world.local

\* Before it turns to the dependents, slow_fix has tried every such version of
\* the package at hand: they are the candidates as its comments define them.
NothingOverlooked ==
    [][TurnsToDependents => ~ \E p \in DOMAIN world.deps : Missed(p)]_vars

\* It has tried those that the database records a ruf of (where it reads the
\* requirements and the cfgs of the right package).
RecordedNotOverlooked ==
    [][/\ TurnsToDependents
       /\ RequiredOnce(world) /\ CfgsByCrate(world) /\ NamedAlike(world)
       => ~ \E p \in DOMAIN world.deps :
              p[2] \in RufVersions(world, p[1]) /\ Missed(p)]_vars

\* "This algo will ends, because we have a finite number of crates and each
\* time we slim down the candidates."
Termination == <>(pc = "done")
-----------------------------------------------------------------------------
\* What the run looks like to its user.
Phase ==
    CASE pc # "done" ->
            IF pc \in {"rustc_extract", "rustc_fix"} THEN "oldest" ELSE "tree"
      [] pc = "done" /\ verdict \in {"clean", "tree"} -> "usable"
      [] pc = "done" /\ verdict = "rustc" -> "usable_with"
      [] pc = "done" /\ exit = Functionality -> "unfixable"
      [] OTHER -> "abandoned"

Promise == INSTANCE AuditPromise WITH phase <- Phase

\* An audit does what it promises: see AuditPromise.
KeepsPromise == Promise!Spec
=============================================================================
