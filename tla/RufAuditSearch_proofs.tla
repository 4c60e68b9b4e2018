------------------------ MODULE RufAuditSearch_proofs ------------------------
(***************************************************************************)
(* What slow_fix searches and chooses: theorems on the packages it sets out *)
(* to fix, the versions it asks Cargo for, and the assertions of the        *)
(* dependency manager.                                                      *)
(***************************************************************************)
EXTENDS RufAudit_proofs

\* slow_fix sets out to fix a package that does have an unusable ruf, for every
\* registry and lock file in which names tell packages apart.
THEOREM CulpritsAreFixed == Spec => []CulpritFixed
  <1>1. TypeInv /\ SearchInv => CulpritFixed
    <2> SUFFICES ASSUME TypeInv, SearchInv, pc = "down", NamedAlike(world), OnePerCrate(lock)
                 PROVE  ~ RufsUsable(DeclaredRufs(world, at), world.rustc)
      BY DEF CulpritFixed
    <2>1. dep_tree = lock /\ at \in Flagged /\ Truthful(world, lock, used_rufs)
      BY DEF SearchInv, TreeSync, CulpritFlagged, Reports, HasReports
    <2>2. lock \subseteq DOMAIN world.deps
      BY LocksArePackages DEF TypeInv, TypeOK
    <2> QED BY <2>1, <2>2, FlaggedIsUnusable DEF Flagged
  <1> QED BY TypeInit, TypeStep, SearchInit, SearchStep, <1>1, PTL DEF Spec
-----------------------------------------------------------------------------
\* Requirements.

\* Where each crate is required once, a dependent's requirement is the one
\* get_package_reqs finds first.
LEMMA OnlyReq ==
    ASSUME NEW w, IsWorld(w), RequiredOnce(w), NEW p \in DOMAIN w.deps,
           NEW i \in DOMAIN w.deps[p]
    PROVE  FirstReq(w, p, w.deps[p][i].name) = w.deps[p][i]
  <1>1. w.deps[p] \in Seq(Dependency)
    BY DEF IsWorld
  <1>2. \A k : /\ k \in DOMAIN w.deps[p] /\ w.deps[p][k].name = w.deps[p][i].name
               => k = i
    BY DEF RequiredOnce
  <1>3. DOMAIN w.deps[p] = 1 .. Len(w.deps[p]) /\ i \in Nat
    BY <1>1
  <1>4. \A j \in 1 .. i - 1 : w.deps[p][j].name # w.deps[p][i].name
    BY <1>2, <1>3
  <1>5. i = CHOOSE k \in DOMAIN w.deps[p] :
              /\ w.deps[p][k].name = w.deps[p][i].name
              /\ \A j \in 1 .. k - 1 : w.deps[p][j].name # w.deps[p][i].name
    BY <1>2, <1>4
  <1> QED BY <1>5 DEF FirstReq

\* A dependent in the tree requires its package so that the locked version and
\* every other its requirement allows would do.
LEMMA DependentRequires ==
    ASSUME NEW w, IsWorld(w), RequiredOnce(w), NEW L, L \subseteq DOMAIN w.deps,
           NEW n, NEW p \in GetDepParent(w, L, n)
    PROVE  /\ ReqMatches(FirstReq(w, p, n[1]), n[2])
           /\ \A ver : ReqMatches(FirstReq(w, p, n[1]), ver)
                          => DependsOn(w, p, <<n[1], ver>>, TRUE)
  <1>1. p \in DOMAIN w.deps /\ DependsOn(w, p, n, TRUE)
    BY PairsAre DEF GetDepParent, LockEdges
  <1>2. PICK i \in DOMAIN w.deps[p] :
            /\ w.deps[p][i].name = n[1] /\ ReqMatches(w.deps[p][i], n[2])
            /\ w.deps[p][i].dev => p \in w.members
    BY <1>1 DEF DependsOn
  <1>3. FirstReq(w, p, n[1]) = w.deps[p][i]
    BY <1>1, <1>2, OnlyReq
  <1> QED BY <1>2, <1>3 DEF DependsOn

\* Cargo is never asked for a version that a dependent's requirement excludes,
\* in worlds where no package requires a crate twice.
THEOREM FixesSuitDependents ==
    Spec => [](RequiredOnce(world) => FixSuitsDependents)
  <1>1. TypeInv /\ SearchInv => (RequiredOnce(world) => FixSuitsDependents)
    <2> SUFFICES ASSUME TypeInv, SearchInv, RequiredOnce(world), pc = "update",
                        NEW p \in GetDepParent(world, lock, at)
                 PROVE  DependsOn(world, p, <<at[1], fix_ver>>, TRUE)
      BY DEF FixSuitsDependents
    <2>1. fix_ver \in GetCandidates(world, dep_tree, at) /\ dep_tree = lock
      BY DEF SearchInv, FixChosen, Judged, Usable, TreeSync
    <2>2. ReqMatches(FirstReq(world, p, at[1]), fix_ver)
      BY <2>1 DEF GetCandidates
    <2>3. IsWorld(world) /\ lock \subseteq DOMAIN world.deps
      BY Worldly, LocksArePackages DEF TypeInv, TypeOK
    <2> QED BY <2>2, <2>3, DependentRequires
  <1> QED BY TypeInit, TypeStep, SearchInit, SearchStep, <1>1, PTL DEF Spec
-----------------------------------------------------------------------------
\* The assertions of the dependency manager.

SearchPanics ==
    {"root has no parents", "cannot find lowest allowing version", "no strict parent found"}

LEMMA SearchPanicked ==
    ASSUME SearchInv, pc # "done", NEW n, NEW versions, Search(n, versions),
           NEW msg \in SearchPanics, verdict' = msg
    PROVE  GetCandidatesPanics(world, dep_tree, n, msg) /\ UNCHANGED <<setting, target, manager>>
  <1>1. verdict = "none" /\ msg # "none"
    BY DEF SearchInv, Ended, SearchPanics
  <1>2. ~ SlowFixFails /\ ~ Choose(n, versions)
    BY <1>1 DEF SlowFixFails, Choose, Goto, result
  <1>3. \A m \in {"no database, index lock or scanner", "no cfgs found", "cfg is not JSON"} :
           ~ Panic(m)
    BY DEF Panic, Finish, SearchPanics
  <1>4. PICK m \in SearchPanics : GetCandidatesPanics(world, dep_tree, n, m) /\ Panic(m)
    BY <1>2, <1>3 DEF Search, SearchPanics
  <1> QED BY <1>4 DEF Panic, Finish

\* Where each of these assertions can fail, the step that ends the run aside
\* nothing changes.
RootPanicked ==
    /\ pc = "find" /\ UNCHANGED <<setting, target, manager>>
    /\ ~ \E root \in dep_tree : Roots(world, dep_tree) = {root}

SearchedPanicked(msg) ==
    /\ UNCHANGED <<setting, target, manager>>
    /\ \E n \in {at} \cup {req_by[m] : m \in {at} \cap DOMAIN req_by} :
          /\ pc = "down" => n = at
          /\ pc \in {"down", "up"} /\ GetCandidatesPanics(world, dep_tree, n, msg)

CfgsPanicked ==
    /\ UNCHANGED <<setting, lock, config, target, manager>>
    /\ \E n \in dep_tree \ world.local :
          /\ \/ pc = "down" /\ n = at
             \/ pc = "up" /\ at \in DOMAIN req_by /\ n = req_by[at]
          /\ n[1] \notin DOMAIN crates_cfgs

LEMMA FilterPanicked ==
    ASSUME SearchInv, pc # "done", NEW n, NEW versions,
           versions \subseteq GetCandidates(world, dep_tree, n),
           Search(n, versions), verdict' = "no cfgs found"
    PROVE  /\ UNCHANGED <<setting, lock, config, target, manager>>
           /\ n[1] \notin DOMAIN crates_cfgs /\ n \notin world.local
  <1>1. verdict = "none"
    BY DEF SearchInv, Ended
  <1>2. ~ SlowFixFails /\ ~ Choose(n, versions)
    BY <1>1 DEF SlowFixFails, Choose, Goto, result
  <1>3. \A m \in {"no database, index lock or scanner", "root has no parents",
                  "cannot find lowest allowing version", "no strict parent found",
                  "cfg is not JSON"} : ~ Panic(m)
    BY DEF Panic, Finish
  <1>4. FiltersPanic(n, versions, "no cfgs found") /\ Panic("no cfgs found")
    BY <1>2, <1>3 DEF Search
  <1> QED BY <1>4 DEF FiltersPanic, FilterPanics, GetCandidates, Searched, Panic, Finish

LEMMA PanicSteps ==
    ASSUME TypeInv, SearchInv, [Next]_vars,
           NEW msg \in SearchPanics \cup {"roots.len() == 1", "no cfgs found"},
           verdict' = msg
    PROVE  \/ UNCHANGED vars
           \/ msg = "roots.len() == 1" /\ RootPanicked
           \/ msg = "no cfgs found" /\ CfgsPanicked
           \/ msg \in SearchPanics /\ SearchedPanicked(msg)
  <1>1. CASE UNCHANGED vars
    BY <1>1
  <1>2. CASE pc = "done"
    <2>1. ~ (Main \/ AuditExtract \/ NewDepManager \/ CheckRufs \/ FindIssue \/ DownFix
              \/ UpFix \/ UpdatePkg \/ ReExtract \/ GenerateLockfile \/ RustcExtract \/ RustcFix
              \/ ExtractPanics)
      BY <1>2 DEF Main, AuditExtract, NewDepManager, CheckRufs, FindIssue, DownFix, UpFix,
                  UpdatePkg, ReExtract, GenerateLockfile, RustcExtract, RustcFix,
                  ExtractPanics, Calls
    <2> QED BY <2>1 DEF Next, Exited
  <1> SUFFICES ASSUME pc # "done", Next
               PROVE  \/ msg = "roots.len() == 1" /\ RootPanicked
                      \/ msg = "no cfgs found" /\ CfgsPanicked
                      \/ msg \in SearchPanics /\ SearchedPanicked(msg)
    BY <1>1, <1>2
  <1>3. verdict' # "none" /\ verdict = "none"
    BY DEF SearchInv, Ended, SearchPanics
  <1>4. \A where : ~ Goto(where)
    BY <1>3 DEF Goto, result
  <1>5. ~ Main
    BY <1>3 DEF Main, Panic, Finish, result, SearchPanics
  <1>6. ~ AuditExtract /\ ~ NewDepManager /\ ~ CheckRufs
    BY <1>4 DEF AuditExtract, NewDepManager, CheckRufs, Panic, Finish, SearchPanics
  <1>7. ~ UpdatePkg /\ ~ ReExtract /\ ~ GenerateLockfile /\ ~ RustcExtract
    BY <1>4 DEF UpdatePkg, ReExtract, GenerateLockfile, RustcExtract, SlowFixFails, Panic,
                Finish, SearchPanics
  <1>8. ~ RustcFix /\ ~ ExtractPanics
    BY DEF RustcFix, ExtractPanics, Finish, SearchPanics
  <1>9. CASE FindIssue
    BY <1>4, <1>9 DEF FindIssue, RootPanicked, SearchPanics, Panic, Finish
  <1>10. ASSUME NEW n, NEW versions, Search(n, versions)
         PROVE  msg \in SearchPanics \cup {"no cfgs found"}
    BY <1>4, <1>10 DEF Search, SlowFixFails, Choose, Panic, Finish, SearchPanics
  <1>11. CASE DownFix
    <2>1. CASE msg \in SearchPanics
      BY <1>11, <2>1, SearchPanicked DEF DownFix, SearchedPanicked
    <2>2. CASE msg = "no cfgs found"
      <3>1. at \in dep_tree
        BY <1>11 DEF DownFix, TypeInv, AtInTree
      <3> QED BY <1>11, <2>2, <3>1, FilterPanicked DEF DownFix, CfgsPanicked
    <2> QED BY <1>10, <1>11, <2>1, <2>2 DEF DownFix
  <1>12. CASE UpFix
    <2>1. at \in DOMAIN req_by
      BY <1>4, <1>12 DEF UpFix, SlowFixFails
    <2>2. CASE msg \in SearchPanics
      BY <1>12, <2>1, <2>2, SearchPanicked DEF UpFix, SearchedPanicked
    <2>3. CASE msg = "no cfgs found"
      <3>1. req_by[at] \in dep_tree
        BY <2>1 DEF TypeInv, ReqByCurrent
      <3>2. GetCandidatesUpFix(world, dep_tree, req_by[at], at)
                \subseteq GetCandidates(world, dep_tree, req_by[at])
        BY DEF GetCandidatesUpFix
      <3> QED BY <1>12, <2>1, <2>3, <3>1, <3>2, FilterPanicked DEF UpFix, CfgsPanicked
    <2> QED BY <1>10, <1>12, <2>1, <2>2, <2>3 DEF UpFix
  <1>13. ~ Exited
    BY DEF Exited
  <1> QED BY <1>5, <1>6, <1>7, <1>8, <1>9, <1>11, <1>12, <1>13 DEF Next

\* All of a lock file but the workspace has dependents.
LEMMA OnlyMembersOnTop ==
    ASSUME NEW w, NEW L \in Locks(w), NEW n \in L \ w.members
    PROVE  GetDepParent(w, L, n) # {} /\ n \notin Roots(w, L)
  BY PairsAre DEF Locks, GetDepParent, LockEdges, Roots

\* The assertion that a package searched for older versions has a dependent
\* never fails.
LEMMA RootNotSearchedStep ==
    TypeInv /\ SearchInv /\ RootNotSearched /\ [Next]_vars => RootNotSearched'
  <1> SUFFICES ASSUME TypeInv, SearchInv, RootNotSearched, [Next]_vars,
                      verdict' = "root has no parents"
               PROVE  FALSE
    BY DEF RootNotSearched
  <1>1. CASE UNCHANGED vars
    BY <1>1 DEF RootNotSearched, vars, result
  <1>2. CASE SearchedPanicked("root has no parents")
    <2>1. PICK n \in {at} \cup {req_by[m] : m \in {at} \cap DOMAIN req_by} :
              pc \in {"down", "up"} /\ GetCandidatesPanics(world, dep_tree, n, "root has no parents")
      BY <1>2 DEF SearchedPanicked
    <2>2. n \in dep_tree /\ dep_tree \in Locks(world)
      BY <2>1 DEF TypeInv, TypeOK, AtInTree, SearchInv, TreeSync
    <2>3. n \notin world.members /\ GetDepParent(world, dep_tree, n) = {}
      BY <2>1, Worldly DEF GetCandidatesPanics, TypeInv, IsWorld
    <2> QED BY <2>2, <2>3, OnlyMembersOnTop
  <1> QED BY <1>1, <1>2, PanicSteps DEF SearchPanics

THEOREM RootIsNotSearched == Spec => []RootNotSearched
  <1>1. Init => RootNotSearched
    BY DEF Init, RootNotSearched
  <1> QED BY TypeInit, TypeStep, SearchInit, SearchStep, RootNotSearchedStep, <1>1, PTL DEF Spec

\* The assertion that the tree has one root can fail only in a workspace of
\* several members, or one whose package is depended on.
LEMMA OneRootStep ==
    TypeInv /\ SearchInv /\ OneRootIfOneMember /\ [Next]_vars => OneRootIfOneMember'
  <1> SUFFICES ASSUME TypeInv, SearchInv, OneRootIfOneMember, [Next]_vars,
                      verdict' = "roots.len() == 1"
               PROVE  world'.members # {world'.root} \/ ~ RootOnTop(world')
    BY DEF OneRootIfOneMember
  <1>1. CASE UNCHANGED vars
    BY <1>1 DEF OneRootIfOneMember, vars, setting, result
  <1>2. CASE RootPanicked
    <2>1. world' = world /\ dep_tree \in Locks(world)
      BY <1>2 DEF RootPanicked, setting, TypeInv, TypeOK, SearchInv, TreeSync
    <2> SUFFICES ASSUME world.members = {world.root}, RootOnTop(world)
                 PROVE  FALSE
      BY <2>1
    <2>2. world.root \in dep_tree /\ dep_tree \subseteq DOMAIN world.deps
      BY <2>1 DEF Locks
    <2>3. world.root \in Roots(world, dep_tree)
      BY <2>2, PairsAre DEF Roots, LockEdges, RootOnTop
    <2>4. ASSUME NEW n \in Roots(world, dep_tree)
          PROVE  n = world.root
      BY <2>1, OnlyMembersOnTop DEF Roots
    <2> QED BY <1>2, <2>2, <2>3, <2>4 DEF RootPanicked
  <1>3. UNCHANGED vars \/ RootPanicked
    <2>1. "roots.len() == 1" \notin SearchPanics
      BY DEF SearchPanics
    <2> QED BY <2>1, PanicSteps
  <1> QED BY <1>1, <1>2, <1>3

THEOREM OneRootWithOneMember == Spec => []OneRootIfOneMember
  <1>1. Init => OneRootIfOneMember
    BY DEF Init, OneRootIfOneMember
  <1> QED BY TypeInit, TypeStep, SearchInit, SearchStep, OneRootStep, <1>1, PTL DEF Spec

\* The assertion that each dependent allows some recorded version can fail only
\* for a package the database does not record the locked version of, or where
\* a package requires it twice.
LEMMA LowestStep ==
    TypeInv /\ SearchInv /\ LowestFoundIfRecorded /\ [Next]_vars => LowestFoundIfRecorded'
  <1> DEFINE searched == {at} \cup {req_by[m] : m \in {at} \cap DOMAIN req_by}
             msg == "cannot find lowest allowing version"
  <1> SUFFICES ASSUME TypeInv, SearchInv, LowestFoundIfRecorded, [Next]_vars,
                      verdict' = msg, RequiredOnce(world')
               PROVE  \E n \in searched' : n[2] \notin RufVersions(world', n[1])
    BY DEF LowestFoundIfRecorded
  <1>1. CASE UNCHANGED vars
    BY <1>1 DEF LowestFoundIfRecorded, vars, setting, result, manager, target
  <1>2. CASE SearchedPanicked(msg)
    <2>1. PICK n \in searched :
              pc \in {"down", "up"} /\ GetCandidatesPanics(world, dep_tree, n, msg)
      BY <1>2 DEF SearchedPanicked
    <2>2. world' = world /\ searched' = searched
      BY <1>2 DEF SearchedPanicked, setting, target, manager
    <2>3. PICK p \in GetDepParent(world, dep_tree, n) : Allowed(world, p, n[1]) = {}
      BY <2>1 DEF GetCandidatesPanics
    <2>4. IsWorld(world) /\ dep_tree \subseteq DOMAIN world.deps
      BY Worldly, LocksArePackages DEF TypeInv, TypeOK
    <2>5. ReqMatches(FirstReq(world, p, n[1]), n[2])
      BY <2>2, <2>3, <2>4, DependentRequires
    <2>6. n[2] \notin RufVersions(world, n[1])
      BY <2>3, <2>5 DEF Allowed
    <2> QED BY <2>2, <2>6
  <1> QED BY <1>1, <1>2, PanicSteps DEF SearchPanics

THEOREM LowestIsFoundIfRecorded == Spec => []LowestFoundIfRecorded
  <1>1. Init => LowestFoundIfRecorded
    BY DEF Init, LowestFoundIfRecorded
  <1> QED BY TypeInit, TypeStep, SearchInit, SearchStep, LowestStep, <1>1, PTL DEF Spec
-----------------------------------------------------------------------------
\* The cfgs a candidate is judged by.

\* Whatever was reported before, the cfgs recorded for a package's name are
\* those of some version of it.
CfgsTold(w, cfgs) ==
    \A name \in DOMAIN cfgs \cap Crates :
        \E p \in DOMAIN w.deps : p[1] = name /\ cfgs[name] = w.cfgs[p]

CfgsAgree(w) == CfgsByCrate(w) /\ NamedAlike(w)

CfgsInv == CfgsAgree(world) => CfgsTold(world, crates_cfgs)

LEMMA ExtractTellsCfgs ==
    ASSUME BuildScript \notin Crates, NEW w, CfgsAgree(w),
           NEW L, L \subseteq DOMAIN w.deps, NEW infos, Authentic(w, L, infos),
           NEW cfgs, CfgsTold(w, cfgs)
    PROVE  CfgsTold(w, UpdateBuildCfgs(cfgs, infos))
  <1> SUFFICES ASSUME NEW name \in DOMAIN UpdateBuildCfgs(cfgs, infos) \cap Crates
               PROVE  \E p \in DOMAIN w.deps :
                         p[1] = name /\ UpdateBuildCfgs(cfgs, infos)[name] = w.cfgs[p]
    BY DEF CfgsTold
  <1>1. CASE name \notin Reported(infos)
    BY <1>1 DEF CfgsTold, UpdateBuildCfgs
  <1>2. CASE name \in Reported(infos)
    <2>1. ASSUME NEW info \in infos, info.crate_name = name
          PROVE  \E q \in DOMAIN w.deps : q[1] = name /\ info.cfg = w.cfgs[q]
      <3>1. PICK q \in Compiled(w, L) : info = CheckInfo(w, q) \/ info = BuildCheckInfo(w, q)
        BY DEF Authentic
      <3>2. q \in DOMAIN w.deps /\ w.lib[q[1]] = q[1]
        BY <3>1, CompiledIsLocked DEF CfgsAgree, NamedAlike
      <3> QED BY <2>1, <3>1, <3>2 DEF CheckInfo, BuildCheckInfo
    <2>2. PICK info \in infos : info.crate_name = name
      BY <1>2 DEF Reported
    <2>3. PICK p \in DOMAIN w.deps : p[1] = name /\ info.cfg = w.cfgs[p]
      BY <2>1, <2>2
    <2>4. \A other \in infos : other.crate_name = name => other.cfg = w.cfgs[p]
      BY <2>1, <2>3 DEF CfgsAgree, CfgsByCrate
    <2>5. UpdateBuildCfgs(cfgs, infos)[name]
             = UNION {i.cfg : i \in {i \in infos : i.crate_name = name}}
      BY <1>2 DEF UpdateBuildCfgs
    <2>6. UNION {i.cfg : i \in {i \in infos : i.crate_name = name}} = w.cfgs[p]
      BY <2>2, <2>4
    <2> QED BY <2>3, <2>5, <2>6
  <1> QED BY <1>1, <1>2

\* Only an extraction records cfgs.
Untold == pc = "start" /\ crates_cfgs' = <<>> /\ used_rufs' = used_rufs

LEMMA CfgsSteps ==
    ASSUME [Next]_vars
    PROVE  /\ world' = world
           /\ RunExtract \/ Untold \/ UNCHANGED <<used_rufs, crates_cfgs>>
           /\ pc' = "start" => UNCHANGED vars
  <1>1. CASE Main
    BY <1>1 DEF Main, Untold, Finish, Panic, setting, config
  <1>2. CASE AuditExtract \/ NewDepManager \/ CheckRufs \/ FindIssue
    BY <1>2 DEF AuditExtract, NewDepManager, CheckRufs, FindIssue, Finish, Panic, Goto,
                setting, config
  <1>3. ASSUME NEW n, NEW versions, Search(n, versions)
        PROVE  world' = world /\ UNCHANGED <<used_rufs, crates_cfgs>> /\ pc' # "start"
    BY <1>3 DEF Search, Choose, SlowFixFails, Panic, Finish, Goto, setting, config
  <1>4. CASE DownFix \/ UpFix
    BY <1>3, <1>4 DEF DownFix, UpFix, SlowFixFails, Goto, setting, config
  <1>5. CASE UpdatePkg \/ ReExtract \/ GenerateLockfile \/ RustcExtract \/ RustcFix
    BY <1>5 DEF UpdatePkg, ReExtract, GenerateLockfile, RustcExtract, RustcFix, SlowFixFails,
                Finish, Panic, Goto, setting, config
  <1>6. CASE UNCHANGED vars
    BY <1>6 DEF vars, setting, config
  <1>7. CASE ExtractPanics
    BY <1>7 DEF ExtractPanics, setting
  <1> QED BY <1>1, <1>2, <1>4, <1>5, <1>6, <1>7 DEF Next, Exited

LEMMA CfgsStep ==
    ASSUME BuildScript \notin Crates
    PROVE  TypeInv /\ CfgsInv /\ [Next]_vars => CfgsInv'
  <1> SUFFICES ASSUME TypeInv, CfgsInv, [Next]_vars, CfgsAgree(world)
               PROVE  CfgsTold(world, crates_cfgs')
    BY CfgsSteps DEF CfgsInv
  <1>1. CASE RunExtract
    <2>1. PICK e \in Extractions(world, lock, built) :
              crates_cfgs' = UpdateBuildCfgs(crates_cfgs, e.infos)
      BY <1>1 DEF RunExtract
    <2>2. lock \subseteq DOMAIN world.deps
      BY LocksArePackages DEF TypeInv, TypeOK
    <2> QED BY <2>1, <2>2, ExtractionAuthentic, ExtractTellsCfgs DEF CfgsInv
  <1>2. CASE crates_cfgs' = <<>>
    BY <1>2 DEF CfgsTold
  <1>3. CASE crates_cfgs' = crates_cfgs
    BY <1>3 DEF CfgsInv
  <1> QED BY <1>1, <1>2, <1>3, CfgsSteps DEF Untold

\* The version chosen is usable, though its own cfgs were never asked for: for
\* every registry in which a crate's versions are compiled with the same cfgs
\* and names tell packages apart.
THEOREM FixesAreUsable ==
    ASSUME BuildScript \notin Crates
    PROVE  Spec => []FixIsUsable
  <1>1. Init => CfgsInv
    BY DEF Init, CfgsInv, CfgsTold
  <1>2. TypeInv /\ CfgsInv /\ [Next]_vars => CfgsInv'
    BY CfgsStep
  <1>3. TypeInv /\ SearchInv /\ CfgsInv => FixIsUsable
    <2> SUFFICES ASSUME TypeInv, SearchInv, CfgsInv, pc = "update", CfgsAgree(world)
                 PROVE  RufsUsable(DeclaredRufs(world, <<at[1], fix_ver>>), world.rustc)
      BY DEF FixIsUsable, CfgsAgree
    <2> DEFINE p == <<at[1], fix_ver>>
    <2>1. /\ fix_ver \in RufVersions(world, at[1])
          /\ RufsUsable(FilterRufs(crates_cfgs, at[1], world.rufs[p]), world.rustc)
          /\ NeedsCfgs(world.rufs[p]) => at[1] \in DOMAIN crates_cfgs
      BY DEF SearchInv, FixChosen, Judged, Usable, GetCandidates, FilterPanics
    <2>2. p \in DOMAIN world.deps /\ p[1] \in Crates
      <3>1. PICK q \in DOMAIN world.deps : q[1] = at[1] /\ q[2] = fix_ver
        BY <2>1 DEF RufVersions
      <3>2. q \in Crates \X Versions
        BY Worldly DEF TypeInv, IsWorld, Packages
      <3>3. p = q
        BY <3>1, <3>2
      <3> QED BY <3>2, <3>3
    <2>3. at[1] \in DOMAIN crates_cfgs => crates_cfgs[at[1]] = world.cfgs[p]
      BY <2>2 DEF CfgsInv, CfgsAgree, CfgsTold, CfgsByCrate
    <2>4. DeclaredRufs(world, p) \subseteq FilterRufs(crates_cfgs, at[1], world.rufs[p])
      BY <2>1, <2>3 DEF DeclaredRufs, FilterRufs, NeedsCfgs
    <2> QED BY <2>1, <2>4, UsableMonotone
  <1> QED BY TypeInit, TypeStep, SearchInit, SearchStep, <1>1, <1>2, <1>3, PTL DEF Spec
-----------------------------------------------------------------------------
\* The step in which slow_fix turns to the dependents of the package at hand.
LEMMA TurnsWithoutCandidate ==
    ASSUME [Next]_vars, TurnsToDependents
    PROVE  /\ \A msg \in SearchPanics : ~ GetCandidatesPanics(world, dep_tree, at, msg)
           /\ ~ GetCandidatesFails(world, dep_tree, at)
           /\ LET versions == GetCandidates(world, dep_tree, at) IN
              /\ Usable(at, versions) = {}
              /\ ~ FiltersPanic(at, versions, "no cfgs found")
  <1> DEFINE versions == GetCandidates(world, dep_tree, at)
  <1>1. DownFix
    BY DEF TurnsToDependents, Next, Main, AuditExtract, NewDepManager, CheckRufs, FindIssue,
           UpFix, UpdatePkg, ReExtract, GenerateLockfile, RustcExtract, RustcFix, ExtractPanics,
           Calls, Exited, vars
  <1>2. ~ SlowFixFails /\ \A msg : ~ Panic(msg)
    BY DEF TurnsToDependents, SlowFixFails, Goto, Panic, Finish
  <1>3. /\ \A msg \in SearchPanics : ~ GetCandidatesPanics(world, dep_tree, at, msg)
        /\ ~ GetCandidatesFails(world, dep_tree, at)
        /\ ~ FiltersPanic(at, versions, "no cfgs found")
        /\ Choose(at, versions)
    BY <1>1, <1>2 DEF DownFix, Search, SearchPanics
  <1>4. Usable(at, versions) = {}
    BY <1>3 DEF Choose, TurnsToDependents, Goto
  <1> QED BY <1>3, <1>4

\* Every version that the database records, the dependents accept and the rustc
\* can use was among the candidates, for every registry in which requirements
\* and cfgs are found by name.
THEOREM NoneIsOverlooked ==
    ASSUME BuildScript \notin Crates
    PROVE  Spec => RecordedNotOverlooked
  <1>1. Init => CfgsInv
    BY DEF Init, CfgsInv, CfgsTold
  <1>2. TypeInv /\ CfgsInv /\ [Next]_vars => CfgsInv'
    BY CfgsStep
  <1> DEFINE Overlooked ==
        /\ TurnsToDependents
        /\ RequiredOnce(world) /\ CfgsByCrate(world) /\ NamedAlike(world)
        /\ \E p \in DOMAIN world.deps : p[2] \in RufVersions(world, p[1]) /\ Missed(p)
  <1>3. TypeInv /\ SearchInv /\ CfgsInv /\ [Next]_vars => ~ Overlooked
    <2> SUFFICES ASSUME TypeInv, SearchInv, CfgsInv, [Next]_vars, TurnsToDependents,
                        RequiredOnce(world), CfgsAgree(world),
                        NEW p \in DOMAIN world.deps, p[2] \in RufVersions(world, p[1]), Missed(p)
                 PROVE  FALSE
      BY DEF CfgsAgree
    <2>1. IsWorld(world) /\ lock \subseteq DOMAIN world.deps /\ dep_tree = lock
      BY Worldly, LocksArePackages DEF TypeInv, TypeOK, SearchInv, TreeSync, TurnsToDependents
    <2>2. p = <<at[1], p[2]>> /\ p[1] \in Crates /\ p[2] < at[2]
      <3>1. p \in Crates \X Versions
        BY <2>1 DEF IsWorld, Packages
      <3> QED BY <3>1 DEF Missed
    <2>3. p[2] \in RufVersions(world, at[1])
      BY <2>2
    <2>4. Searched(world, dep_tree, at)
      <3>1. at \notin world.local
        BY DEF TurnsToDependents
      <3>2. GetDepParent(world, dep_tree, at) # {}
        BY <3>1, TurnsWithoutCandidate DEF GetCandidatesPanics, SearchPanics
      <3>3. at[1] \in world.known
        BY <3>1, <3>2, TurnsWithoutCandidate DEF GetCandidatesFails
      <3> QED BY <2>3, <3>1, <3>2, <3>3 DEF Searched
    <2>5. ASSUME NEW q \in GetDepParent(world, dep_tree, at)
          PROVE  ReqMatches(FirstReq(world, q, at[1]), p[2])
      <3>1. q \in DOMAIN world.deps /\ DependsOn(world, q, p, TRUE)
        BY <2>1 DEF GetDepParent, Missed
      <3>2. PICK i \in DOMAIN world.deps[q] :
                world.deps[q][i].name = p[1] /\ ReqMatches(world.deps[q][i], p[2])
        BY <3>1 DEF DependsOn
      <3>3. FirstReq(world, q, p[1]) = world.deps[q][i]
        BY <2>1, <3>1, <3>2, OnlyReq
      <3> QED BY <2>2, <3>2, <3>3
    <2>6. p[2] \in GetCandidates(world, dep_tree, at)
      BY <2>2, <2>3, <2>4, <2>5 DEF GetCandidates
    <2>7. /\ ~ RufsUsable(FilterRufs(crates_cfgs, at[1], world.rufs[p]), world.rustc)
          /\ NeedsCfgs(world.rufs[p]) => at[1] \in DOMAIN crates_cfgs
      BY <2>2, <2>6, TurnsWithoutCandidate DEF Usable, FiltersPanic, FilterPanics
    <2>8. at[1] \in DOMAIN crates_cfgs => crates_cfgs[at[1]] = world.cfgs[p]
      BY <2>2 DEF CfgsInv, CfgsAgree, CfgsTold, CfgsByCrate
    <2>9. FilterRufs(crates_cfgs, at[1], world.rufs[p]) \subseteq DeclaredRufs(world, p)
      BY <2>7, <2>8 DEF DeclaredRufs, FilterRufs, NeedsCfgs, CondHolds
    <2> QED BY <2>7, <2>9, UsableMonotone DEF Missed
  <1>4. ~ Overlooked => (/\ TurnsToDependents
                         /\ RequiredOnce(world) /\ CfgsByCrate(world) /\ NamedAlike(world)
                         => ~ \E p \in DOMAIN world.deps :
                                p[2] \in RufVersions(world, p[1]) /\ Missed(p))
    OBVIOUS
  <1> HIDE DEF Overlooked
  <1> QED BY TypeInit, TypeStep, SearchInit, SearchStep, <1>1, <1>2, <1>3, <1>4, PTL
          DEF Spec, RecordedNotOverlooked
-----------------------------------------------------------------------------
\* Downgrades.

\* No package depends on itself through others, dev-dependencies included.
NoCycles(w) ==
    \A S \in SUBSET DOMAIN w.deps :
        S # {} => \E n \in S : \A p \in S : ~ DependsOn(w, p, n, TRUE)

\* What is reached is reached through something that is.
LEMMA ReachedThrough ==
    ASSUME NEW N, NEW edges \in SUBSET (N \X N), NEW S, S \subseteq N,
           NEW n \in Reachable(N, edges, S), n \notin S
    PROVE  \E m \in Reachable(N, edges, S) : <<m, n>> \in edges
  <1> DEFINE R == Reachable(N, edges, S)
  <1> SUFFICES ASSUME \A m \in R : <<m, n>> \notin edges
               PROVE  FALSE
    OBVIOUS
  <1>1. R \subseteq N /\ S \subseteq R
    BY ReachableStart DEF Reachable
  <1>2. ASSUME NEW e \in edges, e[1] \in R
        PROVE  e[2] \in R
    BY <1>2 DEF Reachable
  <1> HIDE DEF R
  <1>3. \A e \in edges : e[1] \in R \ {n} => e[2] \in R \ {n}
    BY <1>2
  <1>4. S \subseteq R \ {n} /\ R \ {n} \in SUBSET N
    BY <1>1
  <1> QED BY <1>3, <1>4 DEF Reachable

LEMMA ReachableFromDependent ==
    ASSUME NEW N, NEW edges \in SUBSET (N \X N), NEW p, NEW n, <<p, n>> \in edges,
           NEW m \in Reachable(N, edges, {n})
    PROVE  m \in Reachable(N, edges, {p})
  <1>1. p \in N /\ n \in N
    OBVIOUS
  <1>2. p \in Reachable(N, edges, {p})
    BY <1>1, ReachableStart
  <1>3. n \in Reachable(N, edges, {p})
    BY <1>1, <1>2 DEF Reachable
  <1> QED BY <1>3, ReachableOn

LEMMA NoWayBack ==
    ASSUME NEW w, NoCycles(w), NEW L, L \subseteq DOMAIN w.deps,
           NEW n \in L, NEW m \in Reachable(L, LockEdges(w, L), {n}), m # n
    PROVE  <<m, n>> \notin LockEdges(w, L)
  <1> DEFINE edges == LockEdges(w, L)
             From(x) == Reachable(L, edges, {x})
             T == {x \in From(m) : m \in From(x)}
  <1> SUFFICES ASSUME <<m, n>> \in edges
               PROVE  FALSE
    OBVIOUS
  <1>1. edges \in SUBSET (L \X L) /\ m \in L
    BY PairsAre DEF LockEdges, Reachable
  <1>2. m \in T /\ T \subseteq L
    BY <1>1, ReachableStart DEF Reachable
  <1>3. ASSUME NEW x \in T
        PROVE  \E y \in T : <<y, x>> \in edges
    <2>1. ASSUME NEW y \in From(m), <<y, x>> \in edges
          PROVE  y \in T
      BY <1>1, <2>1, ReachableFromDependent
    <2>2. CASE x # m
      BY <1>1, <2>1, <2>2, ReachedThrough
    <2>3. CASE x = m
      <3>1. PICK y \in From(n) : <<y, m>> \in edges
        BY <1>1, ReachedThrough
      <3>2. y \in From(m)
        BY <1>1, <3>1, ReachableFromDependent
      <3> QED BY <2>1, <2>3, <3>1, <3>2
    <2> QED BY <2>2, <2>3
  <1>4. PICK x \in T : \A y \in T : ~ DependsOn(w, y, x, TRUE)
    BY <1>2 DEF NoCycles
  <1> HIDE DEF T, From
  <1> QED BY <1>3, <1>4, PairsAre DEF LockEdges

\* `cargo update --precise` replaces nothing that depends on the package it was
\* asked to replace.
LEMMA DependentsStay ==
    ASSUME NEW w, NoCycles(w), NEW L \in Locks(w), NEW at_ \in L, NEW ver,
           NEW M \in CargoUpdate(w, L, at_, ver),
           NEW p \in L, at_ \in Reachable(L, LockEdges(w, L), {p}), p # at_
    PROVE  p \in M
  <1> DEFINE edges == LockEdges(w, L)
             S == {q \in L \ M : q # at_ /\ at_ \in Reachable(L, edges, {q})}
  <1> SUFFICES ASSUME p \notin M
               PROVE  FALSE
    OBVIOUS
  <1>1. L \subseteq DOMAIN w.deps /\ edges \in SUBSET (L \X L) /\ p \in S
    BY LocksArePackages, PairsAre DEF LockEdges
  <1>2. PICK n \in S : \A q \in S : ~ DependsOn(w, q, n, TRUE)
    BY <1>1 DEF NoCycles
  <1>3. n \in L /\ n \notin w.members
    BY DEF CargoUpdate, Locks
  <1>4. PICK q \in L : DependsOn(w, q, n, TRUE)
    BY <1>3 DEF Locks
  <1>5. <<q, n>> \in edges
    BY <1>3, <1>4, PairsAre DEF LockEdges
  <1>6. at_ \in Reachable(L, edges, {q})
    BY <1>1, <1>5, ReachableFromDependent
  <1>7. q \notin M
    BY <1>3, <1>4 DEF CargoUpdate, Replaces
  <1>8. q # at_
    BY <1>1, <1>3, <1>5, NoWayBack
  <1> QED BY <1>2, <1>4, <1>6, <1>7, <1>8

\* slow_fix only downgrades, and never touches what depends on the package it
\* downgrades: for every registry without dependency cycles.
THEOREM DowngradesOnly ==
    ASSUME \A w \in Worlds : NoCycles(w)
    PROVE  Spec => OnlyDowngrades
  <1> DEFINE Downgrades ==
        pc = "update" /\ lock' # lock =>
         /\ <<at[1], fix_ver>> \in lock' /\ fix_ver < at[2]
         /\ \A p \in lock : at \in Reachable(lock, LockEdges(world, lock), {p})
                => p = at \/ p \in lock'
  <1>1. TypeInv /\ SearchInv /\ [Next]_vars => Downgrades
    <2> SUFFICES ASSUME TypeInv, SearchInv, [Next]_vars, pc = "update", lock' # lock
                 PROVE  /\ <<at[1], fix_ver>> \in lock' /\ fix_ver < at[2]
                        /\ \A p \in lock : at \in Reachable(lock, LockEdges(world, lock), {p})
                              => p = at \/ p \in lock'
      OBVIOUS
    <2>1. UpdatePkg
      BY DEF Next, Main, AuditExtract, NewDepManager, CheckRufs, FindIssue, DownFix, UpFix,
             ReExtract, GenerateLockfile, RustcExtract, RustcFix, ExtractPanics, Calls, Exited,
             vars
    <2>2. lock' \in CargoUpdate(world, lock, at, fix_ver)
      BY <2>1 DEF UpdatePkg, Panic, Finish, SlowFixFails
    <2>3. fix_ver \in GetCandidates(world, dep_tree, at)
      BY DEF SearchInv, FixChosen, Judged, Usable
    <2>4. NoCycles(world) /\ lock \in Locks(world) /\ at \in lock
      BY DEF TypeInv, TypeOK, AtInTree, SearchInv, TreeSync
    <2>5. <<at[1], fix_ver>> \in lock'
      BY <2>2 DEF CargoUpdate, Replaces
    <2>6. fix_ver < at[2]
      BY <2>3 DEF GetCandidates
    <2> QED BY <2>2, <2>4, <2>5, <2>6, DependentsStay
  <1> HIDE DEF Downgrades
  <1>2. Downgrades <=> (pc = "update" /\ lock' # lock =>
         /\ <<at[1], fix_ver>> \in lock' /\ fix_ver < at[2]
         /\ \A p \in lock : at \in Reachable(lock, LockEdges(world, lock), {p})
                => p = at \/ p \in lock')
    BY DEF Downgrades
  <1> QED BY TypeInit, TypeStep, SearchInit, SearchStep, <1>1, <1>2, PTL
          DEF Spec, OnlyDowngrades

\* A dependent is above its package, and what is above it is above both.
LEMMA DependentsAreAbove ==
    ASSUME NoCycles(world), dep_tree \subseteq DOMAIN world.deps,
           NEW n, NEW p \in GetDepParent(world, dep_tree, n)
    PROVE  Above(p) \subseteq Above(n) \ {n}
  <1> DEFINE edges == LockEdges(world, dep_tree)
             From(x) == Reachable(dep_tree, edges, {x})
  <1>1. p \in dep_tree /\ n \in dep_tree /\ <<p, n>> \in edges
    BY PairsAre DEF GetDepParent, LockEdges
  <1>2. edges \in SUBSET (dep_tree \X dep_tree)
    BY PairsAre DEF LockEdges
  <1>3. n \in From(p)
    BY <1>1, <1>2, ReachableStart, ReachableFromDependent
  <1>4. p # n
    <2>1. {n} \in SUBSET DOMAIN world.deps
      BY <1>1
    <2> QED BY <1>1, <2>1, PairsAre DEF NoCycles, LockEdges
  <1>5. p \notin From(n)
    BY <1>1, <1>4, NoWayBack
  <1>6. ASSUME NEW q \in Above(p)
        PROVE  q \in Above(n)
    BY <1>3, ReachableOn DEF Above
  <1> QED BY <1>5, <1>6 DEF Above

\* up_fix never comes back to a package it climbed from, so that a climb has no
\* more steps than packages are locked: for every registry without dependency
\* cycles.
THEOREM ClimbGoesUp ==
    ASSUME \A w \in Worlds : NoCycles(w)
    PROVE  Spec => ClimbsUp
  <1>1. TypeInv /\ SearchInv /\ [Next]_vars
            => [pc = "up" /\ pc' = "up" => Above(at') \subseteq Above(at) \ {at}]_vars
    <2> SUFFICES ASSUME TypeInv, SearchInv, Next, pc = "up", pc' = "up", ~ UNCHANGED vars
                 PROVE  Above(at') \subseteq Above(at) \ {at}
      OBVIOUS
    <2>1. UpFix
      BY DEF Next, Main, AuditExtract, NewDepManager, CheckRufs, FindIssue, DownFix,
             UpdatePkg, ReExtract, GenerateLockfile, RustcExtract, RustcFix, ExtractPanics,
             Calls, Exited
    <2>2. at \in DOMAIN req_by /\ at' = req_by[at]
      BY <2>1 DEF UpFix, Search, Choose, SlowFixFails, Goto, Panic, Finish
    <2>3. at' \in GetDepParent(world, dep_tree, at)
      BY <2>2 DEF TypeInv, ReqByCurrent
    <2>4. NoCycles(world) /\ dep_tree \subseteq DOMAIN world.deps
      BY LocksArePackages DEF TypeInv, TypeOK
    <2> QED BY <2>3, <2>4, DependentsAreAbove
  <1> QED BY TypeInit, TypeStep, SearchInit, SearchStep, <1>1, PTL DEF Spec, ClimbsUp
-----------------------------------------------------------------------------
\* Why the rounds of slow_fix end: an update leaves all alone but one package,
\* which gets older, and what its crate leads to.

LEMMA CrateLeadsTo ==
    ASSUME NEW w, IsWorld(w), NEW q \in DOMAIN w.deps, NEW p \in DOMAIN w.deps,
           DependsOn(w, q, p, TRUE)
    PROVE  /\ p[1] \in CratesBelow(w, q[1])
           /\ \A c : q[1] \in CratesBelow(w, c) => p[1] \in CratesBelow(w, c)
           /\ \A c : c \in CratesBelow(w, p[1]) => c \in CratesBelow(w, q[1])
  <1>1. <<q[1], p[1]>> \in CrateEdges(w) /\ p[1] \in Crates
    BY DEF IsWorld, Packages, CrateEdges
  <1>2. p[1] \in {e[2] : e \in {e \in CrateEdges(w) : e[1] = q[1]}}
    BY <1>1
  <1> QED BY <1>1, <1>2 DEF CratesBelow, Reachable

\* Versions that one requirement allows are of one major.
LEMMA OneMajorAllowed ==
    ASSUME NEW w, IsWorld(w), OneMajor(w), NEW p \in DOMAIN w.deps,
           NEW i \in DOMAIN w.deps[p], NEW v \in Versions, NEW u \in Versions,
           ReqMatches(w.deps[p][i], v), ReqMatches(w.deps[p][i], u)
    PROVE  Major(v) = Major(u)
  <1>1. w.deps[p] \in Seq(Dependency)
    BY DEF IsWorld
  <1>2. w.deps[p][i] \in Dependency
    BY <1>1
  <1>3. w.deps[p][i].lo \in Versions /\ w.deps[p][i].hi \in Versions
    BY <1>2 DEF Dependency
  <1>4. ASSUME NEW lo \in Nat, NEW hi \in Nat, NEW x \in Nat, lo <= x, x <= hi,
               lo \div 10 = hi \div 10
        PROVE  x \div 10 = lo \div 10
    BY <1>4
  <1>5. w.deps[p][i].lo \div 10 = w.deps[p][i].hi \div 10
    BY DEF OneMajor, Major
  <1>6. v \div 10 = w.deps[p][i].lo \div 10 /\ u \div 10 = w.deps[p][i].lo \div 10
    <2> DEFINE lo == w.deps[p][i].lo
               hi == w.deps[p][i].hi
    <2>1. lo \in Nat /\ hi \in Nat /\ v \in Nat /\ u \in Nat
      BY <1>3, VersionsAssumption
    <2>2. lo <= v /\ v <= hi /\ lo <= u /\ u <= hi
      BY DEF ReqMatches
    <2>3. lo \div 10 = hi \div 10
      BY <1>5
    <2> HIDE DEF lo, hi
    <2>4. v \div 10 = lo \div 10 /\ u \div 10 = lo \div 10
      BY <1>4, <2>1, <2>2, <2>3
    <2> QED BY <2>4 DEF lo
  <1> QED BY <1>6 DEF Major

\* A version that suits the dependents of a package is of its major.
LEMMA SuitableMajor ==
    ASSUME NEW w, IsWorld(w), RequiredOnce(w), OneMajor(w), NEW L \in Locks(w), NEW n \in L,
           GetDepParent(w, L, n) # {}, NEW ver \in Versions,
           \A p \in GetDepParent(w, L, n) : ReqMatches(FirstReq(w, p, n[1]), ver)
    PROVE  Major(ver) = Major(n[2])
  <1>1. PICK r \in L : r \in GetDepParent(w, L, n) /\ DependsOn(w, r, n, TRUE)
    BY PairsAre DEF GetDepParent, LockEdges
  <1>2. r \in DOMAIN w.deps /\ n[2] \in Versions
    BY LocksArePackages DEF IsWorld, Packages
  <1>3. PICK i \in DOMAIN w.deps[r] : w.deps[r][i].name = n[1] /\ ReqMatches(w.deps[r][i], n[2])
    BY <1>1 DEF DependsOn
  <1>4. FirstReq(w, r, n[1]) = w.deps[r][i]
    BY <1>2, <1>3, OnlyReq
  <1>5. ReqMatches(w.deps[r][i], ver)
    BY <1>1, <1>4
  <1> QED BY <1>2, <1>3, <1>5, OneMajorAllowed

LEMMA UpdateStaysBelow ==
    ASSUME NEW w, IsWorld(w), RequiredOnce(w), OneMajor(w), CratesAcyclic(w),
           NEW L \in Locks(w), NEW n \in L, GetDepParent(w, L, n) # {}, NEW ver,
           \A p \in GetDepParent(w, L, n) : ReqMatches(FirstReq(w, p, n[1]), ver),
           NEW M \in CargoUpdate(w, L, n, ver),
           NEW p \in (L \ M) \cup (M \ L), p \notin {n, <<n[1], ver>>}
    PROVE  p[1] \in CratesBelow(w, n[1])
  <1> DEFINE fix == <<n[1], ver>>
             Odd == {q \in (L \ M) \cup (M \ L) :
                        q \notin {n, fix} /\ q[1] \notin CratesBelow(w, n[1])}
             S == {q[1] : q \in Odd}
  <1> SUFFICES ASSUME p \in Odd
               PROVE  FALSE
    OBVIOUS
  <1>1. /\ L \subseteq DOMAIN w.deps /\ M \subseteq DOMAIN w.deps /\ M \in Locks(w)
        /\ fix \in M /\ n \notin M
        /\ \A kept \in L \cap M, gone \in L \ M : DependsOn(w, kept, gone, TRUE) => gone = n
    BY DEF CargoUpdate, Replaces, Locks
  <1>2. \A q \in DOMAIN w.deps : q \in Crates \X Versions
    BY DEF IsWorld, Packages
  <1>3. PICK q \in Odd : \A r \in Odd : ~ DependsOn(w, r, q, TRUE)
    <2>1. S \in SUBSET Crates /\ S # {}
      BY <1>1, <1>2
    <2>2. PICK c \in S : \A d \in S : <<d, c>> \notin CrateEdges(w)
      BY <2>1 DEF CratesAcyclic
    <2>3. PICK q \in Odd : q[1] = c
      BY <2>2
    <2>4. \A r \in Odd : DependsOn(w, r, q, TRUE) => <<r[1], c>> \in CrateEdges(w)
      BY <1>1, <1>2, <2>3 DEF CrateEdges
    <2> QED BY <2>2, <2>3, <2>4
  <1>4. q \in DOMAIN w.deps
    BY <1>1
  <1>5. \A r \in DOMAIN w.deps : DependsOn(w, r, q, TRUE)
            => r \notin {n, fix} /\ r[1] \notin CratesBelow(w, n[1])
    <2>1. ASSUME NEW r \in DOMAIN w.deps, DependsOn(w, r, q, TRUE)
          PROVE  r \notin {n, fix} /\ r[1] \notin CratesBelow(w, n[1])
      <3>1. /\ q[1] \in CratesBelow(w, r[1])
            /\ r[1] \in CratesBelow(w, n[1]) => q[1] \in CratesBelow(w, n[1])
        BY <1>4, <2>1, CrateLeadsTo
      <3>2. q[1] \notin CratesBelow(w, n[1])
        OBVIOUS
      <3>3. r \in {n, fix} => r[1] = n[1]
        OBVIOUS
      <3> QED BY <3>1, <3>2, <3>3
    <2> QED BY <2>1
  <1>6. CASE q \in L \ M
    <2>1. PICK r \in L : DependsOn(w, r, q, TRUE)
      BY <1>1, <1>6 DEF Locks
    <2>2. r \in L \ M
      BY <1>1, <1>3, <1>6, <2>1
    <2> QED BY <1>1, <1>3, <1>5, <2>1, <2>2
  <1>7. CASE q \in M \ L
    <2>1. PICK r \in M : DependsOn(w, r, q, TRUE)
      BY <1>1, <1>7 DEF Locks
    <2>2. r \in L
      BY <1>1, <1>3, <1>5, <2>1
    <2>3. PICK i \in DOMAIN w.deps[r] :
              /\ w.deps[r][i].name = q[1] /\ ReqMatches(w.deps[r][i], q[2])
              /\ w.deps[r][i].dev => r \in w.members
      BY <2>1 DEF DependsOn
    <2>4. PICK old \in L : old[1] = q[1] /\ ReqMatches(w.deps[r][i], old[2])
      BY <2>2, <2>3 DEF Locks
    <2>5. DependsOn(w, r, old, TRUE) /\ Major(old[2]) = Major(q[2])
      BY <1>1, <1>2, <1>4, <2>1, <2>3, <2>4, OneMajorAllowed DEF DependsOn
    <2>6. old \notin M
      BY <1>1, <1>7, <2>4, <2>5 DEF Locks
    <2>7. old = n
      BY <1>1, <2>1, <2>2, <2>4, <2>5, <2>6
    <2>8. Major(ver) = Major(n[2])
      BY <1>1, <1>2, SuitableMajor
    <2>9. fix[1] = q[1] /\ Major(fix[2]) = Major(q[2])
      BY <2>4, <2>5, <2>7, <2>8
    <2> QED BY <1>1, <1>3, <1>7, <2>9 DEF Locks
  <1> QED BY <1>6, <1>7

LEMMA UpdateSlims ==
    ASSUME NEW w, IsWorld(w), RequiredOnce(w), OneMajor(w), CratesAcyclic(w),
           NEW L \in Locks(w), NEW n \in L, GetDepParent(w, L, n) # {},
           NEW ver, ver < n[2],
           \A p \in GetDepParent(w, L, n) : ReqMatches(FirstReq(w, p, n[1]), ver),
           NEW M \in CargoUpdate(w, L, n, ver)
    PROVE  Slimmer(w, M, L)
  <1> DEFINE fix == <<n[1], ver>>
  <1>1. M \in Locks(w) /\ fix \in M /\ n \notin M
    BY DEF CargoUpdate, Replaces
  <1>2. ver \in Versions
    BY <1>1, LocksArePackages DEF IsWorld, Packages
  <1>3. Slot(fix) = Slot(n) /\ fix # n
    BY <1>1, <1>2, SuitableMajor DEF Slot
  <1>4. fix \notin L
    BY <1>3 DEF Slot, Locks
  <1>5. ASSUME NEW p \in Changed(M, L)
        PROVE  \/ \E q \in Changed(M, L) : p[1] \in CratesBelow(w, q[1])
               \/ \E new \in M \ L, old \in L \ M :
                     Slot(new) = Slot(p) /\ Slot(old) = Slot(p) /\ new[2] < old[2]
    <2>1. CASE p \in {n, fix}
      <3>1. fix \in M \ L /\ n \in L \ M /\ Slot(fix) = Slot(p) /\ Slot(n) = Slot(p) /\ fix[2] < n[2]
        BY <1>1, <1>3, <1>4, <2>1
      <3> HIDE DEF fix
      <3> QED BY <3>1
    <2>2. CASE p \notin {n, fix}
      <3>1. p \in (L \ M) \cup (M \ L)
        BY DEF Changed
      <3>2. p[1] \in CratesBelow(w, n[1])
        BY <2>2, <3>1, UpdateStaysBelow
      <3>3. n \in Changed(M, L)
        BY <1>1 DEF Changed
      <3> QED BY <3>2, <3>3
    <2> QED BY <2>1, <2>2
  <1> HIDE DEF fix
  <1> QED BY <1>1, <1>5 DEF Slimmer

\* Each update slims the candidates down, in every registry in which no package
\* requires a crate twice or two majors of it at once, and no crate depends on
\* itself through others.
THEOREM UpdatesSlimDown == Spec => SlimsDown
  <1> DEFINE Slims ==
        /\ pc = "update" /\ lock' # lock
        /\ RequiredOnce(world) /\ OneMajor(world) /\ CratesAcyclic(world)
        => Slimmer(world, lock', lock)
  <1>1. TypeInv /\ SearchInv /\ [Next]_vars => Slims
    <2> SUFFICES ASSUME TypeInv, SearchInv, [Next]_vars, pc = "update", lock' # lock,
                        RequiredOnce(world), OneMajor(world), CratesAcyclic(world)
                 PROVE  Slimmer(world, lock', lock)
      OBVIOUS
    <2>1. UpdatePkg
      BY DEF Next, Main, AuditExtract, NewDepManager, CheckRufs, FindIssue, DownFix, UpFix,
             ReExtract, GenerateLockfile, RustcExtract, RustcFix, ExtractPanics, Calls, Exited,
             vars
    <2>2. lock' \in CargoUpdate(world, lock, at, fix_ver)
      BY <2>1 DEF UpdatePkg, Panic, Finish, SlowFixFails
    <2>3. fix_ver \in GetCandidates(world, lock, at) /\ at \in lock
      BY DEF SearchInv, FixChosen, Judged, Usable, TreeSync, TypeInv, AtInTree
    <2>4. /\ GetDepParent(world, lock, at) # {} /\ fix_ver < at[2]
          /\ \A p \in GetDepParent(world, lock, at) :
                ReqMatches(FirstReq(world, p, at[1]), fix_ver)
      BY <2>3 DEF GetCandidates, Searched
    <2>5. IsWorld(world) /\ lock \in Locks(world)
      BY Worldly DEF TypeInv, TypeOK
    <2> QED BY <2>2, <2>3, <2>4, <2>5, UpdateSlims
  <1>2. Slims <=> (/\ pc = "update" /\ lock' # lock
                  /\ RequiredOnce(world) /\ OneMajor(world) /\ CratesAcyclic(world)
                  => Slimmer(world, lock', lock))
    OBVIOUS
  <1> HIDE DEF Slims
  <1> QED BY TypeInit, TypeStep, SearchInit, SearchStep, <1>1, <1>2, PTL DEF Spec, SlimsDown

\* What the rounds of slow_fix go down is an order: the crates are in one that
\* has a first among any of them, and what differs in two of three lock files at
\* a first of the crates tells the third.

LEMMA CratesBelowBelow ==
    ASSUME NEW w, NEW x, NEW y \in CratesBelow(w, x), NEW z \in CratesBelow(w, y)
    PROVE  z \in CratesBelow(w, x)
  <1> DEFINE After(c) == {e[2] : e \in {e \in CrateEdges(w) : e[1] = c}}
  <1>1. \A c : CratesBelow(w, c) = Reachable(Crates, CrateEdges(w), After(c))
    BY DEF CratesBelow
  <1>2. z \in Crates
    BY <1>1 DEF Reachable
  <1>3. ASSUME NEW T \in SUBSET Crates, After(x) \subseteq T,
               \A e \in CrateEdges(w) : e[1] \in T => e[2] \in T
        PROVE  z \in T
    <2>1. y \in T
      BY <1>1, <1>3 DEF Reachable
    <2>2. After(y) \subseteq T
      BY <1>3, <2>1
    <2> HIDE DEF After
    <2> QED BY <1>1, <1>3, <2>2 DEF Reachable
  <1> HIDE DEF After
  <1> QED BY <1>1, <1>2, <1>3 DEF Reachable

LEMMA FirstCrate ==
    ASSUME NEW w, CratesAcyclic(w), NEW S \in SUBSET Crates, S # {}
    PROVE  \E c \in S : \A d \in S : c \notin CratesBelow(w, d)
  <1> DEFINE Between == {x \in Crates : /\ \E s \in S : x = s \/ x \in CratesBelow(w, s)
                                        /\ \E s \in S : s = x \/ s \in CratesBelow(w, x)}
             After(c) == {e[2] : e \in {e \in CrateEdges(w) : e[1] = c}}
  <1>1. PICK c \in Between : \A d \in Between : <<d, c>> \notin CrateEdges(w)
    BY DEF CratesAcyclic
  <1>2. ASSUME NEW s \in S, c \in CratesBelow(w, s)
        PROVE  FALSE
    <2>1. \A x : /\ CratesBelow(w, x) = Reachable(Crates, CrateEdges(w), After(x))
                 /\ After(x) \subseteq Crates
      BY DEF CratesBelow, CrateEdges
    <2>2. \A x, y : <<x, y>> \in CrateEdges(w) =>
              x \in Crates /\ y \in After(x) /\ After(x) \subseteq CratesBelow(w, x)
      <3>1. \A x : After(x) \subseteq CratesBelow(w, x)
        <4> HIDE DEF After
        <4> QED BY <2>1, ReachableStart
      <3> QED BY <3>1 DEF CrateEdges
    <2>3. \E m \in Crates : (m = s \/ m \in CratesBelow(w, s)) /\ <<m, c>> \in CrateEdges(w)
      <3>1. CASE c \in After(s)
        BY <3>1 DEF CrateEdges
      <3>2. CASE c \notin After(s)
        <4>1. CrateEdges(w) \in SUBSET (Crates \X Crates)
          BY DEF CrateEdges
        <4>2. PICK m \in CratesBelow(w, s) : <<m, c>> \in CrateEdges(w)
          <5>1. c \in Reachable(Crates, CrateEdges(w), After(s)) /\ After(s) \subseteq Crates
            BY <1>2, <2>1
          <5> HIDE DEF After
          <5>2. \E m \in Reachable(Crates, CrateEdges(w), After(s)) : <<m, c>> \in CrateEdges(w)
            BY <3>2, <4>1, <5>1, ReachedThrough
          <5> QED BY <2>1, <5>2
        <4> QED BY <2>2, <4>2
      <3> QED BY <3>1, <3>2
    <2>4. PICK m \in Crates : (m = s \/ m \in CratesBelow(w, s)) /\ <<m, c>> \in CrateEdges(w)
      BY <2>3
    <2>5. c \in CratesBelow(w, m)
      BY <2>2, <2>4
    <2>6. \E t \in S : t \in CratesBelow(w, m)
      BY <2>5, CratesBelowBelow
    <2> QED BY <1>1, <2>4, <2>6
  <1>3. c \in S
    BY <1>2
  <1> QED BY <1>2, <1>3
LEMMA SlotOnce ==
    ASSUME NEW w, NEW L \in Locks(w), NEW p \in L, NEW q \in L, Slot(p) = Slot(q)
    PROVE  p = q
  BY DEF Slot, Locks

\* Where nothing above differs, a slimmer lock file has an older version.
LEMMA SlimmerFirst ==
    ASSUME NEW w, NEW M, NEW L, Slimmer(w, M, L), NEW p \in Changed(M, L),
           \A q \in Changed(M, L) : p[1] \notin CratesBelow(w, q[1])
    PROVE  \E new \in M \ L, old \in L \ M :
              Slot(new) = Slot(p) /\ Slot(old) = Slot(p) /\ new[2] < old[2]
  BY DEF Slimmer

\* Three lock files, the second slimmer than the first and the third than the
\* second: a package in which the first and the third differ.
LEMMA SlimmerThrough ==
    ASSUME NEW w, CratesAcyclic(w), NEW K \in Locks(w), NEW M \in Locks(w), NEW L \in Locks(w),
           \A p \in K \cup M \cup L : p \in Crates \X Nat,
           Slimmer(w, K, M), Slimmer(w, M, L), NEW p \in Changed(K, M) \cup Changed(M, L),
           \A q \in Changed(K, L) : p[1] \notin CratesBelow(w, q[1])
    PROVE  /\ \A q \in Changed(K, M) \cup Changed(M, L) : p[1] \notin CratesBelow(w, q[1])
           /\ \E new \in K \ L, old \in L \ K :
                 Slot(new) = Slot(p) /\ Slot(old) = Slot(p) /\ new[2] < old[2]
  <1> DEFINE All == Changed(K, M) \cup Changed(M, L)
             S == {q[1] : q \in {q \in All : q = p \/ p[1] \in CratesBelow(w, q[1])}}
  <1>1. All \subseteq Crates \X Nat
    BY DEF Changed
  <1>2. PICK c \in S : \A d \in S : c \notin CratesBelow(w, d)
    <2>1. S \in SUBSET Crates /\ S # {}
      BY <1>1
    <2> HIDE DEF S
    <2> QED BY <2>1, FirstCrate
  <1>3. PICK t \in All : t[1] = c /\ (t = p \/ p[1] \in CratesBelow(w, t[1]))
    OBVIOUS
  <1>4. \A q \in All : t[1] \notin CratesBelow(w, q[1])
    <2> SUFFICES ASSUME NEW q \in All, t[1] \in CratesBelow(w, q[1])
                 PROVE  FALSE
      OBVIOUS
    <2>1. p[1] \in CratesBelow(w, q[1])
      BY <1>3, CratesBelowBelow
    <2> QED BY <1>2, <1>3, <2>1
  \* At t, where nothing above differs among the three, the first and third differ.
  <1>5. PICK new \in K \ L, old \in L \ K :
            Slot(new) = Slot(t) /\ Slot(old) = Slot(t) /\ new[2] < old[2]
    <2>1. ASSUME t \in Changed(K, M)
          PROVE  \E x \in K \ M, y \in M \ K : Slot(x) = Slot(t) /\ Slot(y) = Slot(t) /\ x[2] < y[2]
      BY <1>4, <2>1, SlimmerFirst
    <2>2. ASSUME t \in Changed(M, L)
          PROVE  \E x \in M \ L, y \in L \ M : Slot(x) = Slot(t) /\ Slot(y) = Slot(t) /\ x[2] < y[2]
      BY <1>4, <2>2, SlimmerFirst
    <2>3. ASSUME NEW q \in All, Slot(q) = Slot(t)
          PROVE  \A r \in All : q[1] \notin CratesBelow(w, r[1])
      BY <1>4, <2>3 DEF Slot
    <2>4. ASSUME NEW y \in M \ K, y \in M \ L, Slot(y) = Slot(t)
          PROVE  \E x \in K \ M : Slot(x) = Slot(t) /\ x[2] < y[2]
      <3>1. y \in Changed(K, M)
        BY DEF Changed
      <3>2. PICK x \in K \ M, z \in M \ K : Slot(x) = Slot(y) /\ Slot(z) = Slot(y) /\ x[2] < z[2]
        BY <2>3, <2>4, <3>1, SlimmerFirst
      <3>3. z = y
        BY <3>2, SlotOnce
      <3> QED BY <2>4, <3>2, <3>3
    <2>5. ASSUME NEW y \in M \ K, y \in M \ L, Slot(y) = Slot(t)
          PROVE  \E z \in L \ M : Slot(z) = Slot(t) /\ y[2] < z[2]
      <3>1. y \in Changed(M, L)
        BY <2>5 DEF Changed
      <3>2. PICK x \in M \ L, z \in L \ M : Slot(x) = Slot(y) /\ Slot(z) = Slot(y) /\ x[2] < z[2]
        BY <2>3, <2>5, <3>1, SlimmerFirst
      <3>3. x = y
        BY <3>2, SlotOnce
      <3> QED BY <2>5, <3>2, <3>3
    \* The version of the second lock file is in one of the others, or in none.
    <2>6. PICK m \in M : Slot(m) = Slot(t) /\ ~ (m \in K /\ m \in L)
      BY <2>1, <2>2 DEF Changed
    <2>7. CASE m \notin K /\ m \notin L
      <3>1. PICK x \in K \ M, z \in L \ M :
                Slot(x) = Slot(t) /\ Slot(z) = Slot(t) /\ x[2] < m[2] /\ m[2] < z[2]
        BY <2>4, <2>5, <2>6, <2>7
      <3>2. x[2] < z[2] /\ x # z
        BY <2>6, <3>1
      <3>3. x \notin L /\ z \notin K
        BY <3>1, <3>2, SlotOnce
      <3> QED BY <3>1, <3>2, <3>3
    <2>8. CASE m \notin K /\ m \in L
      <3>1. m \in Changed(K, M)
        BY <2>8 DEF Changed
      <3>2. PICK x \in K \ M, z \in M \ K : Slot(x) = Slot(t) /\ Slot(z) = Slot(t) /\ x[2] < z[2]
        BY <2>3, <2>6, <3>1, SlimmerFirst
      <3>3. z = m
        BY <2>6, <3>2, SlotOnce
      <3>4. x \notin L
        BY <2>6, <2>8, <3>2, SlotOnce
      <3> QED BY <2>6, <2>8, <3>2, <3>3, <3>4
    <2>9. CASE m \in K /\ m \notin L
      <3>1. m \in Changed(M, L)
        BY <2>9 DEF Changed
      <3>2. PICK x \in M \ L, z \in L \ M : Slot(x) = Slot(t) /\ Slot(z) = Slot(t) /\ x[2] < z[2]
        BY <2>3, <2>6, <3>1, SlimmerFirst
      <3>3. x = m
        BY <2>6, <3>2, SlotOnce
      <3>4. z \notin K
        BY <2>6, <2>9, <3>2, SlotOnce
      <3> QED BY <2>6, <2>9, <3>2, <3>3, <3>4
    <2> QED BY <2>6, <2>7, <2>8, <2>9
  <1>6. t = p
    <2>1. new \in Changed(K, L) /\ new[1] = t[1]
      BY <1>5 DEF Changed, Slot
    <2> QED BY <1>3, <2>1
  <1> HIDE DEF All, S
  <1> QED BY <1>4, <1>5, <1>6 DEF All

\* Slimmer is a strict order of the lock files of a registry in which no crate
\* depends on itself through others: no sequence of updates, each to a slimmer
\* lock file, comes back to where it was.
THEOREM SlimmerIsOrder ==
    ASSUME NEW w, IsWorld(w), CratesAcyclic(w), NEW K \in Locks(w), NEW M \in Locks(w),
           NEW L \in Locks(w)
    PROVE  /\ ~ Slimmer(w, L, L)
           /\ Slimmer(w, K, M) /\ Slimmer(w, M, L) => Slimmer(w, K, L)
  <1>1. ~ Slimmer(w, L, L)
    BY DEF Slimmer
  <1>2. ASSUME Slimmer(w, K, M), Slimmer(w, M, L)
        PROVE  Slimmer(w, K, L)
    <2>1. \A p \in K \cup M \cup L : p \in Crates \X Nat
      <3>1. K \cup M \cup L \subseteq DOMAIN w.deps
        BY LocksArePackages
      <3>2. DOMAIN w.deps \subseteq Crates \X Versions
        BY DEF IsWorld, Packages
      <3>3. \A p \in Crates \X Versions : p \in Crates \X Nat
        BY VersionsAssumption
      <3> QED BY <3>1, <3>2, <3>3
    <2>2. ASSUME NEW p \in Changed(K, L), \A q \in Changed(K, L) : p[1] \notin CratesBelow(w, q[1])
          PROVE  \E new \in K \ L, old \in L \ K :
                    Slot(new) = Slot(p) /\ Slot(old) = Slot(p) /\ new[2] < old[2]
      <3>1. p \in Changed(K, M) \cup Changed(M, L)
        BY DEF Changed
      <3> QED BY <1>2, <2>1, <2>2, <3>1, SlimmerThrough
    <2>3. K # L
      <3> SUFFICES ASSUME K = L
                   PROVE  FALSE
        OBVIOUS
      <3>1. Changed(K, L) = {} /\ K \ L = {}
        BY DEF Changed
      <3>2. PICK p : p \in Changed(K, M)
        BY <1>2 DEF Slimmer, Changed
      <3> QED BY <1>2, <2>1, <3>1, <3>2, SlimmerThrough
    <2> QED BY <2>2, <2>3 DEF Slimmer
  <1> QED BY <1>1, <1>2
-----------------------------------------------------------------------------
\* Cfgs are those of the present lock file.

\* The packages compiled from c are recorded, with the cfgs they have (unless one
\* has the name that build scripts are compiled under).
Told(w, L, cfgs, c) ==
    \A n \in L : c \in Needs(w, L, n) =>
        n[1] \in DOMAIN cfgs /\ (n[1] # BuildScript => cfgs[n[1]] = w.cfgs[n])

\* A package reported with an unusable ruf was not fresh; so nothing that is
\* compiled from it was, and all of it is reported with it.
LEMMA FlaggedIsTold ==
    ASSUME NEW w, NamedAlike(w), NEW L, L \subseteq DOMAIN w.deps, OnePerCrate(L),
           AllCompiled(w, L), NEW b, TargetSound(w, b),
           NEW e \in Extractions(w, L, b), ~ e.incomplete, NEW cfgs,
           NEW c \in L, c[1] \in DOMAIN Extract(e.infos),
           ~ RufsUsable(Extract(e.infos)[c[1]], w.rustc)
    PROVE  Told(w, L, UpdateBuildCfgs(cfgs, e.infos), c)
  <1> DEFINE infos == e.infos
  <1>1. PICK failed : infos = ScannerOutput(w, L, b, failed) /\ ~ Incomplete(w, L, failed)
    <2>1. ASSUME NEW failed, ~ Incomplete(w, L, failed), NEW late \in LateFailures(w, L, failed)
          PROVE  LateOutput(w, late) = {}
      BY <2>1 DEF Incomplete, LateFailures, LateOutput
    <2>2. PICK failed : /\ ~ Incomplete(w, L, failed)
                        /\ \E late \in LateFailures(w, L, failed) :
                              e.infos = ScannerOutput(w, L, b, failed) \cup LateOutput(w, late)
      BY ExtractionCases
    <2>3. e.infos = ScannerOutput(w, L, b, failed) \cup {}
      BY <2>1, <2>2
    <2> QED BY <2>2, <2>3
  <1> HIDE DEF infos
  <1>2. PICK ruf \in Extract(infos)[c[1]] : ~ RufsUsable({ruf}, w.rustc)
    BY DEF RufsUsable, infos
  <1>3. PICK info \in infos : info.crate_name = c[1] /\ ruf \in info.used_rufs
    BY <1>2 DEF Extract, infos
  <1>4. \A p \in Compiled(w, L) : p \in L /\ p \in DOMAIN w.deps /\ w.lib[p[1]] = p[1]
    BY CompiledIsLocked DEF NamedAlike
  <1>5. \A p \in ScannedBuilds(w, L, b, failed) : info # BuildCheckInfo(w, p)
    BY <1>2, <1>3, <1>4 DEF ScannedBuilds, BuildCheckInfo, NamedAlike, RufsUsable
  <1>6. c \in Scanned(w, L, b, failed)
    <2>1. PICK p \in Scanned(w, L, b, failed) : info = CheckInfo(w, p)
      BY <1>1, <1>3, <1>5 DEF ScannerOutput
    <2>2. p \in L /\ p[1] = c[1]
      BY <1>3, <1>4, <2>1 DEF Scanned, Reached, CheckInfo
    <2> QED BY <2>1, <2>2 DEF OnePerCrate
  <1> SUFFICES ASSUME NEW n \in L, c \in Needs(w, L, n)
               PROVE  /\ n[1] \in DOMAIN UpdateBuildCfgs(cfgs, infos)
                      /\ n[1] # BuildScript => UpdateBuildCfgs(cfgs, infos)[n[1]] = w.cfgs[n]
    BY DEF Told, infos
  <1>7. LibUnit(w, L, n) \notin b
    <2>1. LibUnit(w, Needs(w, L, n), c) = LibUnit(w, L, c)
      BY NeedsWithin
    <2> QED BY <1>6, <2>1 DEF Scanned, TargetSound, LibUnit
  <1>8. CheckInfo(w, n) \in infos
    BY <1>1, <1>7, CompleteScans DEF AllCompiled, ScannerOutput
  <1>9. ASSUME NEW other \in infos, other.crate_name = n[1], n[1] # BuildScript
        PROVE  other.cfg = w.cfgs[n]
    <2>1. PICK p \in Compiled(w, L) : other = CheckInfo(w, p) \/ other = BuildCheckInfo(w, p)
      BY <1>1 DEF ScannerOutput, Scanned, ScannedBuilds, Reached
    <2>2. CASE other = CheckInfo(w, p)
      BY <1>4, <1>9, <2>1, <2>2 DEF CheckInfo, OnePerCrate
    <2> QED BY <1>9, <2>1, <2>2 DEF BuildCheckInfo
  <1>10. n[1] = CheckInfo(w, n).crate_name /\ CheckInfo(w, n).cfg = w.cfgs[n]
    BY <1>4 DEF CheckInfo, AllCompiled
  <1>11. n[1] \in Reported(infos)
    BY <1>8, <1>10 DEF Reported
  <1>12. n[1] # BuildScript =>
             UNION {i.cfg : i \in {i \in infos : i.crate_name = n[1]}} = w.cfgs[n]
    BY <1>8, <1>9, <1>10
  <1> QED BY <1>11, <1>12 DEF UpdateBuildCfgs

Definite ==
    ~ incomplete /\ NamedAlike(world) /\ OnePerCrate(lock) /\ AllCompiled(world, lock)

\* The inductive invariant: what is reported unusable is told, and so is each
\* package up_fix climbs to, since all that is compiled from it is compiled
\* from the package it climbed from.
ReportedTold ==
    pc \in {"new", "check", "find", "down", "up"} /\ Definite =>
        \A c \in lock : c[1] \in DOMAIN used_rufs /\ ~ RufsUsable(used_rufs[c[1]], world.rustc)
            => Told(world, lock, crates_cfgs, c)

ClimbedTold ==
    pc = "up" /\ Definite /\ at \notin world.local => Told(world, lock, crates_cfgs, at)

ToldInv ==
    /\ TargetSound(world, built) /\ ReportedTold /\ ClimbedTold
    /\ DOMAIN req_by \cap world.local = {}

LEMMA OtherStepTold ==
    ASSUME ToldInv, UNCHANGED <<setting, config, lock>>,
           DOMAIN req_by' \subseteq DOMAIN req_by,
           pc' # "up",
           pc' \in {"check", "find", "down"} => pc \in {"new", "check", "find", "down", "up"},
           pc' # "new"
    PROVE  ToldInv'
  BY DEF ToldInv, ReportedTold, ClimbedTold, Definite, setting, config

LEMMA ExtractStepTold ==
    ASSUME TypeInv, ToldInv, RunExtract, NEW where, where # "up", Goto(where)
    PROVE  ToldInv'
  <1>1. PICK e \in Extractions(world, lock, built) :
            /\ used_rufs' = Extract(e.infos)
            /\ crates_cfgs' = UpdateBuildCfgs(crates_cfgs, e.infos)
            /\ built' = e.fresh /\ incomplete' = e.incomplete
    BY DEF RunExtract
  <1>2. UNCHANGED <<world, lock, req_by>> /\ pc' = where
    BY DEF RunExtract, Goto, setting, manager
  <1>3. TargetSound(world, built')
    BY <1>1, ExtractionSound DEF ToldInv
  <1>4. lock \subseteq DOMAIN world.deps
    BY LocksArePackages DEF TypeInv, TypeOK
  <1>5. ASSUME Definite', NEW c \in lock, c[1] \in DOMAIN used_rufs',
               ~ RufsUsable(used_rufs'[c[1]], world.rustc)
        PROVE  Told(world, lock, crates_cfgs', c)
    BY <1>1, <1>2, <1>4, <1>5, FlaggedIsTold DEF Definite, ToldInv
  <1> QED BY <1>2, <1>3, <1>5 DEF ToldInv, ReportedTold, ClimbedTold

LEMMA SearchTold ==
    ASSUME ToldInv, NEW n, n \in world.local \/ ~ Definite \/ Told(world, lock, crates_cfgs, n),
           pc \in {"down", "up"}, NEW versions, Search(n, versions)
    PROVE  ToldInv'
  <1>1. CASE SlowFixFails \/ \E msg : Panic(msg)
    BY <1>1, OtherStepTold DEF SlowFixFails, Panic, Finish, Goto, setting, manager
  <1>2. CASE Choose(n, versions)
    <2>1. /\ UNCHANGED <<world, lock, built, used_rufs, crates_cfgs, incomplete>>
          /\ at' = n /\ pc' \in {"update", "up"}
      BY <1>2 DEF Choose, Goto, setting, config
    <2>2. DOMAIN req_by' \cap world.local = {}
      BY <1>2 DEF Choose, ReqByAfter, Searched, ToldInv
    <2> QED BY <2>1, <2>2 DEF ToldInv, ReportedTold, ClimbedTold, Definite
  <1> QED BY <1>1, <1>2 DEF Search

\* What is compiled from a dependent is compiled from the package it depends on.
LEMMA DependentTold ==
    ASSUME NEW w, IsWorld(w), NEW L, NEW cfgs, NEW c, Told(w, L, cfgs, c),
           NEW p \in GetDepParent(w, L, c), p \notin w.local
    PROVE  Told(w, L, cfgs, p)
  <1>1. p \in L /\ c \in L /\ DependsOn(w, p, c, TRUE) /\ p \notin w.members
    BY PairsAre DEF GetDepParent, LockEdges, IsWorld
  <1>2. <<p, c>> \in BuildEdges(w, L)
    BY <1>1, PairsAre DEF BuildEdges, DependsOn
  <1>3. c \in Needs(w, L, p)
    <2>1. BuildEdges(w, L) \in SUBSET (L \X L)
      BY PairsAre DEF BuildEdges
    <2>2. c \in Reachable(L, BuildEdges(w, L), {c})
      BY <1>1, ReachableStart
    <2> QED BY <1>2, <2>1, <2>2, ReachableFromDependent DEF Needs
  <1>4. \A n \in L : p \in Needs(w, L, n) => c \in Needs(w, L, n)
    BY <1>3, ReachableOn DEF Needs
  <1> QED BY <1>4 DEF Told

LEMMA ToldStep == TypeInv /\ SearchInv /\ ToldInv /\ [Next]_vars => ToldInv'
  <1> SUFFICES ASSUME TypeInv, SearchInv, ToldInv, [Next]_vars
               PROVE  ToldInv'
    OBVIOUS
  <1>1. CASE Main
    <2>1. UNCHANGED <<world, built, req_by>> /\ pc' \in {"done", "extract"}
      BY <1>1 DEF Main, Panic, Finish, setting, config, manager
    <2> QED BY <2>1 DEF ToldInv, ReportedTold, ClimbedTold
  <1>2. CASE AuditExtract
    BY <1>2, ExtractStepTold, OtherStepTold DEF AuditExtract, Finish, manager
  <1>3. CASE NewDepManager
    BY <1>3, OtherStepTold DEF NewDepManager, Finish, Goto, manager
  <1>4. CASE CheckRufs
    BY <1>4, OtherStepTold DEF CheckRufs, Panic, Finish, Goto, manager
  <1>5. CASE FindIssue
    BY <1>5, OtherStepTold DEF FindIssue, Panic, Finish, Goto, manager
  <1>6. CASE DownFix
    <2>1. at \in lock /\ at[1] \in DOMAIN used_rufs
          /\ ~ RufsUsable(used_rufs[at[1]], world.rustc) /\ pc = "down"
      BY <1>6 DEF DownFix, SearchInv, TreeSync, CulpritFlagged, Flagged
    <2>2. ~ Definite \/ Told(world, lock, crates_cfgs, at)
      BY <2>1 DEF ToldInv, ReportedTold
    <2> QED BY <1>6, <2>1, <2>2, SearchTold DEF DownFix
  <1>7. CASE UpFix
    <2>1. CASE at \notin DOMAIN req_by
      BY <1>7, <2>1, OtherStepTold DEF UpFix, SlowFixFails, Goto, manager
    <2>2. CASE at \in DOMAIN req_by
      <3>1. req_by[at] \in GetDepParent(world, lock, at) /\ pc = "up" /\ at \notin world.local
        BY <1>7, <2>2 DEF UpFix, SearchInv, TreeSync, TypeInv, ReqByCurrent, ToldInv
      <3>2. \/ req_by[at] \in world.local \/ ~ Definite
            \/ Told(world, lock, crates_cfgs, req_by[at])
        BY <3>1, Worldly, DependentTold DEF ToldInv, ClimbedTold, TypeInv
      <3> QED BY <1>7, <2>2, <3>1, <3>2, SearchTold DEF UpFix
    <2> QED BY <2>1, <2>2
  <1>8. CASE UpdatePkg
    <2>1. UNCHANGED <<world, built>> /\ pc' \in {"done", "minimal", "reextract"}
      BY <1>8 DEF UpdatePkg, Panic, Finish, SlowFixFails, Goto, setting, config
    <2>2. req_by' = req_by \/ req_by' = <<>>
      BY <1>8 DEF UpdatePkg, Panic, Finish, SlowFixFails, manager
    <2>3. DOMAIN req_by' \cap world.local = {}
      BY <2>2 DEF ToldInv
    <2> QED BY <2>1, <2>3 DEF ToldInv, ReportedTold, ClimbedTold
  <1>9. CASE ReExtract
    BY <1>9, ExtractStepTold, OtherStepTold DEF ReExtract, SlowFixFails, Goto, manager
  <1>10. CASE GenerateLockfile
    <2>1. UNCHANGED <<world, built, req_by>> /\ pc' \in {"done", "rustc_extract"}
      BY <1>10 DEF GenerateLockfile, Finish, Goto, setting, config, manager
    <2> QED BY <2>1 DEF ToldInv, ReportedTold, ClimbedTold
  <1>11. CASE RustcExtract
    BY <1>11, ExtractStepTold, OtherStepTold DEF RustcExtract, Finish, manager
  <1>12. CASE RustcFix
    BY <1>12, OtherStepTold DEF RustcFix, Finish, manager
  <1>13. CASE UNCHANGED vars
    BY <1>13 DEF ToldInv, ReportedTold, ClimbedTold, Definite, vars, setting, config, manager,
                 target
  <1>14. CASE ExtractPanics
    <2>1. TargetSound(world, built')
      BY <1>14, StoppedSound DEF ExtractPanics, ToldInv
    <2>2. UNCHANGED <<world, req_by>> /\ pc' = "done"
      BY <1>14 DEF ExtractPanics, setting, manager
    <2> QED BY <2>1, <2>2 DEF ToldInv, ReportedTold, ClimbedTold
  <1> QED BY <1>1, <1>2, <1>3, <1>4, <1>5, <1>6, <1>7, <1>8, <1>9, <1>10, <1>11, <1>12, <1>13,
             <1>14 DEF Next, Exited

LEMMA ToldInit == Init => ToldInv
  <1> SUFFICES ASSUME Init
               PROVE  ToldInv
    OBVIOUS
  <1>1. TargetSound(world, built)
    BY FirstSound DEF Init
  <1> QED BY <1>1 DEF Init, ToldInv, ReportedTold, ClimbedTold

\* filter_rufs judges by the cfgs of the packages that are locked now, however
\* many extractions and updates went before and whatever they left fresh: for
\* every registry and lock file in which names tell packages apart and all that
\* is locked is compiled.
THEOREM CfgsAreCurrent ==
    ASSUME BuildScript \notin Crates
    PROVE  Spec => []CfgsCurrent
  <1>1. TypeInv /\ SearchInv /\ ToldInv => CfgsCurrent
    <2> SUFFICES ASSUME TypeInv, SearchInv, ToldInv, pc \in {"down", "up"}, at \notin world.local, Definite,
                        NEW n \in dep_tree, at \in Needs(world, dep_tree, n)
                 PROVE  n[1] \in DOMAIN crates_cfgs /\ crates_cfgs[n[1]] = world.cfgs[n]
      BY DEF CfgsCurrent, Definite
    <2>1. dep_tree = lock /\ n[1] # BuildScript
      <3>1. dep_tree = lock
        BY DEF SearchInv, TreeSync
      <3>2. n \in Crates \X Versions
        BY <3>1, Worldly, LocksArePackages DEF TypeInv, TypeOK, IsWorld, Packages
      <3> QED BY <3>1, <3>2
    <2>2. CASE pc = "down"
      <3>1. at \in lock /\ at[1] \in DOMAIN used_rufs
            /\ ~ RufsUsable(used_rufs[at[1]], world.rustc)
        BY <2>1, <2>2 DEF SearchInv, CulpritFlagged, Flagged
      <3> QED BY <2>1, <2>2, <3>1 DEF ToldInv, ReportedTold, Told
    <2>3. CASE pc = "up"
      BY <2>1, <2>3 DEF ToldInv, ClimbedTold, Told
    <2> QED BY <2>2, <2>3
  <1> QED BY TypeInit, TypeStep, SearchInit, SearchStep, ToldInit, ToldStep, <1>1, PTL DEF Spec
-----------------------------------------------------------------------------
\* The cfgs of a crate that has been reported are recorded: nothing that is
\* flagged lacks them.
Recorded ==
    /\ pc = "start" => used_rufs = <<>>
    /\ DOMAIN used_rufs \subseteq DOMAIN crates_cfgs

LEMMA RecordedStep == Recorded /\ [Next]_vars => Recorded'
  <1> SUFFICES ASSUME Recorded, [Next]_vars
               PROVE  Recorded'
    OBVIOUS
  <1>1. CASE UNCHANGED vars
    BY <1>1 DEF Recorded, vars, config
  <1>2. CASE RunExtract /\ pc' # "start"
    BY <1>2 DEF RunExtract, Extract, UpdateBuildCfgs, Recorded
  <1>3. CASE UNCHANGED <<used_rufs, crates_cfgs>> /\ pc' # "start"
    BY <1>3 DEF Recorded
  <1>4. CASE Untold /\ pc' # "start"
    BY <1>4 DEF Recorded, Untold
  <1> QED BY <1>1, <1>2, <1>3, <1>4, CfgsSteps

LEMMA CfgsFoundStep ==
    TypeInv /\ SearchInv /\ ToldInv /\ Recorded /\ CfgsFoundIfTold /\ [Next]_vars
        => CfgsFoundIfTold'
  <1> SUFFICES ASSUME TypeInv, SearchInv, ToldInv, Recorded, CfgsFoundIfTold, [Next]_vars,
                      verdict' = "no cfgs found"
               PROVE  at' \in DOMAIN req_by' /\ ~ Definite'
    BY DEF CfgsFoundIfTold, Definite
  <1>1. CASE UNCHANGED vars
    BY <1>1 DEF CfgsFoundIfTold, Definite, vars, setting, config, manager, target, result
  <1>2. CASE CfgsPanicked
    <2>1. PICK n \in dep_tree \ world.local :
              /\ \/ pc = "down" /\ n = at
                 \/ pc = "up" /\ at \in DOMAIN req_by /\ n = req_by[at]
              /\ n[1] \notin DOMAIN crates_cfgs
      BY <1>2 DEF CfgsPanicked
    <2>2. pc # "down"
      BY <2>1 DEF SearchInv, CulpritFlagged, Flagged, Recorded
    <2>3. dep_tree = lock /\ pc = "up" /\ at \in DOMAIN req_by /\ n = req_by[at]
      BY <2>1, <2>2 DEF SearchInv, TreeSync
    <2>4. ASSUME Definite
          PROVE  FALSE
      <3>1. at \notin world.local /\ n \in GetDepParent(world, lock, at)
        BY <2>3 DEF ToldInv, TypeInv, ReqByCurrent
      <3>2. Told(world, lock, crates_cfgs, n)
        BY <2>1, <2>3, <2>4, <3>1, Worldly, DependentTold DEF ToldInv, ClimbedTold, TypeInv
      <3>3. n \in Needs(world, lock, n)
        BY <2>1, <2>3, ReachableStart DEF Needs
      <3> QED BY <2>1, <2>3, <3>2, <3>3 DEF Told
    <2>5. Definite' <=> Definite
      BY <1>2 DEF CfgsPanicked, Definite, setting, config
    <2> QED BY <1>2, <2>3, <2>4, <2>5 DEF CfgsPanicked, manager, target
  <1>3. UNCHANGED vars \/ CfgsPanicked
    <2>1. "no cfgs found" \notin SearchPanics
      BY DEF SearchPanics
    <2> QED BY <2>1, PanicSteps
  <1> QED BY <1>1, <1>2, <1>3

\* The assertion that the cfgs of a package are recorded never fails for a
\* package found to have an issue; and for one that up_fix climbs to only where
\* the extraction was incomplete, names do not tell packages apart, or some
\* locked package is not compiled.
THEOREM CfgsAreFoundIfTold == Spec => []CfgsFoundIfTold
  <1>1. Init => Recorded /\ CfgsFoundIfTold
    BY DEF Init, Recorded, CfgsFoundIfTold
  <1> QED BY TypeInit, TypeStep, SearchInit, SearchStep, ToldInit, ToldStep, RecordedStep,
             CfgsFoundStep, <1>1, PTL DEF Spec
=============================================================================
