--------------------------- MODULE RufAudit_proofs ---------------------------
(***************************************************************************)
(* Theorems of RufAudit, for every set of worlds, every lifetime table and  *)
(* every number of packages: types, what slow_fix searches by, and that     *)
(* what an audit reports is true.                                           *)
(***************************************************************************)
EXTENDS RufAudit, Extraction_proofs

-----------------------------------------------------------------------------
\* Lemmas on the dependency manager.

\* Candidates are versions that exist and are older.
LEMMA GetCandidatesOlder ==
    ASSUME NEW w, IsWorld(w), NEW g, NEW n
    PROVE  /\ GetCandidates(w, g, n) \subseteq {ver \in Versions : ver < n[2]}
           /\ \A dep : GetCandidatesUpFix(w, g, n, dep) \subseteq GetCandidates(w, g, n)
  <1>1. RufVersions(w, n[1]) \subseteq Versions
    BY DEF RufVersions, IsWorld, Packages
  <1> QED BY <1>1 DEF GetCandidates, GetCandidatesUpFix

\* After get_candidates on a package of the tree, req_by still maps packages of
\* the tree to dependents they have in it.
ReqByCurrent(w, g, r) ==
    /\ DOMAIN r \subseteq g
    /\ r \in [DOMAIN r -> g]
    /\ \A n \in DOMAIN r : r[n] \in GetDepParent(w, g, n)

LEMMA ReqByAfterCurrent ==
    ASSUME NEW w, NEW g, NEW n \in g, NEW r, ReqByCurrent(w, g, r),
           NEW after \in ReqByAfter(w, g, n, r)
    PROVE  ReqByCurrent(w, g, after)
  <1>1. CASE after = r
    BY <1>1
  <1>2. CASE \E p \in StrictParents(w, g, n) :
               after = [m \in DOMAIN r \cup {n} |-> IF m = n THEN p ELSE r[m]]
    <2>1. PICK p \in StrictParents(w, g, n) :
               after = [m \in DOMAIN r \cup {n} |-> IF m = n THEN p ELSE r[m]]
      BY <1>2
    <2>2. p \in GetDepParent(w, g, n) /\ p \in g
      BY DEF StrictParents, GetDepParent
    <2> QED BY <2>1, <2>2 DEF ReqByCurrent
  <1> QED BY <1>1, <1>2 DEF ReqByAfter
-----------------------------------------------------------------------------
\* Type correctness.  TypeOK is not inductive alone: a search is made for a
\* package of the tree.

AtInTree == pc \in {"down", "up", "update"} => at \in dep_tree

TypeInv == TypeOK /\ AtInTree /\ ReqByCurrent(world, dep_tree, req_by)

LEMMA Worldly == TypeOK => IsWorld(world)
  BY WorldsAssumption DEF TypeOK

\* One extraction keeps the types, whatever the lock file.
LEMMA RunExtractType ==
    ASSUME TypeOK, RunExtract
    PROVE  /\ DOMAIN used_rufs' \subseteq CrateNames
           /\ used_rufs' \in [DOMAIN used_rufs' -> SUBSET Rufs]
           /\ DOMAIN crates_cfgs' \subseteq CrateNames
           /\ crates_cfgs' \in [DOMAIN crates_cfgs' -> SUBSET Cfgs]
           /\ built' \subseteq Packages \X SUBSET Packages
           /\ incomplete' \in BOOLEAN
  <1>1. IsWorld(world) /\ lock \subseteq DOMAIN world.deps
    BY Worldly, LocksArePackages DEF TypeOK
  <1>2. PICK e \in Extractions(world, lock, built) :
            /\ used_rufs' = Extract(e.infos)
            /\ crates_cfgs' = UpdateBuildCfgs(crates_cfgs, e.infos)
            /\ built' = e.fresh /\ incomplete' = e.incomplete
    BY DEF RunExtract
  <1>3. /\ e.infos \subseteq CheckInfos
        /\ e.fresh \subseteq Packages \X SUBSET Packages
        /\ e.incomplete \in BOOLEAN
    BY <1>1, ExtractionType DEF TypeOK
  <1> QED BY <1>2, <1>3, ExtractType, UpdateBuildCfgsType DEF TypeOK

\* The ways a step ends, each of which keeps the types.
LEMMA FinishType ==
    ASSUME TypeInv, NEW code \in {0, Unexpected, Functionality, Panicked},
           NEW what \in Verdicts \cup PanicMessages, Finish(code, what)
    PROVE  TypeInv'
  BY DEF TypeInv, TypeOK, AtInTree, ReqByCurrent, Finish, setting, config, manager, target

LEMMA SlowFixFailsType ==
    ASSUME TypeInv, SlowFixFails
    PROVE  TypeInv'
  BY DEF TypeInv, TypeOK, AtInTree, ReqByCurrent, SlowFixFails, Goto,
         setting, config, manager, target, result

LEMMA ExtractStepType ==
    ASSUME TypeInv, RunExtract, NEW where \in {"new", "find", "rustc_fix"}, Goto(where)
    PROVE  TypeInv'
  <1>1. /\ DOMAIN used_rufs' \subseteq CrateNames
        /\ used_rufs' \in [DOMAIN used_rufs' -> SUBSET Rufs]
        /\ DOMAIN crates_cfgs' \subseteq CrateNames
        /\ crates_cfgs' \in [DOMAIN crates_cfgs' -> SUBSET Cfgs]
        /\ built' \subseteq Packages \X SUBSET Packages
        /\ incomplete' \in BOOLEAN
    BY RunExtractType DEF TypeInv
  <1>2. UNCHANGED <<setting, result, lock, manager, target>> /\ pc' = where
    BY DEF RunExtract, Goto
  <1> QED BY <1>1, <1>2 DEF TypeInv, TypeOK, AtInTree, ReqByCurrent,
                            setting, result, manager, target

\* A search for versions of a package of the tree.
LEMMA SearchType ==
    ASSUME TypeInv, NEW n \in dep_tree, NEW versions, versions \subseteq Versions,
           Search(n, versions)
    PROVE  TypeInv'
  <1>1. CASE \E msg \in PanicMessages : Panic(msg)
    BY <1>1, FinishType DEF Panic
  <1>2. CASE SlowFixFails
    BY <1>2, SlowFixFailsType
  <1>3. CASE Choose(n, versions)
    <2>1. n \in DOMAIN world.deps
      BY LocksArePackages DEF TypeInv, TypeOK
    <2>2. ReqByCurrent(world, dep_tree, req_by')
      BY <1>3, ReqByAfterCurrent DEF Choose, TypeInv
    <2>3. fix_ver' \in Versions /\ pc' \in {"update", "up"}
      BY <1>3 DEF Choose, Usable, Goto, TypeInv, TypeOK
    <2>4. at' = n /\ UNCHANGED <<setting, result, lock, config, dep_tree>>
      BY <1>3 DEF Choose, Goto
    <2> QED BY <2>1, <2>2, <2>3, <2>4
            DEF TypeInv, TypeOK, AtInTree, ReqByCurrent, setting, result, config
  <1> QED BY <1>1, <1>2, <1>3 DEF Search, PanicMessages

LEMMA TypeStep == TypeInv /\ [Next]_vars => TypeInv'
  <1> SUFFICES ASSUME TypeInv, [Next]_vars
               PROVE  TypeInv'
    OBVIOUS
  <1>0. IsWorld(world)
    BY Worldly DEF TypeInv
  <1>13. CASE Main
    <2>1. CASE /\ crates_cfgs' = <<>> /\ quick' \in BOOLEAN /\ pc' = "extract"
               /\ UNCHANGED <<world, lock, used_rufs, incomplete, built, manager, target, result>>
      <3>1. DOMAIN crates_cfgs' = {}
        BY <2>1
      <3> QED BY <2>1, <3>1 DEF TypeInv, TypeOK, AtInTree, ReqByCurrent, manager, target, result
    <2> QED BY <1>13, <2>1, FinishType DEF Main, Verdicts, Panic, PanicMessages
  <1>1. CASE AuditExtract
    BY <1>1, FinishType, ExtractStepType DEF AuditExtract, Verdicts
  <1>2. CASE NewDepManager
    <2>1. CASE dep_tree' = lock /\ req_by' = <<>> /\ Goto("check")
               /\ UNCHANGED <<lock, config, target>>
      BY <2>1 DEF TypeInv, TypeOK, AtInTree, ReqByCurrent, Goto, setting, result, config, target
    <2> QED BY <1>2, <2>1, FinishType DEF NewDepManager, Verdicts
  <1>3. CASE CheckRufs
    <2>1. CASE /\ \E where \in {"minimal", "find"} : Goto(where)
               /\ UNCHANGED <<lock, config, manager, target>>
      BY <2>1 DEF TypeInv, TypeOK, AtInTree, ReqByCurrent, Goto, setting, result, config,
                  manager, target
    <2> QED BY <1>3, <2>1, FinishType DEF CheckRufs, Verdicts, Panic, PanicMessages
  <1>4. CASE FindIssue
    <2>1. ASSUME NEW root, NEW n \in FirstIssues(root), at' = n, Goto("down"),
                 UNCHANGED <<lock, config, manager, fix_ver>>
          PROVE  TypeInv'
      <3>1. n \in dep_tree /\ n \in DOMAIN world.deps
        BY LocksArePackages DEF FirstIssues, Issues, Flagged, TypeInv, TypeOK
      <3> QED BY <2>1, <3>1 DEF TypeInv, TypeOK, AtInTree, ReqByCurrent, Goto,
                                setting, result, config, manager
    <2> QED BY <1>4, <2>1, FinishType DEF FindIssue, Verdicts, Panic, PanicMessages
  <1>5. CASE DownFix
    <2>1. at \in dep_tree /\ GetCandidates(world, dep_tree, at) \subseteq Versions
      BY <1>0, <1>5, GetCandidatesOlder DEF DownFix, TypeInv, AtInTree
    <2> QED BY <1>5, <2>1, SearchType DEF DownFix
  <1>6. CASE UpFix
    <2>1. CASE at \notin DOMAIN req_by
      BY <1>6, <2>1, SlowFixFailsType DEF UpFix
    <2>2. CASE at \in DOMAIN req_by
      <3>1. req_by[at] \in dep_tree
        BY <2>2 DEF TypeInv, TypeOK
      <3>2. GetCandidatesUpFix(world, dep_tree, req_by[at], at) \subseteq Versions
        BY <1>0, GetCandidatesOlder
      <3> QED BY <1>6, <2>2, <3>1, <3>2, SearchType DEF UpFix
    <2> QED BY <2>1, <2>2
  <1>7. CASE UpdatePkg
    <2>1. ASSUME NEW L \in CargoUpdate(world, lock, at, fix_ver), lock' = L,
                 UNCHANGED <<config, target>>,
                 \/ dep_tree' = L /\ req_by' = <<>> /\ Goto("reextract")
                 \/ Goto("minimal") /\ UNCHANGED manager
          PROVE  TypeInv'
      <3>1. L \in Locks(world)
        BY DEF CargoUpdate
      <3>2. CASE dep_tree' = L /\ req_by' = <<>> /\ Goto("reextract")
        <4>1. DOMAIN req_by' = {} /\ ReqByCurrent(world, dep_tree', req_by')
          BY <3>2 DEF ReqByCurrent
        <4>2. pc' = "reextract" /\ UNCHANGED <<setting, result, config, target>>
          BY <2>1, <3>2 DEF Goto
        <4>3. dep_tree' \in Locks(world) /\ lock' \in Locks(world)
          BY <2>1, <3>1, <3>2
        <4> QED BY <4>1, <4>2, <4>3 DEF TypeInv, TypeOK, AtInTree, ReqByCurrent,
                                       setting, result, config, target
      <3>3. CASE Goto("minimal") /\ UNCHANGED manager
        BY <2>1, <3>1, <3>3 DEF TypeInv, TypeOK, AtInTree, ReqByCurrent, Goto,
                                setting, result, config, manager, target
      <3> QED BY <2>1, <3>2, <3>3
    <2> QED BY <1>7, <2>1, FinishType, SlowFixFailsType
            DEF UpdatePkg, Panic, PanicMessages
  <1>8. CASE ReExtract
    BY <1>8, SlowFixFailsType, ExtractStepType DEF ReExtract
  <1>9. CASE GenerateLockfile
    <2>1. CASE /\ lock' \in MinimalLocks(world) /\ Goto("rustc_extract")
               /\ UNCHANGED <<config, manager, target>>
      <3>1. lock' \in Locks(world)
        BY <2>1 DEF MinimalLocks
      <3> QED BY <2>1, <3>1 DEF TypeInv, TypeOK, AtInTree, ReqByCurrent, Goto,
                                setting, result, config, manager, target
    <2> QED BY <1>9, <2>1, FinishType DEF GenerateLockfile, Verdicts
  <1>10. CASE RustcExtract
    BY <1>10, FinishType, ExtractStepType DEF RustcExtract, Verdicts
  <1>11. CASE RustcFix
    <2>1. ASSUME NEW ver \in UsableRustc, pc' = "done", exit' = 0, verdict' = "rustc",
                 rustc' = ver, UNCHANGED <<setting, lock, config, manager, target>>
          PROVE  TypeInv'
      <3>1. ver \in RustcVersions
        BY DEF UsableRustc
      <3> QED BY <2>1, <3>1 DEF TypeInv, TypeOK, AtInTree, ReqByCurrent, Verdicts,
                                setting, config, manager, target
    <2> QED BY <1>11, <2>1, FinishType DEF RustcFix, Verdicts
  <1>12. CASE UNCHANGED vars
    BY <1>12 DEF TypeInv, TypeOK, AtInTree, ReqByCurrent, vars, setting, config, manager,
                 target, result
  <1>14. CASE ExtractPanics
    <2>1. lock \subseteq Packages /\ built \subseteq Packages \X SUBSET Packages
      BY LocksArePackages, WorldsAssumption DEF TypeInv, TypeOK, IsWorld
    <2>2. built' \subseteq Packages \X SUBSET Packages
      BY <1>14, <2>1, StoppedType DEF ExtractPanics
    <2>3. pc' = "done" /\ exit' = Panicked /\ verdict' \in PanicMessages
          /\ UNCHANGED <<setting, lock, used_rufs, crates_cfgs, incomplete, manager, target, rustc>>
      BY <1>14 DEF ExtractPanics, PanicMessages
    <2> QED BY <2>2, <2>3 DEF TypeInv, TypeOK, AtInTree, ReqByCurrent, setting, manager, target
  <1> QED BY <1>1, <1>2, <1>3, <1>4, <1>5, <1>6, <1>7, <1>8, <1>9, <1>10, <1>11, <1>12, <1>13,
             <1>14 DEF Next, Exited

LEMMA TypeInit == Init => TypeInv
  <1> SUFFICES ASSUME Init
               PROVE  TypeInv
    OBVIOUS
  <1>1. IsWorld(world) /\ world \in Worlds
    BY WorldsAssumption DEF Init
  <1>2. world.root \in DOMAIN world.deps /\ world.root[2] \in Versions
    BY <1>1 DEF IsWorld, Packages
  <1>3. built \subseteq Packages \X SUBSET Packages
    <2>1. lock \subseteq Packages
      BY <1>1, LocksArePackages DEF Init, IsWorld
    <2> QED BY <2>1, BuiltType DEF Init
  <1>4. 0 \in RustcVersions
    BY LifetimeAssumption DEF RustcVersions
  <1>5. /\ <<>> \in [{} -> dep_tree] /\ <<>> \in [{} -> SUBSET Rufs]
        /\ <<>> \in [{} -> SUBSET Cfgs] /\ DOMAIN <<>> = {}
    OBVIOUS
  <1> QED BY <1>1, <1>2, <1>3, <1>4, <1>5
          DEF Init, TypeInv, TypeOK, AtInTree, ReqByCurrent, Verdicts

\* The type invariant, in any number of steps of any audit.
THEOREM TypeCorrect == Spec => []TypeOK
  <1>1. TypeInv => TypeOK
    BY DEF TypeInv
  <1> QED BY TypeInit, TypeStep, <1>1, PTL DEF Spec
-----------------------------------------------------------------------------
\* The inductive invariant behind the safety properties: from an extraction to
\* the next change of Cargo.lock the audit's reports are about that lock file,
\* and so is the tree slow_fix searches.

HasReports == pc \in {"new", "check", "find", "down", "up", "update", "rustc_fix"}

Reports ==
    HasReports => /\ Truthful(world, lock, used_rufs)
                  /\ ~ incomplete => Full(world, lock, used_rufs)

TreeSync ==
    pc \in {"check", "find", "down", "up", "update", "reextract"} => dep_tree = lock

CulpritFlagged == pc = "down" => at \in Flagged

\* The version chosen is a candidate, and filter_rufs could judge it.
Judged(n, ver) ==
    /\ ver \in Usable(n, GetCandidates(world, dep_tree, n))
    /\ ~ FilterPanics(crates_cfgs, n[1], world.rufs[<<n[1], ver>>], "no cfgs found")

FixChosen == pc = "update" => Judged(at, fix_ver)

Ended == /\ pc = "done" <=> verdict # "none"
         /\ pc # "done" => exit = 0

SearchInv ==
    /\ RefusedNotBuilt(world, built) /\ Reports /\ TreeSync
    /\ CulpritFlagged /\ FixChosen /\ Ended

\* The ways a step ends, each of which keeps the invariant.
LEMMA FinishSearch ==
    ASSUME SearchInv, NEW code, NEW what, what # "none", Finish(code, what)
    PROVE  SearchInv'
  BY DEF SearchInv, Reports, HasReports, TreeSync, FixChosen, CulpritFlagged, Ended, RefusedNotBuilt,
         Finish, setting, config, manager, target

LEMMA PanicSearch ==
    ASSUME SearchInv, NEW msg \in PanicMessages, Panic(msg)
    PROVE  SearchInv'
  BY FinishSearch DEF Panic, PanicMessages

LEMMA SlowFixFailsSearch ==
    ASSUME SearchInv, pc # "done", SlowFixFails
    PROVE  SearchInv'
  BY DEF SearchInv, Reports, HasReports, TreeSync, FixChosen, CulpritFlagged, Ended, RefusedNotBuilt,
         SlowFixFails, Goto, setting, config, manager, target, result

LEMMA ExtractStepSearch ==
    ASSUME SearchInv, RunExtract, NEW where, Goto(where),
           \/ where \in {"new", "rustc_fix"} /\ pc # "done"
           \/ where = "find" /\ pc # "done" /\ dep_tree = lock
    PROVE  SearchInv'
  <1>1. PICK e \in Extractions(world, lock, built) :
            /\ used_rufs' = Extract(e.infos)
            /\ built' = e.fresh /\ incomplete' = e.incomplete
    BY DEF RunExtract
  <1>2. RefusedNotBuilt(world, built')
    BY <1>1, FreshNotRefused DEF SearchInv
  <1>3. Truthful(world, lock, used_rufs')
    BY <1>1, ExtractionAuthentic, ExtractTruthful
  <1>4. ~ incomplete' => Full(world, lock, used_rufs')
    BY <1>1, ExtractionFull DEF SearchInv
  <1>5. UNCHANGED <<world, lock, dep_tree, verdict, exit>> /\ pc' = where
    BY DEF RunExtract, Goto, setting, result, manager
  <1> QED BY <1>2, <1>3, <1>4, <1>5
          DEF SearchInv, Reports, HasReports, TreeSync, CulpritFlagged, FixChosen, Ended,
              RefusedNotBuilt

LEMMA SearchSearch ==
    ASSUME SearchInv, pc \in {"down", "up"}, NEW n, NEW versions,
           versions \subseteq GetCandidates(world, dep_tree, n), Search(n, versions)
    PROVE  SearchInv'
  <1>1. CASE \E msg \in PanicMessages : Panic(msg)
    BY <1>1, PanicSearch
  <1>2. CASE SlowFixFails
    BY <1>2, SlowFixFailsSearch
  <1>3. CASE Choose(n, versions) /\ ~ FiltersPanic(n, versions, "no cfgs found")
    <2>1. /\ UNCHANGED <<world, lock, used_rufs, crates_cfgs, incomplete, built, dep_tree,
                        verdict, exit>>
          /\ pc' \in {"update", "up"} /\ at' = n
      BY <1>3 DEF Choose, Goto, setting, result, config
    <2>2. ASSUME pc' = "update"
          PROVE  Judged(n, fix_ver')
      <3>1. fix_ver' \in Usable(n, versions)
        BY <1>3, <2>2 DEF Choose, Goto
      <3> QED BY <1>3, <3>1 DEF Judged, Usable, FiltersPanic
    <2>3. FixChosen'
      BY <2>1, <2>2 DEF FixChosen, Judged, Usable
    <2> QED BY <2>1, <2>3 DEF SearchInv, Reports, HasReports, TreeSync, CulpritFlagged, Ended,
                              RefusedNotBuilt
  <1> QED BY <1>1, <1>2, <1>3 DEF Search, PanicMessages

LEMMA SearchStep == SearchInv /\ [Next]_vars => SearchInv'
  <1> SUFFICES ASSUME SearchInv, [Next]_vars
               PROVE  SearchInv'
    OBVIOUS
  <1> USE DEF Unexpected, Functionality, Panicked
  <1>13. CASE Main
    <2>1. CASE /\ crates_cfgs' = <<>> /\ pc' = "extract"
               /\ UNCHANGED <<world, lock, used_rufs, incomplete, built, manager, target, result>>
      BY <1>13, <2>1 DEF Main, SearchInv, Reports, HasReports, TreeSync, FixChosen, CulpritFlagged, Ended, RefusedNotBuilt, result
    <2> QED BY <1>13, <2>1, FinishSearch, PanicSearch DEF Main, PanicMessages
  <1>1. CASE AuditExtract
    BY <1>1, FinishSearch, ExtractStepSearch DEF AuditExtract
  <1>2. CASE NewDepManager
    <2>1. CASE dep_tree' = lock /\ req_by' = <<>> /\ Goto("check")
               /\ UNCHANGED <<lock, config, target>>
      BY <1>2, <2>1 DEF NewDepManager, SearchInv, Reports, HasReports, TreeSync, FixChosen, CulpritFlagged,
            Ended, RefusedNotBuilt, Goto, setting, result, config
    <2> QED BY <1>2, <2>1, FinishSearch DEF NewDepManager
  <1>3. CASE CheckRufs
    <2>1. CASE /\ \E where \in {"minimal", "find"} : Goto(where)
               /\ UNCHANGED <<lock, config, manager, target>>
      BY <1>3, <2>1 DEF CheckRufs, SearchInv, Reports, HasReports, TreeSync, FixChosen, CulpritFlagged,
            Ended, RefusedNotBuilt, Goto, setting, result, config, manager
    <2> QED BY <1>3, <2>1, FinishSearch, PanicSearch DEF CheckRufs, PanicMessages
  <1>4. CASE FindIssue
    <2>1. ASSUME NEW root, NEW n \in FirstIssues(root), at' = n, Goto("down"),
                 UNCHANGED <<lock, config, manager, fix_ver>>
          PROVE  SearchInv'
      <3>1. at' \in Flagged'
        BY <2>1 DEF FirstIssues, Issues, Flagged, Goto, setting, config, manager
      <3> QED BY <1>4, <2>1, <3>1
              DEF FindIssue, SearchInv, Reports, HasReports, TreeSync, FixChosen, CulpritFlagged,
                  Ended, RefusedNotBuilt, Goto, setting, result, config, manager
    <2> QED BY <1>4, <2>1, FinishSearch, PanicSearch DEF FindIssue, PanicMessages
  <1>5. CASE DownFix
    BY <1>5, SearchSearch DEF DownFix
  <1>6. CASE UpFix
    <2>1. CASE at \notin DOMAIN req_by
      BY <1>6, <2>1, SlowFixFailsSearch DEF UpFix
    <2>2. CASE at \in DOMAIN req_by
      <3>1. GetCandidatesUpFix(world, dep_tree, req_by[at], at)
               \subseteq GetCandidates(world, dep_tree, req_by[at])
        BY DEF GetCandidatesUpFix
      <3> QED BY <1>6, <2>2, <3>1, SearchSearch DEF UpFix
    <2> QED BY <2>1, <2>2
  <1>7. CASE UpdatePkg
    <2>1. ASSUME NEW L, lock' = L, UNCHANGED <<config, target>>,
                 \/ dep_tree' = L /\ req_by' = <<>> /\ Goto("reextract")
                 \/ Goto("minimal") /\ UNCHANGED manager
          PROVE  SearchInv'
      BY <1>7, <2>1 DEF UpdatePkg, SearchInv, Reports, HasReports, TreeSync, FixChosen, CulpritFlagged,
            Ended, RefusedNotBuilt, Goto, setting, result, config
    <2> QED BY <1>7, <2>1, PanicSearch, SlowFixFailsSearch DEF UpdatePkg, PanicMessages
  <1>8. CASE ReExtract
    BY <1>8, SlowFixFailsSearch, ExtractStepSearch DEF ReExtract, SearchInv, TreeSync
  <1>9. CASE GenerateLockfile
    <2>1. CASE Goto("rustc_extract") /\ UNCHANGED <<config, manager, target>>
      BY <1>9, <2>1 DEF GenerateLockfile, SearchInv, Reports, HasReports, TreeSync, FixChosen, CulpritFlagged,
            Ended, RefusedNotBuilt, Goto, setting, result, config
    <2> QED BY <1>9, <2>1, FinishSearch DEF GenerateLockfile
  <1>10. CASE RustcExtract
    BY <1>10, FinishSearch, ExtractStepSearch DEF RustcExtract
  <1>11. CASE RustcFix
    <2>1. CASE pc' = "done" /\ exit' = 0 /\ verdict' = "rustc"
               /\ UNCHANGED <<setting, lock, config, manager, target>>
      BY <1>11, <2>1 DEF RustcFix, SearchInv, Reports, HasReports, TreeSync, FixChosen, CulpritFlagged,
            Ended, RefusedNotBuilt, setting, config
    <2> QED BY <1>11, <2>1, FinishSearch DEF RustcFix
  <1>12. CASE UNCHANGED vars
    BY <1>12 DEF SearchInv, Reports, HasReports, TreeSync, FixChosen, Judged, Usable, Flagged, CulpritFlagged, Ended, RefusedNotBuilt,
            vars, setting, config, manager, target, result
  <1>14. CASE ExtractPanics
    <2>1. RefusedNotBuilt(world, built')
      BY <1>14, FreshNotRefused DEF ExtractPanics, SearchInv
    <2>2. pc' = "done" /\ verdict' # "none" /\ UNCHANGED world
      BY <1>14 DEF ExtractPanics, setting
    <2> QED BY <2>1, <2>2 DEF SearchInv, Reports, HasReports, TreeSync, CulpritFlagged,
                              FixChosen, Ended, RefusedNotBuilt
  <1> QED BY <1>1, <1>2, <1>3, <1>4, <1>5, <1>6, <1>7, <1>8, <1>9, <1>10, <1>11, <1>12, <1>13,
             <1>14 DEF Next, Exited

LEMMA SearchInit == Init => SearchInv
  <1> SUFFICES ASSUME Init
               PROVE  SearchInv
    OBVIOUS
  <1>1. RefusedNotBuilt(world, {})
    BY DEF RefusedNotBuilt
  <1>2. RefusedNotBuilt(world, built)
    BY <1>1, BuiltNotRefused DEF Init
  <1> QED BY <1>2 DEF Init, SearchInv, Reports, HasReports, TreeSync, FixChosen,
                      CulpritFlagged, Ended

\* slow_fix never decides on a tree other than the one in Cargo.lock.
THEOREM SearchOfCurrentTree == Spec => []TreeIsLock
  <1>1. SearchInv => TreeIsLock
    BY DEF SearchInv, TreeSync, TreeIsLock, Searching
  <1> QED BY SearchInit, SearchStep, <1>1, PTL DEF Spec

\* What req_by remembers is about the tree slow_fix has: an entry is the last
\* get_candidates left for that package since the tree was loaded.
THEOREM StrictParentsAreCurrent == Spec => []StrictParentsCurrent
  <1>1. TypeInv => StrictParentsCurrent
    BY DEF TypeInv, ReqByCurrent, StrictParentsCurrent
  <1> QED BY TypeInit, TypeStep, <1>1, PTL DEF Spec

\* The rufs slow_fix searches by belong to packages of the present lock file.
THEOREM ReportsAreCurrent == Spec => []ReportsCurrent
  <1>1. SearchInv => ReportsCurrent
    BY DEF SearchInv, Reports, HasReports, Truthful, ReportsCurrent, Searching,
           Compiled, Reachable
  <1> QED BY SearchInit, SearchStep, <1>1, PTL DEF Spec
-----------------------------------------------------------------------------
\* What the audit reports.

\* A step that does not end the run leaves no verdict; one that ends it does
\* so in one of these ways.
Outcome ==
    \/ UNCHANGED vars
    \/ verdict' = "none" /\ exit' = 0
    \/ verdict' \in {"failed"} \cup PanicMessages /\ exit' \in {Unexpected, Panicked}
    \/ CheckRufs /\ AllUsable /\ Finish(0, "clean")
    \/ /\ FindIssue /\ Finish(0, "tree")
       /\ \E root \in dep_tree : Roots(world, dep_tree) = {root} /\ Issues(root) = {}
    \/ RustcFix /\ UsableRustc = {} /\ Finish(Functionality, "failed")
    \/ /\ RustcFix /\ verdict' = "rustc" /\ exit' = 0 /\ UNCHANGED <<setting, lock, incomplete>>
       /\ rustc' \in UsableRustc /\ \A other \in UsableRustc : other <= rustc'

LEMMA Outcomes == SearchInv /\ [Next]_vars => Outcome
  <1> SUFFICES ASSUME SearchInv, [Next]_vars
               PROVE  Outcome
    OBVIOUS
  <1>1. ASSUME NEW msg \in PanicMessages, Panic(msg)
        PROVE  Outcome
    BY <1>1 DEF Outcome, Panic, Finish
  <1>2. ASSUME Finish(Unexpected, "failed")
        PROVE  Outcome
    BY <1>2 DEF Outcome, Finish
  <1>3. ASSUME NEW where, Goto(where), pc # "done"
        PROVE  Outcome
    BY <1>3 DEF Outcome, Goto, result, SearchInv, Ended
  <1>4. ASSUME NEW n, NEW versions, Search(n, versions), pc # "done"
        PROVE  Outcome
    BY <1>1, <1>3, <1>4 DEF Search, SlowFixFails, Choose, PanicMessages
  <1>5. CASE AuditExtract \/ NewDepManager \/ GenerateLockfile \/ RustcExtract
    BY <1>2, <1>3, <1>5 DEF AuditExtract, NewDepManager, GenerateLockfile, RustcExtract
  <1>6. CASE CheckRufs
    BY <1>1, <1>3, <1>6 DEF CheckRufs, PanicMessages, Outcome
  <1>7. CASE FindIssue
    <2>1. CASE \E root \in dep_tree :
                 Roots(world, dep_tree) = {root} /\ Issues(root) = {} /\ Finish(0, "tree")
      BY <1>7, <2>1 DEF Outcome
    <2> QED BY <1>1, <1>3, <1>7, <2>1 DEF FindIssue, PanicMessages
  <1>8. CASE DownFix \/ UpFix
    BY <1>3, <1>4, <1>8 DEF DownFix, UpFix, SlowFixFails
  <1>9. CASE UpdatePkg \/ ReExtract
    BY <1>1, <1>3, <1>9 DEF UpdatePkg, ReExtract, SlowFixFails, PanicMessages
  <1>10. CASE RustcFix
    BY <1>10 DEF RustcFix, Outcome, config
  <1>11. CASE UNCHANGED vars
    BY <1>11 DEF Outcome
  <1>12. CASE Main
    <2>1. CASE pc' = "extract" /\ UNCHANGED result
      BY <1>12, <2>1 DEF Main, Outcome, result, SearchInv, Ended
    <2> QED BY <1>1, <1>2, <1>12, <2>1 DEF Main, PanicMessages
  <1>13. CASE ExtractPanics
    BY <1>13 DEF ExtractPanics, Outcome, PanicMessages
  <1> QED BY <1>5, <1>6, <1>7, <1>8, <1>9, <1>10, <1>11, <1>12, <1>13 DEF Next, Exited
-----------------------------------------------------------------------------
\* slow_fix's search meets every package that is compiled.
LEMMA CompiledIsSearched ==
    ASSUME NEW w, RootOnTop(w), NEW L \in Locks(w), w.root \in w.members,
           NEW root, Roots(w, L) = {root}
    PROVE  Compiled(w, L) \subseteq Reachable(L, LockEdges(w, L), {root})
  <1>1. w.root \in L /\ L \subseteq DOMAIN w.deps
    BY DEF Locks
  <1>2. w.root \in Roots(w, L)
    BY <1>1, PairsAre DEF Roots, LockEdges, RootOnTop
  <1>3. BuildEdges(w, L) \subseteq LockEdges(w, L)
    BY PairsAre DEF BuildEdges, LockEdges, DependsOn
  <1> QED BY <1>2, <1>3, ReachableMonotone DEF Compiled

FixConditions(w) == RefusedAlike(w) /\ NamedAlike(w) /\ RootOnTop(w)

LEMMA CleanIsUsable ==
    ASSUME TypeInv, SearchInv, FixConditions(world), ~ incomplete, pc = "check", AllUsable
    PROVE  LockUsable(world, lock, world.rustc)
  <1>1. Full(world, lock, used_rufs) /\ lock \subseteq DOMAIN world.deps
    BY LocksArePackages DEF TypeInv, TypeOK, SearchInv, Reports, HasReports
  <1> QED BY <1>1, UnusableIsFlagged DEF LockUsable, AllUsable, FixConditions

LEMMA TreeIsUsable ==
    ASSUME TypeInv, SearchInv, FixConditions(world), ~ incomplete, pc = "find",
           NEW root, Roots(world, dep_tree) = {root}, Issues(root) = {}
    PROVE  LockUsable(world, lock, world.rustc)
  <1>1. /\ Full(world, lock, used_rufs) /\ lock \subseteq DOMAIN world.deps
        /\ dep_tree = lock /\ lock \in Locks(world)
    BY LocksArePackages DEF TypeInv, TypeOK, SearchInv, Reports, HasReports, TreeSync
  <1>2. world.root \in world.members
    BY Worldly DEF TypeInv, IsWorld
  <1>3. Compiled(world, lock) \subseteq Reachable(lock, LockEdges(world, lock), {root})
    BY <1>1, <1>2, CompiledIsSearched DEF FixConditions
  <1>4. ASSUME NEW p \in Compiled(world, lock), ~ RufsUsable(UsedBy(world, p), world.rustc)
        PROVE  FALSE
    <2>1. p \in lock
      BY DEF Compiled, Reachable
    <2>2. p \in Flagged
      BY <1>1, <1>4, <2>1, UnusableIsFlagged DEF Flagged, FixConditions
    <2> QED BY <1>1, <1>3, <2>2 DEF Issues
  <1> QED BY <1>4 DEF LockUsable

\* A rustc version that suits the lock file is among those fix_with_rustc finds,
\* and the other way round when the extraction is full.
LEMMA UsableRustcIsFound ==
    ASSUME SearchInv, pc = "rustc_fix", NEW ver \in RustcVersions,
           LockUsable(world, lock, ver)
    PROVE  ver \in UsableRustc
  <1>1. Truthful(world, lock, used_rufs)
    BY DEF SearchInv, Reports, HasReports
  <1> QED BY <1>1, UsableReports, UsableAgree DEF UsableRustc

LEMMA FoundRustcIsUsable ==
    ASSUME TypeInv, SearchInv, pc = "rustc_fix", ~ incomplete, NeverFresh(world),
           NEW ver \in UsableRustc
    PROVE  LockUsable(world, lock, ver)
  <1>1. /\ Full(world, lock, used_rufs) /\ ver \in RustcVersions
        /\ lock \subseteq DOMAIN world.deps
    BY LocksArePackages DEF TypeInv, TypeOK, SearchInv, Reports, HasReports, UsableRustc
  <1>2. \A name \in DOMAIN used_rufs : RufsUsable(used_rufs[name], ver)
    BY <1>1, UsableAgree DEF UsableRustc
  <1> QED BY <1>1, <1>2, UsableIfReported DEF NeverFresh
-----------------------------------------------------------------------------
\* What a run reports is about the lock file it leaves behind.

Results == FixSound /\ RustcFixSound /\ GivesUpRightly

LEMMA ResultsStep == TypeInv /\ SearchInv /\ Results /\ [Next]_vars => Results'
  <1> SUFFICES ASSUME TypeInv, SearchInv, Results, [Next]_vars
               PROVE  Results'
    OBVIOUS
  <1> USE DEF Unexpected, Functionality, Panicked
  <1>1. CASE UNCHANGED vars
    BY <1>1 DEF Results, FixSound, RustcFixSound, GivesUpRightly, vars, setting, config, result
  <1>2. CASE verdict' = "none" /\ exit' = 0
    BY <1>2 DEF Results, FixSound, RustcFixSound, GivesUpRightly
  <1>3. CASE verdict' \in {"failed"} \cup PanicMessages /\ exit' \in {Unexpected, Panicked}
    <2>1. verdict' \notin {"clean", "tree", "rustc"}
      BY <1>3 DEF PanicMessages
    <2>2. exit' # Functionality
      BY <1>3
    <2> QED BY <2>1, <2>2 DEF Results, FixSound, RustcFixSound, GivesUpRightly
  <1>4. CASE CheckRufs /\ AllUsable /\ Finish(0, "clean")
    <2>1. FixConditions(world) /\ ~ incomplete => LockUsable(world, lock, world.rustc)
      BY <1>4, CleanIsUsable DEF CheckRufs
    <2>2. UNCHANGED <<world, lock, incomplete>> /\ verdict' = "clean" /\ exit' = 0
      BY <1>4 DEF Finish, setting, config
    <2> QED BY <2>1, <2>2 DEF Results, FixSound, RustcFixSound, GivesUpRightly, FixConditions
  <1>5. CASE /\ FindIssue /\ Finish(0, "tree")
             /\ \E root \in dep_tree : Roots(world, dep_tree) = {root} /\ Issues(root) = {}
    <2>1. FixConditions(world) /\ ~ incomplete => LockUsable(world, lock, world.rustc)
      BY <1>5, TreeIsUsable DEF FindIssue
    <2>2. UNCHANGED <<world, lock, incomplete>> /\ verdict' = "tree" /\ exit' = 0
      BY <1>5 DEF Finish, setting, config
    <2> QED BY <2>1, <2>2 DEF Results, FixSound, RustcFixSound, GivesUpRightly, FixConditions
  <1>6. CASE RustcFix /\ UsableRustc = {} /\ Finish(Functionality, "failed")
    <2>1. \A ver \in RustcVersions : ~ LockUsable(world, lock, ver)
      BY <1>6, UsableRustcIsFound DEF RustcFix
    <2>2. UNCHANGED <<world, lock, incomplete>> /\ verdict' = "failed"
      BY <1>6 DEF Finish, setting, config
    <2> QED BY <2>1, <2>2 DEF Results, FixSound, RustcFixSound, GivesUpRightly
  <1>7. CASE /\ RustcFix /\ verdict' = "rustc" /\ exit' = 0 /\ UNCHANGED <<setting, lock, incomplete>>
             /\ rustc' \in UsableRustc /\ \A other \in UsableRustc : other <= rustc'
    <2>1. ~ incomplete /\ NeverFresh(world) => LockUsable(world, lock, rustc')
      BY <1>7, FoundRustcIsUsable DEF RustcFix
    <2>2. ASSUME NEW ver \in RustcVersions, ver > rustc'
          PROVE  ~ LockUsable(world, lock, ver)
      <3>1. rustc' \in Int /\ ver \in Int
        BY <1>7, LifetimeAssumption DEF UsableRustc, RustcVersions
      <3> QED BY <1>7, <2>2, <3>1, UsableRustcIsFound DEF RustcFix
    <2> QED BY <1>7, <2>1, <2>2 DEF Results, FixSound, RustcFixSound, GivesUpRightly, setting
  <1> QED BY <1>1, <1>2, <1>3, <1>4, <1>5, <1>6, <1>7, Outcomes DEF Outcome

LEMMA ResultsInit == Init => Results
  BY DEF Init, Results, FixSound, RustcFixSound, GivesUpRightly, Functionality

\* "Currently no rufs issue found" and "all ruf issues are fixed" are true of
\* the lock file left behind, for every registry, every lock file to start from
\* and whatever fails on the way, when unusable rufs are reported under their
\* packages' names and refused by the audit's own rustc.
THEOREM FixesAreSound == Spec => []FixSound
  <1>1. Results => FixSound
    BY DEF Results
  <1> QED BY TypeInit, TypeStep, SearchInit, SearchStep, ResultsInit, ResultsStep, <1>1, PTL
          DEF Spec

\* The rustc version fix_with_rustc reports is the greatest that can be used
\* with the oldest dependencies.
THEOREM RustcFixesAreSound == Spec => []RustcFixSound
  <1>1. Results => RustcFixSound
    BY DEF Results
  <1> QED BY TypeInit, TypeStep, SearchInit, SearchStep, ResultsInit, ResultsStep, <1>1, PTL
          DEF Spec

\* Exit code -2 means that no rustc version helps.  This needs no condition: an
\* incomplete extraction can only hide a problem, never make one up.
THEOREM GivingUpIsRight == Spec => []GivesUpRightly
  <1>1. Results => GivesUpRightly
    BY DEF Results
  <1> QED BY TypeInit, TypeStep, SearchInit, SearchStep, ResultsInit, ResultsStep, <1>1, PTL
          DEF Spec
=============================================================================
