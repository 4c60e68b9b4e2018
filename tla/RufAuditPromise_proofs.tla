----------------------- MODULE RufAuditPromise_proofs -----------------------
(***************************************************************************)
(* RufAudit implements AuditPromise: every run of the audit is one of those *)
(* its user was promised.  (Fairness aside: AuditPromise states none.)      *)
(***************************************************************************)
EXTENDS RufAudit_proofs

-----------------------------------------------------------------------------
\* The operators of Registry mean in AuditPromise what they mean in RufAudit.

LEMMA SameTable ==
    /\ Promise!RustcVersions = RustcVersions
    /\ \A rufs, ver : Promise!RufsUsable(rufs, ver) = RufsUsable(rufs, ver)
  <1>1. \A status : Promise!IsUsable(status) = IsUsable(status)
    BY DEF Promise!IsUsable, IsUsable
  <1>2. \A ruf, ver : Promise!GetRufStatus(ruf, ver) = GetRufStatus(ruf, ver)
    BY DEF Promise!GetRufStatus, GetRufStatus, Promise!FromCode, FromCode
  <1> QED BY <1>1, <1>2
          DEF Promise!RustcVersions, RustcVersions, Promise!RufsUsable, RufsUsable

LEMMA SameGraph ==
    /\ \A w, p, q, d : Promise!DependsOn(w, p, q, d) = DependsOn(w, p, q, d)
    /\ \A N, edges, S : Promise!Reachable(N, edges, S) = Reachable(N, edges, S)
    /\ \A w, L : Promise!Locks(w) = Locks(w) /\ Promise!Compiled(w, L) = Compiled(w, L)
  <1>1. \A dep, ver : Promise!ReqMatches(dep, ver) = ReqMatches(dep, ver)
    BY DEF Promise!ReqMatches, ReqMatches
  <1>2. \A w, p, q, d : Promise!DependsOn(w, p, q, d) = DependsOn(w, p, q, d)
    BY <1>1 DEF Promise!DependsOn, DependsOn
  <1>3. \A N, edges, S : Promise!Reachable(N, edges, S) = Reachable(N, edges, S)
    BY DEF Promise!Reachable, Reachable
  <1>4. \A w, L : Promise!Compiled(w, L) = Compiled(w, L)
    <2>1. \A L : Promise!Pairs(L) = Pairs(L)
      BY DEF Promise!Pairs, Pairs
    <2>2. \A w, L : Promise!BuildEdges(w, L) = BuildEdges(w, L)
      BY <1>2, <2>1 DEF Promise!BuildEdges, BuildEdges
    <2> QED BY <1>3, <2>2 DEF Promise!Compiled, Compiled
  <1>5. \A w : Promise!Locks(w) = Locks(w)
    <2> TAKE w
    <2> DEFINE Once(L) == \A p, q \in L : p[1] = q[1] /\ Major(p[2]) = Major(q[2]) => p = q
               Met(L) == \A p \in L : \A i \in DOMAIN w.deps[p] :
                   (w.deps[p][i].dev => p \in w.members) =>
                       \E q \in L : q[1] = w.deps[p][i].name /\ ReqMatches(w.deps[p][i], q[2])
               Needed(L) == \A q \in L \ w.members : \E p \in L : DependsOn(w, p, q, TRUE)
    <2>1. Locks(w) = {L \in SUBSET DOMAIN w.deps : w.members \subseteq L /\ Once(L) /\ Met(L) /\ Needed(L)}
      BY DEF Locks
    <2>2. Promise!Locks(w)
              = {L \in SUBSET DOMAIN w.deps : w.members \subseteq L /\ Once(L) /\ Met(L) /\ Needed(L)}
      <3>1. \A v : Promise!Major(v) = Major(v)
        BY DEF Promise!Major, Major
      <3> QED BY <1>1, <1>2, <3>1 DEF Promise!Locks
    <2> QED BY <2>1, <2>2
  <1> QED BY <1>2, <1>3, <1>4, <1>5

LEMMA SameCargo ==
    /\ \A w, L, p, ver : Promise!CargoUpdate(w, L, p, ver) = CargoUpdate(w, L, p, ver)
    /\ \A w : Promise!MinimalLocks(w) = MinimalLocks(w)
  <1>1. \A w, L, M, p, ver : Promise!Replaces(w, L, M, p, ver) = Replaces(w, L, M, p, ver)
    BY SameGraph DEF Promise!Replaces, Replaces
  <1> QED BY <1>1, SameGraph
          DEF Promise!CargoUpdate, CargoUpdate, Promise!MinimalLocks, MinimalLocks

LEMMA SameUse ==
    /\ \A w, L, ver : Promise!LockUsable(w, L, ver) = LockUsable(w, L, ver)
    /\ \A w : Promise!Trusted(w) = Trusted(w)
  <1>1. \A w, p : Promise!DeclaredRufs(w, p) = DeclaredRufs(w, p)
    BY DEF Promise!DeclaredRufs, DeclaredRufs, Promise!CondHolds, CondHolds
  <1>2. \A w, p : Promise!UsedBy(w, p) = UsedBy(w, p)
    BY <1>1 DEF Promise!UsedBy, UsedBy
  <1>3. \A w, L, ver : Promise!LockUsable(w, L, ver) = LockUsable(w, L, ver)
    BY <1>2, SameTable, SameGraph DEF Promise!LockUsable, LockUsable
  <1>4. \A w : Promise!Trusted(w) = Trusted(w)
    BY <1>1, SameTable, SameGraph
    DEF Promise!Trusted, Trusted, Promise!RefusedAlike, RefusedAlike, Promise!NeverFresh,
        NeverFresh, Promise!NamedAlike, NamedAlike, Promise!RootOnTop, RootOnTop
  <1> QED BY <1>3, <1>4
-----------------------------------------------------------------------------
\* The phases of a run.

Oldest == {"rustc_extract", "rustc_fix"}

PhaseReads ==
    /\ pc \notin Oldest \cup {"done"} => Phase = "tree"
    /\ pc \in Oldest => Phase = "oldest"
    /\ pc = "done" /\ verdict \in {"clean", "tree"} /\ exit = 0 => Phase = "usable"
    /\ pc = "done" /\ verdict = "rustc" /\ exit = 0 => Phase = "usable_with"
    /\ pc = "done" /\ verdict = "failed" /\ exit = Functionality => Phase = "unfixable"
    /\ pc = "done" /\ verdict \notin {"clean", "tree", "rustc"} /\ exit # Functionality
         => Phase = "abandoned"

LEMMA Phases == PhaseReads /\ PhaseReads'
  <1>1. PhaseReads
    BY DEF PhaseReads, Phase, Oldest, Functionality
  <1>2. PhaseReads'
    BY DEF PhaseReads, Phase, Oldest, Functionality
  <1> QED BY <1>1, <1>2

PromiseStep == [Promise!Next]_<<world, lock, Phase, incomplete, rustc>>

\* Steps the user does not see.
LEMMA Unseen ==
    ASSUME pc # "done", pc' # "done", pc \in Oldest <=> pc' \in Oldest,
           UNCHANGED <<world, lock, incomplete, rustc>>
    PROVE  PromiseStep
  BY Phases DEF PhaseReads, PromiseStep

\* The ways a run is abandoned.
LEMMA Abandoned ==
    ASSUME pc # "done", NEW code \in {Unexpected, Panicked},
           NEW what \in {"failed"} \cup PanicMessages,
           pc' = "done", exit' = code, verdict' = what,
           UNCHANGED <<world, lock, incomplete, rustc>>
    PROVE  PromiseStep
  <1>1. Phase \in {"tree", "oldest"}
    BY Phases DEF PhaseReads
  <1>2. Phase' = "abandoned"
    <2>1. what \notin {"clean", "tree", "rustc"}
      BY DEF PanicMessages
    <2>2. code # Functionality
      BY DEF Unexpected, Panicked, Functionality
    <2> QED BY <2>1, <2>2, Phases DEF PhaseReads
  <1> QED BY <1>1, <1>2 DEF PromiseStep, Promise!Next, Promise!Abandon, Promise!Report

LEMMA Extracted ==
    ASSUME TypeInv, RunExtract, NEW where, Goto(where), pc # "done", where # "done",
           pc \in Oldest <=> where \in Oldest
    PROVE  PromiseStep
  <1>1. incomplete' \in BOOLEAN
    BY RunExtractType DEF TypeInv
  <1>2. UNCHANGED <<world, lock, rustc>> /\ pc' = where
    BY DEF RunExtract, Goto, setting, result
  <1>3. Phase \in {"tree", "oldest"} /\ Phase' = Phase
    BY <1>2, Phases DEF PhaseReads
  <1> QED BY <1>1, <1>2, <1>3 DEF PromiseStep, Promise!Next, Promise!Warn

\* update_pkg downgrades the package at hand and no other.
LEMMA Downgraded ==
    ASSUME TypeInv, SearchInv, pc = "update", pc' \in {"reextract", "minimal"},
           NEW L \in CargoUpdate(world, lock, at, fix_ver), lock' = L,
           UNCHANGED <<world, incomplete, rustc>>
    PROVE  PromiseStep
  <1>1. Phase = "tree" /\ Phase' = "tree"
    BY Phases DEF PhaseReads, Oldest
  <1>2. at \in lock /\ at \notin L
    BY DEF TypeInv, AtInTree, SearchInv, TreeSync, CargoUpdate, Replaces
  <1>3. fix_ver \in Versions /\ fix_ver < at[2]
    BY DEF TypeInv, TypeOK, SearchInv, FixChosen, Judged, Usable, GetCandidates
  <1>4. lock' \in Promise!CargoUpdate(world, lock, at, fix_ver)
    BY SameCargo
  <1> QED BY <1>1, <1>2, <1>3, <1>4 DEF PromiseStep, Promise!Next, Promise!Downgrade

\* What a run reports at its end.
LEMMA ReportedUsable ==
    ASSUME pc # "done", pc \notin Oldest, NEW what \in {"clean", "tree"}, Finish(0, what),
           Trusted(world) /\ ~ incomplete => LockUsable(world, lock, world.rustc)
    PROVE  PromiseStep
  <1>1. Phase = "tree" /\ Phase' = "usable"
    BY Phases DEF PhaseReads, Finish
  <1>2. UNCHANGED <<world, lock, incomplete, rustc>>
    BY DEF Finish, setting, config
  <1> QED BY <1>1, <1>2, SameUse
          DEF PromiseStep, Promise!Next, Promise!ReportUsable, Promise!Report

LEMMA RustcFixPromised ==
    ASSUME TypeInv, SearchInv, RustcFix
    PROVE  PromiseStep
  <1>1. pc = "rustc_fix" /\ Phase = "oldest"
    BY Phases DEF PhaseReads, RustcFix, Oldest
  <1>2. ASSUME NEW ver \in UsableRustc, \A other \in UsableRustc : other <= ver,
               pc' = "done", exit' = 0, verdict' = "rustc", rustc' = ver,
               UNCHANGED <<setting, lock, config, manager, target>>
        PROVE  PromiseStep
    <2>1. Phase' = "usable_with" /\ UNCHANGED <<world, lock, incomplete>>
      BY <1>2, Phases DEF PhaseReads, setting, config
    <2>2. rustc' \in RustcVersions
      BY <1>2 DEF UsableRustc
    <2>3. Trusted(world) /\ ~ incomplete => LockUsable(world, lock, rustc')
      BY <1>1, <1>2, FoundRustcIsUsable DEF Trusted
    <2>4. ASSUME NEW v \in RustcVersions, v > rustc'
          PROVE  ~ LockUsable(world, lock, v)
      <3>1. rustc' \in Int /\ v \in Int
        BY <2>2, LifetimeAssumption DEF RustcVersions
      <3> QED BY <1>1, <1>2, <2>4, <3>1, UsableRustcIsFound
    <2> QED BY <1>1, <2>1, <2>2, <2>3, <2>4, SameUse, SameTable
            DEF PromiseStep, Promise!Next, Promise!ReportUsableWith, Promise!Report
  <1>3. CASE UsableRustc = {} /\ Finish(Functionality, "failed")
    <2>1. Phase' = "unfixable" /\ UNCHANGED <<world, lock, incomplete, rustc>>
      BY <1>3, Phases DEF PhaseReads, Finish, setting, config
    <2>2. \A ver \in RustcVersions : ~ LockUsable(world, lock, ver)
      BY <1>1, <1>3, UsableRustcIsFound
    <2> QED BY <1>1, <2>1, <2>2, SameUse, SameTable
            DEF PromiseStep, Promise!Next, Promise!ReportUnfixable, Promise!Report
  <1> QED BY <1>2, <1>3 DEF RustcFix

LEMMA PromisedStep == TypeInv /\ SearchInv /\ [Next]_vars => PromiseStep
  <1> SUFFICES ASSUME TypeInv, SearchInv, [Next]_vars
               PROVE  PromiseStep
    OBVIOUS
  <1>1. ASSUME pc # "done", NEW msg \in PanicMessages, Panic(msg)
        PROVE  PromiseStep
    BY <1>1, Abandoned DEF Panic, Finish, setting, config
  <1>2. ASSUME pc # "done", Finish(Unexpected, "failed")
        PROVE  PromiseStep
    BY <1>2, Abandoned DEF Finish, setting, config
  <1>3. ASSUME pc \notin Oldest \cup {"done"}, NEW where, where \notin Oldest \cup {"done"},
               Goto(where), UNCHANGED <<lock, config>>
        PROVE  PromiseStep
    BY <1>3, Unseen DEF Goto, setting, result, config
  <1>4. ASSUME pc \in {"down", "up"}, NEW n, NEW versions, Search(n, versions)
        PROVE  PromiseStep
    <2>1. CASE SlowFixFails \/ Choose(n, versions)
      BY <1>3, <1>4, <2>1 DEF SlowFixFails, Choose, Oldest
    <2> QED BY <1>1, <1>4, <2>1 DEF Search, PanicMessages
  <1>5. CASE Main
    <2>1. CASE pc' = "extract" /\ UNCHANGED <<world, lock, incomplete, result>>
      BY <1>5, <2>1, Unseen DEF Main, result, Oldest
    <2> QED BY <1>1, <1>2, <1>5, <2>1 DEF Main, PanicMessages
  <1>6. CASE AuditExtract
    BY <1>2, <1>6, Extracted DEF AuditExtract, Oldest
  <1>7. CASE NewDepManager
    BY <1>2, <1>3, <1>7 DEF NewDepManager, Oldest
  <1>8. CASE CheckRufs
    <2>1. CASE AllUsable /\ Finish(0, "clean")
      <3>1. Trusted(world) /\ ~ incomplete => LockUsable(world, lock, world.rustc)
        BY <1>8, <2>1, CleanIsUsable DEF CheckRufs, Trusted, FixConditions
      <3> QED BY <1>8, <2>1, <3>1, ReportedUsable DEF CheckRufs, Oldest
    <2>2. CASE \E where \in {"minimal", "find"} :
                 Goto(where) /\ UNCHANGED <<lock, config, manager, target>>
      BY <1>3, <1>8, <2>2 DEF CheckRufs, Oldest
    <2> QED BY <1>1, <1>8, <2>1, <2>2 DEF CheckRufs, PanicMessages
  <1>9. CASE FindIssue
    <2>1. ASSUME NEW root \in dep_tree, Roots(world, dep_tree) = {root}, Issues(root) = {},
                 Finish(0, "tree")
          PROVE  PromiseStep
      <3>1. Trusted(world) /\ ~ incomplete => LockUsable(world, lock, world.rustc)
        BY <1>9, <2>1, TreeIsUsable DEF FindIssue, Trusted, FixConditions
      <3> QED BY <1>9, <2>1, <3>1, ReportedUsable DEF FindIssue, Oldest
    <2>2. CASE Goto("down") /\ UNCHANGED <<lock, config, manager, fix_ver>>
      BY <1>3, <1>9, <2>2 DEF FindIssue, Oldest
    <2> QED BY <1>1, <1>9, <2>1, <2>2 DEF FindIssue, PanicMessages
  <1>10. CASE DownFix
    BY <1>4, <1>10 DEF DownFix
  <1>11. CASE UpFix
    <2>1. CASE SlowFixFails
      BY <1>3, <1>11, <2>1 DEF UpFix, SlowFixFails, Oldest
    <2> QED BY <1>4, <1>11, <2>1 DEF UpFix
  <1>12. CASE UpdatePkg
    <2>1. CASE SlowFixFails
      BY <1>3, <1>12, <2>1 DEF UpdatePkg, SlowFixFails, Oldest
    <2>2. ASSUME NEW L \in CargoUpdate(world, lock, at, fix_ver), lock' = L,
                 NEW where \in {"reextract", "minimal"}, Goto(where), UNCHANGED config
          PROVE  PromiseStep
      BY <1>12, <2>2, Downgraded DEF UpdatePkg, Goto, setting, result, config
    <2> QED BY <1>1, <1>12, <2>1, <2>2 DEF UpdatePkg, PanicMessages
  <1>13. CASE ReExtract
    <2>1. CASE SlowFixFails
      BY <1>3, <1>13, <2>1 DEF ReExtract, SlowFixFails, Oldest
    <2> QED BY <1>13, <2>1, Extracted DEF ReExtract, Oldest
  <1>14. CASE GenerateLockfile
    <2>1. CASE /\ lock' \in MinimalLocks(world)
               /\ Goto("rustc_extract") /\ UNCHANGED <<config, manager, target>>
      <3>1. Phase = "tree" /\ Phase' = "oldest"
        BY <1>14, <2>1, Phases DEF PhaseReads, GenerateLockfile, Goto, Oldest
      <3> QED BY <2>1, <3>1, SameCargo
              DEF PromiseStep, Promise!Next, Promise!GoBack, Goto, setting, result, config
    <2> QED BY <1>2, <1>14, <2>1 DEF GenerateLockfile
  <1>15. CASE RustcExtract
    BY <1>2, <1>15, Extracted DEF RustcExtract, Oldest
  <1>16. CASE RustcFix
    BY <1>16, RustcFixPromised
  <1>17. CASE UNCHANGED vars
    BY <1>17 DEF PromiseStep, Phase, vars, setting, config, result
  <1>18. CASE ExtractPanics
    <2>1. pc # "done" /\ "extraction cannot be read" \in PanicMessages
      BY <1>18 DEF ExtractPanics, Calls, PanicMessages
    <2> QED BY <1>18, <2>1, Abandoned DEF ExtractPanics, setting
  <1> QED BY <1>5, <1>6, <1>7, <1>8, <1>9, <1>10, <1>11, <1>12, <1>13, <1>14, <1>15, <1>16,
             <1>17, <1>18 DEF Next, Exited

\* An audit does what it promises, for every registry, every lock file to start
\* from, and whatever fails on the way.
THEOREM PromiseIsKept == Spec => KeepsPromise
  <1>1. Init => Promise!Init
    <2> SUFFICES ASSUME Init
                 PROVE  Promise!Init
      OBVIOUS
    <2>1. Phase = "tree"
      BY Phases DEF PhaseReads, Init, Oldest
    <2> QED BY <2>1, SameGraph DEF Init, Promise!Init
  <1>2. TypeInv /\ SearchInv /\ [Next]_vars
            => [Promise!Next]_<<world, lock, Phase, incomplete, rustc>>
    BY PromisedStep DEF PromiseStep
  <1> QED BY TypeInit, TypeStep, SearchInit, SearchStep, <1>1, <1>2, PTL
          DEF Spec, KeepsPromise, Promise!Spec
=============================================================================
