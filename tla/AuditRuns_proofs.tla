-------------------------- MODULE AuditRuns_proofs --------------------------
(***************************************************************************)
(* Theorems of AuditRuns: what an audit reports is true however many runs   *)
(* went before it and wherever they were stopped, and it does not           *)
(* contradict an earlier one.                                               *)
(***************************************************************************)
EXTENDS AuditRuns, RufAudit_proofs

-----------------------------------------------------------------------------
\* A project with another rustc is the same project.

LEMMA SameDependencies ==
    ASSUME NEW w, NEW v, SameProject(w, v)
    PROVE  /\ \A p, q, d : DependsOn(w, p, q, d) <=> DependsOn(v, p, q, d)
           /\ Locks(w) = Locks(v)
           /\ \A L : Compiled(w, L) = Compiled(v, L)
  <1>1. \A p, q, d : DependsOn(w, p, q, d) <=> DependsOn(v, p, q, d)
    BY DEF SameProject, DependsOn
  <1>2. Locks(w) = Locks(v)
    <2>1. w.deps = v.deps /\ w.members = v.members
      BY DEF SameProject
    <2>2. \A L : L \in Locks(w) <=> L \in Locks(v)
      BY <1>1, <2>1 DEF Locks
    <2>3. Locks(w) \subseteq Locks(v) /\ Locks(v) \subseteq Locks(w)
      BY <2>2
    <2> QED BY <2>3
  <1>3. ASSUME NEW L
        PROVE  Compiled(w, L) = Compiled(v, L)
    <2>1. \A e : e \in BuildEdges(w, L) <=> e \in BuildEdges(v, L)
      BY <1>1, PairsAre DEF BuildEdges
    <2>2. BuildEdges(w, L) = BuildEdges(v, L)
      BY <2>1, PairsAre DEF BuildEdges
    <2> QED BY <2>2 DEF SameProject, Compiled
  <1> QED BY <1>1, <1>2, <1>3

LEMMA SameRufs ==
    ASSUME NEW w, NEW v, SameProject(w, v)
    PROVE  /\ \A p : DeclaredRufs(w, p) = DeclaredRufs(v, p)
           /\ \A L, ver : LockUsable(w, L, ver) = LockUsable(v, L, ver)
           /\ \A b : RefusedNotBuilt(w, b) = RefusedNotBuilt(v, b)
  <1>1. \A p : DeclaredRufs(w, p) = DeclaredRufs(v, p)
    BY DEF SameProject, DeclaredRufs
  <1>2. \A p : UsedBy(w, p) = UsedBy(v, p)
    BY <1>1 DEF SameProject, UsedBy
  <1>3. \A L, ver : LockUsable(w, L, ver) = LockUsable(v, L, ver)
    BY <1>2, SameDependencies DEF LockUsable
  <1>4. \A b : RefusedNotBuilt(w, b) = RefusedNotBuilt(v, b)
    BY DEF SameProject, RefusedNotBuilt
  <1> QED BY <1>1, <1>3, <1>4

\* A trusted project stays so with any rustc of the table.
LEMMA StillTrusted ==
    ASSUME NEW w, NEW v, SameProject(w, v), Trusted(w), v.rustc \in RustcVersions
    PROVE  Trusted(v)
  <1>1. NeverFresh(v)
    BY SameRufs DEF Trusted, NeverFresh, SameProject
  <1>2. RefusedAlike(v)
    BY <1>1 DEF NeverFresh, RefusedAlike
  <1>3. NamedAlike(v)
    BY <1>1 DEF NeverFresh, Trusted, NamedAlike, SameProject
  <1>4. RootOnTop(v)
    <2>1. w.root = v.root /\ w.deps = v.deps /\ RootOnTop(w)
      BY DEF Trusted, SameProject
    <2> QED BY <2>1, SameDependencies DEF RootOnTop
  <1> QED BY <1>1, <1>2, <1>3, <1>4 DEF Trusted
-----------------------------------------------------------------------------
\* A new run starts from a state the invariants of a single run hold in.

LEMMA RestartKeeps ==
    ASSUME TypeInv, SearchInv, Results, Restart,
           world' \in Worlds, world'.root = world.root, Locks(world') = Locks(world),
           built' \subseteq Packages \X SUBSET Packages, RefusedNotBuilt(world', built')
    PROVE  TypeInv' /\ SearchInv' /\ Results'
  <1>1. world'.root \in DOMAIN world'.deps /\ world'.root[2] \in Versions
    <2>1. IsWorld(world')
      BY WorldsAssumption
    <2> QED BY <2>1 DEF IsWorld, Packages
  <1>2. /\ <<>> \in [{} -> dep_tree'] /\ <<>> \in [{} -> SUBSET Rufs]
        /\ <<>> \in [{} -> SUBSET Cfgs] /\ DOMAIN <<>> = {}
    OBVIOUS
  <1>3. 0 \in RustcVersions
    BY LifetimeAssumption DEF RustcVersions
  <1>4. TypeInv'
    BY <1>1, <1>2, <1>3 DEF Restart, TypeInv, TypeOK, AtInTree, ReqByCurrent, Verdicts
  <1>5. SearchInv'
    BY DEF Restart, SearchInv, Reports, HasReports, TreeSync, CulpritFlagged, FixChosen, Ended
  <1>6. Results'
    BY DEF Restart, Results, FixSound, RustcFixSound, GivesUpRightly, Functionality
  <1> QED BY <1>4, <1>5, <1>6

\* Once settled, the project is usable and every audit says so.
Settled ==
    settled => /\ Trusted(world) /\ LockUsable(world, lock, world.rustc)
               /\ SettledStays

RunsInv == TypeInv /\ SearchInv /\ Results /\ Settled

LEMMA SettledProgram ==
    ASSUME TypeInv, SearchInv, Settled, settled, [Next]_vars
    PROVE  /\ UNCHANGED <<world, lock>>
           /\ pc' \in {"start", "extract", "new", "check", "done"}
  <1>1. pc \in {"start", "extract", "new", "check", "done"}
    BY DEF Settled, SettledStays
  <1>2. CASE Main \/ AuditExtract \/ NewDepManager
    BY <1>2 DEF Main, AuditExtract, RunExtract, NewDepManager, Finish, Panic, Goto, setting
  <1>3. CASE CheckRufs
    <2>1. pc = "check" /\ Truthful(world, lock, used_rufs)
      BY <1>3 DEF CheckRufs, SearchInv, Reports, HasReports
    <2>2. AllUsable
      BY <2>1, UsableReports DEF Settled, AllUsable
    <2> QED BY <1>3, <2>2 DEF CheckRufs, Finish, Panic, setting
  <1>4. CASE UNCHANGED vars
    BY <1>1, <1>4 DEF vars, setting
  <1>5. CASE ExtractPanics
    BY <1>5 DEF ExtractPanics, setting
  <1> QED BY <1>1, <1>2, <1>3, <1>4, <1>5
          DEF Next, Exited, FindIssue, DownFix, UpFix, UpdatePkg, ReExtract, GenerateLockfile,
              RustcExtract, RustcFix

LEMMA ProgramKeeps == RunsInv /\ [Next]_vars /\ settled' = settled => RunsInv'
  <1> SUFFICES ASSUME RunsInv, [Next]_vars, settled' = settled
               PROVE  RunsInv'
    OBVIOUS
  <1>1. TypeInv' /\ SearchInv' /\ Results'
    BY TypeStep, SearchStep, ResultsStep DEF RunsInv
  <1>2. Settled'
    BY SettledProgram DEF RunsInv, Settled, SettledStays
  <1> QED BY <1>1, <1>2 DEF RunsInv

LEMMA InterruptKeeps ==
    ASSUME RunsInv, Interrupt
    PROVE  RunsInv'
  <1>1. built' \in Stopped(world, lock, built) \cup {built}
    BY DEF Interrupt
  <1>2. lock \subseteq Packages
    BY Worldly, LocksArePackages DEF RunsInv, TypeInv, TypeOK, IsWorld
  <1>3. built' \subseteq Packages \X SUBSET Packages
    BY <1>1, <1>2, StoppedType DEF RunsInv, TypeInv, TypeOK
  <1>4. RefusedNotBuilt(world, built')
    BY <1>1, FreshNotRefused DEF RunsInv, SearchInv
  <1>5. world' = world /\ lock' = lock /\ settled' = settled /\ pc' = "start"
    BY DEF Interrupt, Restart
  <1>6. TypeInv' /\ SearchInv' /\ Results'
    BY <1>3, <1>4, <1>5, RestartKeeps DEF RunsInv, TypeInv, TypeOK, Interrupt
  <1>7. Settled'
    BY <1>5 DEF RunsInv, Settled, SettledStays
  <1> QED BY <1>6, <1>7 DEF RunsInv

LEMMA AgainKeeps ==
    ASSUME RunsInv, Again
    PROVE  RunsInv'
  <1>1. /\ UNCHANGED <<world, lock, built>> /\ pc' = "start"
        /\ settled' = (settled \/ (verdict \in {"clean", "tree"} /\ Unwarned))
    BY DEF Again, Restart
  <1>2. RefusedNotBuilt(world, built)
    BY DEF RunsInv, SearchInv
  <1>3. TypeInv' /\ SearchInv' /\ Results'
    BY <1>1, <1>2, RestartKeeps DEF RunsInv, TypeInv, TypeOK, Again
  <1>4. verdict \in {"clean", "tree"} /\ Unwarned => LockUsable(world, lock, world.rustc)
    BY DEF RunsInv, Results, FixSound, Unwarned, Trusted
  <1>5. Settled'
    BY <1>1, <1>4 DEF RunsInv, Settled, SettledStays, Unwarned
  <1> QED BY <1>3, <1>5 DEF RunsInv

LEMMA FollowAdviceKeeps ==
    ASSUME RunsInv, FollowAdvice
    PROVE  RunsInv'
  <1>1. /\ SameProject(world, world') /\ world' \in Worlds /\ world'.rustc = rustc
        /\ UNCHANGED <<lock, built>> /\ pc' = "start" /\ settled' = Unwarned
    BY DEF FollowAdvice, Restart
  <1>2. Locks(world') = Locks(world) /\ world'.root = world.root
    BY <1>1, SameDependencies DEF SameProject
  <1>3. RefusedNotBuilt(world', built')
    BY <1>1, SameRufs DEF RunsInv, SearchInv
  <1>4. TypeInv' /\ SearchInv' /\ Results'
    BY <1>1, <1>2, <1>3, RestartKeeps DEF RunsInv, TypeInv, TypeOK, FollowAdvice
  <1>5. ASSUME Unwarned
        PROVE  Trusted(world') /\ LockUsable(world', lock, world'.rustc)
    <2>1. Trusted(world')
      BY <1>1, <1>5, StillTrusted DEF Unwarned, RunsInv, TypeInv, TypeOK
    <2>2. LockUsable(world, lock, rustc)
      BY <1>5 DEF Unwarned, Trusted, RunsInv, Results, RustcFixSound, FollowAdvice
    <2> QED BY <1>1, <2>1, <2>2, SameRufs
  <1>6. Settled'
    BY <1>1, <1>5 DEF Settled, SettledStays
  <1> QED BY <1>4, <1>6 DEF RunsInv

LEMMA RunsInvariant == SpecRuns => []RunsInv
  <1>1. InitRuns => RunsInv
    BY TypeInit, SearchInit, ResultsInit DEF InitRuns, RunsInv, Settled
  <1>2. RunsInv /\ [NextRuns]_allvars => RunsInv'
    BY ProgramKeeps, InterruptKeeps, AgainKeeps, FollowAdviceKeeps
    DEF NextRuns, Program, allvars
  <1> QED BY <1>1, <1>2, PTL DEF SpecRuns

\* What all runs are known to report.
LEMMA RunsReport ==
    SpecRuns => [](FixSound /\ RustcFixSound /\ GivesUpRightly /\ SettledStays)
  <1>1. RunsInv => FixSound /\ RustcFixSound /\ GivesUpRightly /\ SettledStays
    BY DEF RunsInv, Results, Settled, SettledStays
  <1> QED BY RunsInvariant, <1>1, PTL

\* Whatever an earlier run left behind, and wherever it was stopped, "currently
\* no rufs issue found" and "all ruf issues are fixed" are true of the lock
\* file: no ruf an audit must see is hidden by what was compiled before.
THEOREM RunsAreSound == SpecRuns => []FixSound
  BY RunsReport, PTL

\* After a run that left nothing to fix, or whose advice on rustc was followed,
\* no audit of the project finds anything to fix.
THEOREM SettledForGood == SpecRuns => []SettledStays
  BY RunsReport, PTL
=============================================================================
