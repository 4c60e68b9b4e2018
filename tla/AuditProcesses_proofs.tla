----------------------- MODULE AuditProcesses_proofs -----------------------
(***************************************************************************)
(* Theorems of AuditProcesses: whatever the processes of an extraction do,  *)
(* and at whichever of their steps a run is killed, the next one finds a    *)
(* sound target/; and the audits with all their processes are the audits    *)
(* that AuditRuns describes.                                                *)
(***************************************************************************)
EXTENDS AuditProcesses, ExtractRun_proofs

-----------------------------------------------------------------------------
\* The operators of Registry and Extraction mean in AuditRuns what they mean
\* here.

LEMMA SameAuditLocks ==
    /\ \A w : Audit!Locks(w) = Locks(w)
    /\ \A w, L, p, ver : Audit!CargoUpdate(w, L, p, ver) \subseteq Locks(w)
    /\ \A w : Audit!MinimalLocks(w) \subseteq Locks(w)
  <1>1. \A w : Audit!Locks(w) = Locks(w)
    BY DEF Audit!Locks, Locks, Audit!Major, Major, Audit!DependsOn, DependsOn,
           Audit!ReqMatches, ReqMatches
  <1> QED BY <1>1 DEF Audit!CargoUpdate, Audit!MinimalLocks

LEMMA SameAuditOutcomes ==
    /\ \A w, L, b : Audit!Extractions(w, L, b) = Extractions(w, L, b)
    /\ \A w, L, b : Audit!Stopped(w, L, b) = Stopped(w, L, b)
    /\ \A w, L, b : Audit!Built(w, L, b, Audit!Unscannable(w, L))
                       = Built(w, L, b, Unscannable(w, L))
  <1> USE DEF Audit!Extractions, Extractions, Audit!Failures, Failures, Audit!Ends, Ends,
          Audit!LateFailures, LateFailures, Audit!LateOutput, LateOutput, Audit!Pairs, Pairs,
          Audit!Unscannable, Unscannable, Audit!Units, Units, Audit!LibUnit, LibUnit,
          Audit!BuildUnit, BuildUnit, Audit!Needs, Needs, Audit!Compiled, Compiled,
          Audit!Reachable, Reachable, Audit!BuildEdges, BuildEdges,
          Audit!DependsOn, DependsOn, Audit!ReqMatches, ReqMatches,
          Audit!ScannerOutput, ScannerOutput, Audit!CheckInfo, CheckInfo,
          Audit!BuildCheckInfo, BuildCheckInfo, Audit!DeclaredRufs, DeclaredRufs,
          Audit!CondHolds, CondHolds, Audit!Scanned, Scanned,
          Audit!ScannedBuilds, ScannedBuilds, Audit!Reached, Reached,
          Audit!Built, Built, Audit!Incomplete, Incomplete,
          Audit!Stopped, Stopped, Audit!Inputs, Inputs
  <1>1. \A w, L, b : Audit!Extractions(w, L, b) = Extractions(w, L, b)
    OBVIOUS
  <1>2. \A w, L, b : Audit!Stopped(w, L, b) = Stopped(w, L, b)
    OBVIOUS
  <1>3. \A w, L, b : Audit!Built(w, L, b, Audit!Unscannable(w, L))
                         = Built(w, L, b, Unscannable(w, L))
    OBVIOUS
  <1> HIDE DEF Audit!Extractions, Extractions, Audit!Stopped, Stopped,
          Audit!Built, Built, Audit!Unscannable, Unscannable
  <1> QED BY <1>1, <1>2, <1>3

LEMMA SameAuditReports ==
    /\ \A i : Audit!Extract(i) = Extract(i)
    /\ \A c, i : Audit!UpdateBuildCfgs(c, i) = UpdateBuildCfgs(c, i)
  BY DEF Audit!Extract, Extract, Audit!UpdateBuildCfgs, UpdateBuildCfgs,
         Audit!Reported, Reported
-----------------------------------------------------------------------------
\* A sound target/.

\* The same target/ is sound for a project that has got another rustc.
LEMMA SameTarget ==
    ASSUME NEW w, NEW v, Audit!SameProject(w, v)
    PROVE  /\ Locks(w) = Locks(v)
           /\ \A b : TargetSound(w, b) <=> TargetSound(v, b)
  <1>1. /\ w.deps = v.deps /\ w.members = v.members /\ w.build = v.build
        /\ w.broken = v.broken /\ w.refused = v.refused /\ w.noscript = v.noscript
        /\ w.norun = v.norun
    BY DEF Audit!SameProject
  <1>2. \A p, q, d : DependsOn(w, p, q, d) <=> DependsOn(v, p, q, d)
    BY <1>1 DEF DependsOn
  <1>3. \A L : L \in Locks(w) <=> L \in Locks(v)
    BY <1>1, <1>2 DEF Locks
  <1>4. \A L, p : LibUnit(w, L, p) = LibUnit(v, L, p)
    <2> SUFFICES ASSUME NEW L
                 PROVE  BuildEdges(w, L) = BuildEdges(v, L)
      BY DEF LibUnit, Needs
    <2> QED BY <1>2, PairsAre DEF BuildEdges
  <1>5. \A b : TargetSound(w, b) <=> TargetSound(v, b)
    BY <1>1, <1>4 DEF TargetSound
  <1>6. Locks(w) \subseteq Locks(v) /\ Locks(v) \subseteq Locks(w)
    BY <1>3
  <1> QED BY <1>5, <1>6
-----------------------------------------------------------------------------
\* The invariant.  An extraction under way has begun with a sound target/, and
\* is one that all of ExtractRun's theorems are true of.
ProcessInv ==
    /\ world \in Worlds /\ lock \in Locks(world) /\ verbose \in Verbosity
    /\ built \subseteq Packages \X SUBSET Packages /\ TargetSound(world, built)
    /\ extracting => Audit!Calls /\ Worked /\ Outcome

LEMMA StartedNext == Started' => Worked' /\ Outcome'
  <1>1. Started => Worked /\ Outcome
    BY WorkedInit, OutcomeInit
  <1> QED BY <1>1, PTL

LEMMA FreshNext == Worked' => InterruptedFresh'
  BY WorkedFresh, PTL

LEMMA ProcessInit == InitProcesses => ProcessInv
  <1> SUFFICES ASSUME InitProcesses
               PROVE  ProcessInv
    OBVIOUS
  <1>1. lock \subseteq Packages
    BY LocksArePackages, WorldsAssumption DEF InitProcesses, IsWorld
  <1>2. /\ TargetSound(world, {})
        /\ TargetSound(world, Built(world, lock, {}, Unscannable(world, lock)))
    BY FirstSound
  <1>4. Built(world, lock, {}, Unscannable(world, lock)) \subseteq Packages \X SUBSET Packages
    BY <1>1, BuiltType
  <1> QED BY <1>2, <1>4 DEF InitProcesses, ProcessInv

\* Between its extractions an audit replaces the lock file by another at most.
LEMMA AuditsKeep ==
    ASSUME lock \in Locks(world), Audits
    PROVE  world' = world /\ lock' \in Locks(world)
  <1> USE DEF Audit!Finish, Audit!Panic, Audit!Goto, Audit!SlowFixFails, Audit!setting
  <1>1. CASE Audit!Main
    BY <1>1 DEF Audit!Main
  <1>2. CASE Audit!Finish(Audit!Unexpected, "failed") \/ Audit!SlowFixFails
    BY <1>2
  <1>3. CASE Audit!NewDepManager \/ Audit!CheckRufs \/ Audit!FindIssue
    BY <1>3 DEF Audit!NewDepManager, Audit!CheckRufs, Audit!FindIssue
  <1>4. CASE Audit!DownFix \/ Audit!UpFix
    BY <1>4 DEF Audit!DownFix, Audit!UpFix, Audit!Search, Audit!Choose
  <1>5. CASE Audit!UpdatePkg
    BY <1>5, SameAuditLocks DEF Audit!UpdatePkg
  <1>6. CASE Audit!GenerateLockfile
    BY <1>6, SameAuditLocks DEF Audit!GenerateLockfile
  <1>7. CASE Audit!RustcFix
    BY <1>7 DEF Audit!RustcFix
  <1> QED BY <1>1, <1>2, <1>3, <1>4, <1>5, <1>6, <1>7 DEF Audits

\* The extraction under way makes a step of its own, or none.
LEMMA ExtractionKeeps ==
    ASSUME ProcessInv, extracting, [Next]_vars
    PROVE  /\ Worked' /\ Outcome' /\ UNCHANGED <<world, lock, verbose, before>>
           /\ built' \subseteq Packages \X SUBSET Packages /\ TargetSound(world, built')
  <1>1. Worked' /\ Outcome'
    BY WorkedStep, OutcomeStep DEF ProcessInv
  <1>2. UNCHANGED <<world, lock, verbose, before>>
    BY DEF Next, StartUnit, PassOn, CargoExit, CargoAborts, WrapperFails, ScanUnit, RustcUnit,
           RustcFails, ReadStderr, StderrEnds, ReadStdout, Parse, vars, setting
  <1>3. built' \subseteq Packages \X SUBSET Packages
    BY <1>1 DEF Worked, TypeOK
  <1>4. TargetSound(world, before)
    BY DEF ProcessInv, Worked, WorkInv
  <1>5. built' \in Stopped(world, lock, before)
    BY <1>1, <1>2, FreshNext DEF InterruptedFresh
  <1> QED BY <1>1, <1>2, <1>3, <1>4, <1>5, StoppedSound

LEMMA ProcessStep == ProcessInv /\ [NextProcesses]_procvars => ProcessInv'
  <1> SUFFICES ASSUME ProcessInv, [NextProcesses]_procvars
               PROVE  ProcessInv'
    OBVIOUS
  <1>1. CASE Spawn
    <2>1. Started'
      BY <1>1 DEF Spawn, ProcessInv, Started
    <2>2. Worked' /\ Outcome'
      BY <2>1, StartedNext
    <2> QED BY <1>1, <2>2 DEF Spawn, Audit!Calls, ProcessInv, audit
  <1>2. CASE Extracting
    <2>1. [Next]_vars /\ extracting
      BY <1>2 DEF Extracting
    <2> QED BY <1>2, <2>1, ExtractionKeeps DEF Extracting, Audit!Calls, ProcessInv, audit
  <1>3. CASE Return \/ ExtractPanics
    BY <1>3 DEF Return, ExtractPanics, Reaped, ProcessInv
  <1>4. CASE Audits
    <2>1. world' = world /\ lock' \in Locks(world) /\ verbose' \in Verbosity
      BY <1>4, AuditsKeep DEF ProcessInv, Audits
    <2>2. extracting' = FALSE /\ built' = built
      BY <1>4 DEF Audits, Idle, ProcessInv
    <2> QED BY <2>1, <2>2 DEF ProcessInv
  <1>5. CASE Kill
    BY <1>5 DEF Kill, Reaped, Audit!Restart, ProcessInv
  <1>6. CASE RunAgain
    <2>1. /\ extracting' = FALSE /\ UNCHANGED <<built, verbose, lock>>
          /\ world' = world \/ (world' \in Worlds /\ Audit!SameProject(world, world'))
      BY <1>6 DEF RunAgain, Idle, Audit!Again, Audit!FollowAdvice, Audit!Restart
    <2>2. world' \in Worlds /\ lock' \in Locks(world') /\ TargetSound(world', built')
      BY <2>1, SameTarget DEF ProcessInv
    <2> QED BY <2>1, <2>2 DEF ProcessInv
  <1>7. CASE UNCHANGED procvars
    <2>1. UNCHANGED vars
      BY <1>7 DEF procvars, process, vars, setting
    <2>2. extracting => Worked' /\ Outcome'
      BY <2>1, ExtractionKeeps
    <2> QED BY <1>7, <2>2 DEF procvars, audit, Audit!Calls, ProcessInv
  <1> QED BY <1>1, <1>2, <1>3, <1>4, <1>5, <1>6, <1>7 DEF NextProcesses, Go

\* However many runs there were, at whatever step of an extraction they were
\* killed, and whichever lock files they extracted from: what is fresh in
\* target/ was compiled from what is fresh, and is nothing that the scanner or
\* rustc fails on.
THEOREM TargetStaysSound == SpecProcesses => []FreshIsSound
  <1>1. ProcessInv => FreshIsSound
    BY DEF ProcessInv, FreshIsSound
  <1> QED BY ProcessInit, ProcessStep, <1>1, PTL DEF SpecProcesses
-----------------------------------------------------------------------------
\* The audits that AuditRuns describes.

LEMMA RunsUnchanged ==
    ASSUME UNCHANGED <<world, lock, audit, Target>>
    PROVE  UNCHANGED Audit!allvars
  BY DEF audit, result, Audit!allvars, Audit!vars, Audit!setting, Audit!config,
         Audit!manager, Audit!target, Audit!result

\* What extract returns, once the processes have ended, is what RunExtract of
\* RufAudit lets it.
LEMMA ReturnIsExtract ==
    ASSUME ProcessInv, NoBuildCycles(world), Return
    PROVE  Audit!Program
  <1> DEFINE e == [infos |-> infos, fresh |-> built, incomplete |-> cargo = "failed"]
  <1>1. e \in Extractions(world, lock, before)
    BY WorkedExact DEF ProcessInv, Return, ExtractExact, Answer
  <1>2. Target = before /\ Target' = built
    BY DEF Return, Reaped, Target
  <1>3. e \in Audit!Extractions(world, lock, Target)
    BY <1>1, <1>2, SameAuditOutcomes
  <1>4. Audit!RunExtract
    <2>1. /\ used_rufs' = Audit!Extract(e.infos)
          /\ crates_cfgs' = Audit!UpdateBuildCfgs(crates_cfgs, e.infos)
          /\ Target' = e.fresh /\ incomplete' = e.incomplete
          /\ UNCHANGED <<lock, Audit!manager, Audit!target>>
      BY <1>2, SameAuditReports DEF Return, Audit!manager, Audit!target
    <2> HIDE DEF e
    <2> QED BY <1>3, <2>1 DEF Audit!RunExtract
  <1>5. Audit!Calls /\ UNCHANGED <<world, quick, verdict, rustc, exit, runs, settled>>
    BY DEF ProcessInv, Return, result
  <1>6. \/ pc = "extract" /\ pc' = "new"
        \/ pc = "reextract" /\ pc' = "find"
        \/ pc = "rustc_extract" /\ pc' = "rustc_fix"
    BY <1>5 DEF Audit!Calls, Return
  <1>7. Audit!AuditExtract \/ Audit!ReExtract \/ Audit!RustcExtract
    BY <1>4, <1>5, <1>6 DEF Audit!AuditExtract, Audit!ReExtract, Audit!RustcExtract,
                            Audit!Goto, Audit!setting, Audit!result
  <1> QED BY <1>5, <1>7 DEF Audit!Program, Audit!Next

\* What the processes of an extraction leave in target/ on their way.
LEMMA TargetStopped ==
    ASSUME ProcessInv, extracting
    PROVE  built \in Audit!Stopped(world, lock, Target)
  <1>1. built \in Stopped(world, lock, before)
    BY WorkedFresh DEF ProcessInv, InterruptedFresh
  <1> QED BY <1>1, SameAuditOutcomes DEF Target

LEMMA PanicIsPanic ==
    ASSUME ProcessInv, ExtractPanics
    PROVE  Audit!Program
  <1>1. Target' = built /\ built \in Audit!Stopped(world, lock, Target) /\ Audit!Calls
    BY TargetStopped DEF ExtractPanics, Reaped, Target, ProcessInv
  <1>2. Audit!ExtractPanics
    BY <1>1 DEF ExtractPanics, Audit!ExtractPanics, Audit!setting, Audit!manager, Audit!target
  <1>3. UNCHANGED <<runs, settled>>
    BY DEF ExtractPanics
  <1> QED BY <1>2, <1>3 DEF Audit!Program, Audit!Next

\* To kill an audit with its processes leaves in target/ what Interrupt lets it.
LEMMA KillIsInterrupt ==
    ASSUME ProcessInv, Kill
    PROVE  Audit!Interrupt
  <1>1. pc # "done" /\ Audit!Restart /\ UNCHANGED <<world, settled>>
    BY DEF Kill
  <1>2. Target' = built
    BY DEF Kill, Reaped, Target
  <1>3. CASE extracting
    <2>1. Target' \in Audit!Stopped(world, lock, Target)
      BY <1>2, <1>3, TargetStopped
    <2>2. Audit!Calls
      BY <1>3 DEF ProcessInv
    <2> QED BY <1>1, <2>1, <2>2 DEF Audit!Interrupt
  <1>4. CASE ~ extracting
    <2>1. Target' = Target
      BY <1>2, <1>4 DEF Target
    <2>2. Target \in Stopped(world, lock, Target)
      BY StoppedIs
    <2>3. Target' \in Audit!Stopped(world, lock, Target)
      BY <2>1, <2>2, SameAuditOutcomes
    <2> QED BY <1>1, <2>1, <2>3 DEF Audit!Interrupt
  <1> QED BY <1>3, <1>4

LEMMA AuditsAreProgram ==
    ASSUME Audits
    PROVE  Audit!Program
  <1>1. \/ Audit!AuditExtract \/ Audit!ReExtract \/ Audit!RustcExtract
        \/ Audit!Main \/ Audit!NewDepManager \/ Audit!CheckRufs
        \/ Audit!FindIssue \/ Audit!DownFix \/ Audit!UpFix \/ Audit!UpdatePkg
        \/ Audit!GenerateLockfile \/ Audit!RustcFix
    BY DEF Audits, Audit!AuditExtract, Audit!ReExtract, Audit!RustcExtract
  <1>2. UNCHANGED <<runs, settled>>
    BY DEF Audits
  <1> QED BY <1>1, <1>2 DEF Audit!Program, Audit!Next

\* The audits with all their processes are the audits of AuditRuns, in which an
\* extraction is one step and target/ what the last one left: for any number of
\* jobs and runs, any size of the pipes, and every world in which no package is
\* compiled from itself.  So what is proved of AuditRuns is true of them.
THEOREM ProcessesKeepRuns ==
    ASSUME \A w \in Worlds : NoBuildCycles(w)
    PROVE  SpecProcesses => KeepsRuns
  <1>1. InitProcesses => Audit!InitRuns
    BY DEF InitProcesses
  <1>2. ProcessInv /\ [NextProcesses]_procvars => [Audit!NextRuns]_(Audit!allvars)
    <2> SUFFICES ASSUME ProcessInv, [NextProcesses]_procvars
                 PROVE  Audit!NextRuns \/ UNCHANGED Audit!allvars
      OBVIOUS
    <2>1. CASE Spawn
      <3>1. UNCHANGED <<world, lock, audit, Target>>
        BY <2>1 DEF Spawn, Target
      <3> QED BY <3>1, RunsUnchanged
    <2>2. CASE Extracting
      <3>1. extracting /\ [Next]_vars /\ UNCHANGED <<extracting, audit>>
        BY <2>2 DEF Extracting
      <3>2. UNCHANGED <<world, lock, audit, Target>>
        BY <3>1, ExtractionKeeps DEF Target
      <3> QED BY <3>2, RunsUnchanged
    <2>3. CASE Return
      <3>1. NoBuildCycles(world)
        BY DEF ProcessInv
      <3> QED BY <2>3, <3>1, ReturnIsExtract DEF Audit!NextRuns
    <2>4. CASE Audits
      BY <2>4, AuditsAreProgram DEF Audit!NextRuns
    <2>5. CASE Kill
      BY <2>5, KillIsInterrupt DEF Audit!NextRuns
    <2>8. CASE ExtractPanics
      BY <2>8, PanicIsPanic DEF Audit!NextRuns
    <2>6. CASE RunAgain
      BY <2>6 DEF RunAgain, Audit!NextRuns
    <2>7. CASE UNCHANGED procvars
      <3>1. UNCHANGED <<world, lock, audit, Target>>
        BY <2>7 DEF procvars, process, Target
      <3> QED BY <3>1, RunsUnchanged
    <2> QED BY <2>1, <2>2, <2>3, <2>4, <2>5, <2>6, <2>7, <2>8 DEF NextProcesses, Go
  <1> QED BY ProcessInit, ProcessStep, <1>1, <1>2, PTL
        DEF SpecProcesses, KeepsRuns, Audit!SpecRuns
-----------------------------------------------------------------------------
\* What is proved of AuditRuns is true of the audits with their processes.

Proved == INSTANCE AuditRuns_proofs WITH built <- Target

LEMMA SameLayer == \A root, depth : Audit!Layer(root, depth) = Proved!Layer(root, depth)
  <1>1. \A w, g, n : Audit!GetDepParent(w, g, n) = Proved!GetDepParent(w, g, n)
    BY DEF Audit!GetDepParent, Proved!GetDepParent, Audit!LockEdges, Proved!LockEdges,
           Audit!Pairs, Proved!Pairs,
           Audit!DependsOn, Proved!DependsOn, Audit!ReqMatches, Proved!ReqMatches
  <1> QED BY <1>1 DEF Audit!Layer, Proved!Layer

LEMMA SameCardinality == \A S : Audit!Cardinality(S) = Proved!Cardinality(S)
  BY DEF Audit!Cardinality, Proved!Cardinality

LEMMA SameFindIssue == Audit!FindIssue <=> Proved!FindIssue
  <1>1. \A root : Audit!Issues(root) = Proved!Issues(root)
    BY DEF Audit!Issues, Proved!Issues, Audit!Reachable, Proved!Reachable,
           Audit!LockEdges, Proved!LockEdges, Audit!Pairs, Proved!Pairs,
           Audit!Flagged, Proved!Flagged,
           Audit!RufsUsable, Proved!RufsUsable, Audit!IsUsable, Proved!IsUsable,
           Audit!GetRufStatus, Proved!GetRufStatus, Audit!FromCode, Proved!FromCode,
           Audit!DependsOn, Proved!DependsOn, Audit!ReqMatches, Proved!ReqMatches
  <1>2. \A root : Audit!FirstIssues(root) = Proved!FirstIssues(root)
    BY <1>1, SameLayer, SameCardinality DEF Audit!FirstIssues, Proved!FirstIssues
  <1>3. Audit!Roots(world, dep_tree) = Proved!Roots(world, dep_tree)
    BY DEF Audit!Roots, Proved!Roots, Audit!LockEdges, Proved!LockEdges,
           Audit!Pairs, Proved!Pairs,
           Audit!GetDepParent, Proved!GetDepParent, Audit!DependsOn, Proved!DependsOn,
           Audit!ReqMatches, Proved!ReqMatches
  <1> QED BY <1>1, <1>2, <1>3
        DEF Audit!FindIssue, Proved!FindIssue, Audit!config, Proved!config,
            Audit!manager, Proved!manager, Audit!Finish, Proved!Finish,
            Audit!Panic, Proved!Panic, Audit!Panicked, Proved!Panicked,
            Audit!Goto, Proved!Goto, Audit!setting, Proved!setting,
            Audit!target, Proved!target, Audit!result, Proved!result

\* Two instances of a module with the same substitution define the same: nothing
\* else is shown here, and for that all definitions that AuditRuns is built from
\* are expanded in both.
LEMMA SameRuns ==
    /\ Audit!InitRuns <=> Proved!InitRuns
    /\ Audit!FixSound <=> Proved!FixSound
    /\ Audit!RustcFixSound <=> Proved!RustcFixSound
    /\ Audit!GivesUpRightly <=> Proved!GivesUpRightly
    /\ Audit!SettledStays <=> Proved!SettledStays
    /\ Audit!Main <=> Proved!Main
    /\ Audit!AuditExtract <=> Proved!AuditExtract
    /\ Audit!ExtractPanics <=> Proved!ExtractPanics
    /\ Audit!NewDepManager <=> Proved!NewDepManager
    /\ Audit!CheckRufs <=> Proved!CheckRufs
    /\ Audit!FindIssue <=> Proved!FindIssue
    /\ Audit!DownFix <=> Proved!DownFix
    /\ Audit!UpFix <=> Proved!UpFix
    /\ Audit!UpdatePkg <=> Proved!UpdatePkg
    /\ Audit!ReExtract <=> Proved!ReExtract
    /\ Audit!GenerateLockfile <=> Proved!GenerateLockfile
    /\ Audit!RustcExtract <=> Proved!RustcExtract
    /\ Audit!RustcFix <=> Proved!RustcFix
    /\ Audit!Exited <=> Proved!Exited
    /\ Audit!Interrupt <=> Proved!Interrupt
    /\ Audit!Again <=> Proved!Again
    /\ Audit!FollowAdvice <=> Proved!FollowAdvice
    /\ Audit!allvars = Proved!allvars
  <1> USE DEF Audit!Finish, Proved!Finish, Audit!Unexpected, Proved!Unexpected,
              Audit!Panic, Proved!Panic, Audit!manager, Proved!manager,
              Audit!target, Proved!target, Audit!result, Proved!result,
              Audit!RunExtract, Proved!RunExtract, Audit!Goto, Proved!Goto,
              Audit!config, Proved!config, Audit!RustcVersions, Proved!RustcVersions,
              Audit!AllUsable, Proved!AllUsable, Audit!Roots, Proved!Roots,
              Audit!Issues, Proved!Issues, Audit!FirstIssues, Proved!FirstIssues,
              Audit!Search, Proved!Search, Audit!GetCandidates, Proved!GetCandidates,
              Audit!SlowFixFails, Proved!SlowFixFails,
              Audit!GetCandidatesUpFix, Proved!GetCandidatesUpFix,
              Audit!CargoUpdate, Proved!CargoUpdate,
              Audit!MinimalLocks, Proved!MinimalLocks,
              Audit!UsableRustc, Proved!UsableRustc, Audit!setting, Proved!setting,
              Audit!Functionality, Proved!Functionality, Audit!vars, Proved!vars,
              Audit!Restart, Proved!Restart, Audit!Stopped, Proved!Stopped,
              Audit!Unwarned, Proved!Unwarned, Audit!SameProject, Proved!SameProject,
              Audit!Init, Proved!Init, Audit!RefusedAlike, Proved!RefusedAlike,
              Audit!NamedAlike, Proved!NamedAlike, Audit!RootOnTop, Proved!RootOnTop,
              Audit!LockUsable, Proved!LockUsable, Audit!NeverFresh, Proved!NeverFresh,
              Audit!Panicked, Proved!Panicked, Audit!Extractions, Proved!Extractions,
              Audit!Extract, Proved!Extract,
              Audit!UpdateBuildCfgs, Proved!UpdateBuildCfgs,
              Audit!RufsUsable, Proved!RufsUsable, Audit!LockEdges, Proved!LockEdges,
              Audit!Flagged, Proved!Flagged, Audit!Reachable, Proved!Reachable,
              Audit!GetCandidatesPanics, Proved!GetCandidatesPanics,
              Audit!GetDepParent, Proved!GetDepParent,
              Audit!GetCandidatesFails, Proved!GetCandidatesFails,
              Audit!FiltersPanic, Proved!FiltersPanic, Audit!Choose, Proved!Choose,
              Audit!RufVersions, Proved!RufVersions, Audit!Searched, Proved!Searched,
              Audit!ReqMatches, Proved!ReqMatches, Audit!FirstReq, Proved!FirstReq,
              Audit!Mentions, Proved!Mentions, Audit!Locks, Proved!Locks,
              Audit!Replaces, Proved!Replaces,
              Audit!UsableRustcForRufs, Proved!UsableRustcForRufs,
              Audit!Built, Proved!Built, Audit!Unscannable, Proved!Unscannable,
              Audit!Inputs, Proved!Inputs, Audit!Trusted, Proved!Trusted,
              Audit!DeclaredRufs, Proved!DeclaredRufs, Audit!DependsOn, Proved!DependsOn,
              Audit!Compiled, Proved!Compiled, Audit!UsedBy, Proved!UsedBy,
              Audit!ScannerOutput, Proved!ScannerOutput,
              Audit!Incomplete, Proved!Incomplete, Audit!Failures, Proved!Failures,
              Audit!Reported, Proved!Reported, Audit!IsUsable, Proved!IsUsable,
              Audit!GetRufStatus, Proved!GetRufStatus, Audit!Allowed, Proved!Allowed,
              Audit!StrictParents, Proved!StrictParents,
              Audit!FilterPanics, Proved!FilterPanics,
              Audit!ReqByAfter, Proved!ReqByAfter, Audit!Usable, Proved!Usable,
              Audit!Major, Proved!Major, Audit!GetRufAllStatus, Proved!GetRufAllStatus,
              Audit!BuildUnit, Proved!BuildUnit,
              Audit!ScannedBuilds, Proved!ScannedBuilds, Audit!LibUnit, Proved!LibUnit,
              Audit!Scanned, Proved!Scanned, Audit!Needs, Proved!Needs,
              Audit!CondHolds, Proved!CondHolds, Audit!BuildEdges, Proved!BuildEdges,
              Audit!CheckInfo, Proved!CheckInfo,
              Audit!BuildCheckInfo, Proved!BuildCheckInfo, Audit!Units, Proved!Units,
              Audit!FromCode, Proved!FromCode, Audit!Lowest, Proved!Lowest,
              Audit!NeedsCfgs, Proved!NeedsCfgs, Audit!FilterRufs, Proved!FilterRufs,
              Audit!Reached, Proved!Reached, Audit!Pairs, Proved!Pairs,
              Audit!Calls, Proved!Calls, Audit!Ends, Proved!Ends,
              Audit!LateFailures, Proved!LateFailures,
              Audit!LateOutput, Proved!LateOutput
  <1>1. Audit!InitRuns <=> Proved!InitRuns
    BY DEF Audit!InitRuns, Proved!InitRuns
  <1>2. Audit!FixSound <=> Proved!FixSound
    BY DEF Audit!FixSound, Proved!FixSound
  <1>3. Audit!RustcFixSound <=> Proved!RustcFixSound
    BY DEF Audit!RustcFixSound, Proved!RustcFixSound
  <1>4. Audit!GivesUpRightly <=> Proved!GivesUpRightly
    BY DEF Audit!GivesUpRightly, Proved!GivesUpRightly
  <1>5. Audit!SettledStays <=> Proved!SettledStays
    BY DEF Audit!SettledStays, Proved!SettledStays
  <1>6. Audit!Main <=> Proved!Main
    BY DEF Audit!Main, Proved!Main
  <1>7. Audit!AuditExtract <=> Proved!AuditExtract
    BY DEF Audit!AuditExtract, Proved!AuditExtract
  <1>23. Audit!ExtractPanics <=> Proved!ExtractPanics
    BY DEF Audit!ExtractPanics, Proved!ExtractPanics
  <1>8. Audit!NewDepManager <=> Proved!NewDepManager
    BY DEF Audit!NewDepManager, Proved!NewDepManager
  <1>9. Audit!CheckRufs <=> Proved!CheckRufs
    BY DEF Audit!CheckRufs, Proved!CheckRufs
  <1>10. Audit!FindIssue <=> Proved!FindIssue
    BY SameFindIssue
  <1>11. Audit!DownFix <=> Proved!DownFix
    BY DEF Audit!DownFix, Proved!DownFix
  <1>12. Audit!UpFix <=> Proved!UpFix
    BY DEF Audit!UpFix, Proved!UpFix
  <1>13. Audit!UpdatePkg <=> Proved!UpdatePkg
    BY DEF Audit!UpdatePkg, Proved!UpdatePkg
  <1>14. Audit!ReExtract <=> Proved!ReExtract
    BY DEF Audit!ReExtract, Proved!ReExtract
  <1>15. Audit!GenerateLockfile <=> Proved!GenerateLockfile
    BY DEF Audit!GenerateLockfile, Proved!GenerateLockfile
  <1>16. Audit!RustcExtract <=> Proved!RustcExtract
    BY DEF Audit!RustcExtract, Proved!RustcExtract
  <1>17. Audit!RustcFix <=> Proved!RustcFix
    BY DEF Audit!RustcFix, Proved!RustcFix
  <1>18. Audit!Exited <=> Proved!Exited
    BY DEF Audit!Exited, Proved!Exited
  <1>19. Audit!Interrupt <=> Proved!Interrupt
    BY DEF Audit!Interrupt, Proved!Interrupt
  <1>20. Audit!Again <=> Proved!Again
    BY DEF Audit!Again, Proved!Again
  <1>21. Audit!FollowAdvice <=> Proved!FollowAdvice
    BY DEF Audit!FollowAdvice, Proved!FollowAdvice
  <1>22. Audit!allvars = Proved!allvars
    BY DEF Audit!allvars, Proved!allvars
  <1> QED BY <1>1, <1>2, <1>3, <1>4, <1>5, <1>6, <1>7, <1>8, <1>9, <1>10, <1>11, <1>12,
             <1>13, <1>14, <1>15, <1>16, <1>17, <1>18, <1>19, <1>20, <1>21, <1>22, <1>23

\* The assumptions of AuditRuns, which are those of this module.
LEMMA ProvedAssumptions ==
    /\ \A w \in Worlds : Proved!IsWorld(w)
    /\ RUF_LIFETIME \in Proved!LifetimeTables
  <1>1. \A w \in Worlds : Proved!IsWorld(w)
    BY WorldsAssumption
       DEF IsWorld, Proved!IsWorld, Packages, Proved!Packages, Dependency, Proved!Dependency,
           CondRufs, Proved!CondRufs, Conds, Proved!Conds
  <1>2. RUF_LIFETIME \in Proved!LifetimeTables
    BY LifetimeAssumption
       DEF LifetimeTables, Proved!LifetimeTables, RustcVersions, Proved!RustcVersions
  <1> QED BY <1>1, <1>2

\* What a run reports is true of the lock file it leaves, whichever runs were
\* killed before it and at whichever step of their processes: that nothing is
\* left to fix, which rustc can be used, and that none can.  And no later run
\* contradicts it, though its extractions report only what is not fresh.
THEOREM ProcessesReportSound ==
    ASSUME \A w \in Worlds : NoBuildCycles(w)
    PROVE  SpecProcesses => []ReportsSound
  <1>1. Audit!NextRuns <=> Proved!NextRuns
    BY SameRuns DEF Audit!NextRuns, Proved!NextRuns, Audit!Program, Proved!Program,
                    Audit!Next, Proved!Next
  <1>2. [Audit!NextRuns]_(Audit!allvars) => [Proved!NextRuns]_(Proved!allvars)
    BY <1>1 DEF Audit!allvars, Proved!allvars, Audit!vars, Proved!vars,
                Audit!setting, Proved!setting, Audit!config, Proved!config,
                Audit!manager, Proved!manager, Audit!target, Proved!target,
                Audit!result, Proved!result
  <1>3. Audit!SpecRuns => Proved!SpecRuns
    BY SameRuns, <1>2, PTL DEF Audit!SpecRuns, Proved!SpecRuns
  <1>4. Proved!SpecRuns =>
            [](Proved!FixSound /\ Proved!RustcFixSound /\ Proved!GivesUpRightly
                 /\ Proved!SettledStays)
    BY Proved!RunsReport, ProvedAssumptions, WorldsAssumption, LifetimeAssumption,
       VersionsAssumption, ExtractionAssumption, MaxRunsAssumption
  <1>5. Proved!FixSound /\ Proved!RustcFixSound /\ Proved!GivesUpRightly
             /\ Proved!SettledStays => ReportsSound
    BY SameRuns DEF ReportsSound
  <1> QED BY ProcessesKeepRuns, <1>3, <1>4, <1>5, PTL DEF KeepsRuns
=============================================================================
