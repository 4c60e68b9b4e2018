--------------------------- MODULE AuditProcesses ---------------------------
(***************************************************************************)
(* Audits of a project together with the processes of their extractions:    *)
(* AuditRuns takes an extraction as one step, here it is the steps of        *)
(* ExtractRun.  A run may be killed in the middle of one: target/ is what    *)
(* rustc had written by then, and the next run starts from it, with whatever *)
(* lock file and whatever other units of earlier extractions there are.      *)
(***************************************************************************)
EXTENDS ExtractRun

CONSTANT MaxRuns       \* as in AuditRuns

ASSUME MaxRunsAssumption == MaxRuns \in Nat \ {0}

VARIABLES
    extracting,        \* the audit is in extract, which spawned cargo
    \* The variables of RufAudit and AuditRuns that ExtractRun does not have.
    quick, pc, dep_tree, req_by, used_rufs, crates_cfgs, incomplete, at, fix_ver,
    verdict, rustc, exit, runs, settled

process == <<before, unit, messages, cargo, out, err, reader, infos>>
result == <<verdict, rustc, exit, runs, settled>>
audit == <<quick, pc, dep_tree, req_by, used_rufs, crates_cfgs, incomplete, at, fix_ver, result>>
procvars == <<world, lock, verbose, built, process, extracting, audit>>

\* The audits as AuditRuns sees them: to the audit target/ stays as it was until
\* extract returns.
Target == IF extracting THEN before ELSE built
Audit == INSTANCE AuditRuns WITH built <- Target

NoProcess ==
    /\ before = {} /\ unit = <<>> /\ messages = <<>> /\ cargo = "ok"
    /\ out = <<>> /\ err = 0 /\ reader = "parsed" /\ infos = {}

InitProcesses ==
    /\ world \in Worlds /\ lock \in Locks(world) /\ verbose \in Verbosity
    /\ built \in {{}, Built(world, lock, {}, Unscannable(world, lock))}
    /\ extracting = FALSE /\ NoProcess
    /\ Audit!InitRuns

\* The process that was waited for, or that is killed, is gone.
Reaped ==
    /\ extracting' = FALSE
    /\ before' = {} /\ unit' = <<>> /\ messages' = <<>> /\ cargo' = "ok"
    /\ out' = <<>> /\ err' = 0 /\ reader' = "parsed" /\ infos' = {}
-----------------------------------------------------------------------------
\* extract, which the audit calls in three places.
\* cargo is spawned, and finds the units that are fresh.
Spawn ==
    /\ Audit!Calls /\ ~ extracting /\ extracting' = TRUE
    /\ before' = built
    /\ unit' = [u \in Units(world, lock) |-> IF u \in built THEN "ran" ELSE "waiting"]
    /\ messages' = <<>> /\ cargo' = "running" /\ out' = <<>> /\ err' = 0
    /\ reader' = IF verbose THEN "stderr" ELSE "output"
    /\ infos' = {}
    /\ UNCHANGED <<world, lock, verbose, built, audit>>

Extracting == extracting /\ Next /\ UNCHANGED <<extracting, audit>>

\* Mutant: what was extracted before is kept where nothing new is reported.
ReturnMerged ==
    /\ extracting /\ reader = "parsed" /\ Reaped
    /\ used_rufs' = [name \in DOMAIN used_rufs \cup Reported(infos) |->
           IF name \in Reported(infos) THEN Extract(infos)[name] ELSE used_rufs[name]]
    /\ crates_cfgs' = UpdateBuildCfgs(crates_cfgs, infos)
    /\ incomplete' = (cargo = "failed")
    /\ pc' = CASE pc = "extract" -> "new" [] pc = "reextract" -> "find"
               [] pc = "rustc_extract" -> "rustc_fix"
    /\ UNCHANGED <<world, lock, verbose, built, quick, dep_tree, req_by, at, fix_ver, result>>

\* extract returns what it has parsed, and has warned if cargo failed.
Return ==
    /\ extracting /\ reader = "parsed" /\ Reaped
    /\ used_rufs' = Extract(infos)
    /\ crates_cfgs' = UpdateBuildCfgs(crates_cfgs, infos)
    /\ incomplete' = (cargo = "failed")
    /\ pc' = CASE pc = "extract" -> "new" [] pc = "reextract" -> "find"
               [] pc = "rustc_extract" -> "rustc_fix"
    /\ UNCHANGED <<world, lock, verbose, built, quick, dep_tree, req_by, at, fix_ver, result>>

\* extract panics over what it reads or has read; cargo goes with it, or goes on
\* as in a run that is killed later.
ExtractPanics ==
    /\ extracting /\ Reaped
    /\ pc' = "done" /\ exit' = Audit!Panicked /\ verdict' = "extraction cannot be read"
    /\ UNCHANGED <<world, lock, verbose, built, quick, dep_tree, req_by, used_rufs, crates_cfgs,
                   incomplete, at, fix_ver, rustc, runs, settled>>

\* The audit between two extractions, and where cargo cannot be spawned.
Idle == ~ extracting /\ UNCHANGED <<built, process, extracting>>

Audits ==
    /\ Idle
    /\ \/ Audit!Main /\ verbose' \in Verbosity
       \/ /\ UNCHANGED verbose
          /\ \/ pc \in {"extract", "rustc_extract"} /\ Audit!Finish(Audit!Unexpected, "failed")
             \/ pc = "reextract" /\ Audit!SlowFixFails
             \/ Audit!NewDepManager \/ Audit!CheckRufs
             \/ Audit!FindIssue \/ Audit!DownFix \/ Audit!UpFix \/ Audit!UpdatePkg
             \/ Audit!GenerateLockfile \/ Audit!RustcFix
    /\ UNCHANGED <<runs, settled>>

\* The audit is killed, and cargo and the wrappers stop with it.  (What they
\* might still do is what they do in a run that is killed later.)
Kill ==
    /\ pc # "done" /\ Audit!Restart
    /\ Reaped /\ UNCHANGED <<world, verbose, built, settled>>

RunAgain == Idle /\ UNCHANGED verbose /\ (Audit!Again \/ Audit!FollowAdvice)

Go == Spawn \/ Extracting \/ Return \/ Audits
NextProcesses == Go \/ ExtractPanics \/ Kill \/ RunAgain

\* Every process goes on unless the run is killed or extract panics, which
\* neither has to happen.
SpecProcesses == InitProcesses /\ [][NextProcesses]_procvars /\ WF_procvars(Go)
-----------------------------------------------------------------------------
\* What target/ holds is sound at any moment: while wrappers run, after a run
\* was killed at any step of an extraction, and after all that earlier runs
\* extracted from other lock files.
FreshIsSound == TargetSound(world, built)

\* The audits with their processes are audits as AuditRuns has them: killed at
\* any step of an extraction, it leaves what Interrupt of AuditRuns lets it.
KeepsRuns == Audit!SpecRuns

\* What a run reports is true of the lock file it leaves, whichever runs were
\* killed before it and at whichever step of their processes; nor does a later
\* run contradict it.
ReportsSound ==
    Audit!FixSound /\ Audit!RustcFixSound /\ Audit!GivesUpRightly /\ Audit!SettledStays

\* However often it was killed, the last run ends if it is without --verbose.
LastRunEnds == <>[] ~ verbose => <>[](pc = "done")
=============================================================================
