----------------------------- MODULE AuditRuns ------------------------------
(***************************************************************************)
(* One project audited several times: again after a run has ended, after it  *)
(* was interrupted at any step, and after its user has followed the advice  *)
(* to change rustc.  The audit keeps nothing of its own between runs.  What *)
(* a run finds is what the earlier ones left: a lock file downgraded in     *)
(* part, and a target/ whose fresh units it will not be told of again.      *)
(***************************************************************************)
EXTENDS RufAudit

CONSTANT MaxRuns       \* how many runs there are at most

ASSUME MaxRunsAssumption == MaxRuns \in Nat \ {0}

VARIABLES
    runs,        \* how many runs have been started
    settled      \* an earlier run said, without a warning, that nothing is left to fix

allvars == <<vars, runs, settled>>

InitRuns == Init /\ runs = 1 /\ settled = FALSE

Program == Next /\ UNCHANGED <<runs, settled>>

\* A new process: it knows nothing but the setting and the files.
Restart ==
    /\ runs < MaxRuns /\ runs' = runs + 1
    /\ pc' = "start" /\ quick' = FALSE
    /\ dep_tree' = {} /\ req_by' = <<>>
    /\ used_rufs' = <<>> /\ crates_cfgs' = <<>> /\ incomplete' = FALSE
    /\ at' = world.root /\ fix_ver' = world.root[2]
    /\ verdict' = "none" /\ rustc' = 0 /\ exit' = 0
    /\ UNCHANGED lock

\* The process is killed, and Cargo stops with it or goes on to its end.  Cargo
\* replaces the lock file as a whole: to stop it on its way is to stop before
\* the step or after it.
Interrupt ==
    /\ pc # "done" /\ Restart
    /\ built' \in IF Calls THEN Stopped(world, lock, built) ELSE {built}
    /\ UNCHANGED <<world, settled>>

Unwarned == Trusted(world) /\ ~ incomplete

Again ==
    /\ pc = "done" /\ Restart
    /\ settled' = (settled \/ (verdict \in {"clean", "tree"} /\ Unwarned))
    /\ UNCHANGED <<world, built>>

SameProject(w, v) ==
    /\ w.deps = v.deps /\ w.root = v.root /\ w.members = v.members /\ w.local = v.local
    /\ w.rufs = v.rufs /\ w.cfgs = v.cfgs /\ w.build = v.build /\ w.lib = v.lib
    /\ w.broken = v.broken /\ w.refused = v.refused /\ w.noscript = v.noscript
    /\ w.norun = v.norun /\ w.flaky = v.flaky /\ w.known = v.known
    /\ w.features = v.features /\ w.unlisted = v.unlisted

\* "rustc 1.x can be used in current configurations": the project gets it.  The
\* audit's own rustc, which target/ comes from, stays what it was.
FollowAdvice ==
    /\ pc = "done" /\ verdict = "rustc" /\ Restart
    /\ world' \in Worlds /\ SameProject(world, world') /\ world'.rustc = rustc
    /\ settled' = Unwarned
    /\ UNCHANGED built

NextRuns == Program \/ Interrupt \/ Again \/ FollowAdvice

SpecRuns == InitRuns /\ [][NextRuns]_allvars
-----------------------------------------------------------------------------
\* The audit does not contradict itself: once a run has said that no issue is
\* left, or its advice was followed, no later run finds anything to fix.
SettledStays == settled => pc \in {"start", "extract", "new", "check", "done"}
=============================================================================
