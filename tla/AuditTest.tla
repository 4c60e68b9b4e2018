----------------------------- MODULE AuditTest ------------------------------
(***************************************************************************)
(* The two modes of the audit that fix nothing.  `--test` asks of a project *)
(* four questions in turn and stops at the first that has the answer yes:   *)
(* is the lock file usable as it is?  With another rustc?  Are the oldest   *)
(* dependencies usable with the project's rustc?  With another?             *)
(* `--extract` lists which crates use rufs the project's rustc lacks.       *)
(***************************************************************************)
EXTENDS Extraction

CONSTANT Worlds       \* as in RufAudit

ASSUME WorldsAssumption == \A w \in Worlds : IsWorld(w)

VARIABLES
    world,
    mode,        \* "test" or "extract", once the options are read
    first,       \* Cargo.lock as the run found it
    lock,        \* Cargo.lock
    built,       \* the units fresh in target/
    pc,          \* the question at hand, or the step before it
    used_rufs,   \* the rufs of the last extraction, by crate name
    incomplete,  \* the last extraction is incomplete, whether or not it says so
    result,      \* the four answers, none of which is no at first
    listing,     \* what --extract prints: crate names and whether their use is ok
    exit         \* the exit code

setting == <<world, mode, first>>
vars == <<setting, lock, built, pc, used_rufs, incomplete, result, listing, exit>>

Init ==
    /\ world \in Worlds /\ first \in Locks(world) /\ lock = first
    /\ built \in {{}, Built(world, lock, {}, Unscannable(world, lock))}
    /\ mode = "none" /\ pc = "start" /\ used_rufs = <<>> /\ incomplete = FALSE
    /\ result = <<TRUE, TRUE, TRUE, TRUE>> /\ listing = {} /\ exit = 0

Goto(where) == pc' = where /\ UNCHANGED exit
Finish(code) == pc' = "done" /\ exit' = code

\* The answer to question i is no.
No(i) == result' = [result EXCEPT ![i] = FALSE]

\* The configuration is built and the options are parsed, or the run ends.
Main ==
    /\ pc = "start"
    /\ \/ mode' = "extract" /\ Goto("list_extract")
       \/ mode' = "test" /\ Goto("extract")
       \/ \E code \in {-1, 101} : Finish(code) /\ UNCHANGED mode
    /\ UNCHANGED <<world, first, lock, built, used_rufs, incomplete, result, listing>>

\* extract; crates_cfgs, which it updates too, is never read in these modes.
\* What they do when Cargo cannot be spawned is their own.  It may panic over
\* what it reads, while Cargo may still be at work.
ExtractAt(here, there, failed) ==
    /\ pc = here
    /\ \/ \E e \in Extractions(world, lock, built) :
            /\ used_rufs' = Extract(e.infos) /\ incomplete' = e.incomplete
            /\ built' = e.fresh
            /\ Goto(there)
       \/ Finish(failed) /\ UNCHANGED <<used_rufs, incomplete, built>>
       \/ /\ Finish(101) /\ built' \in Stopped(world, lock, built)
          /\ UNCHANGED <<used_rufs, incomplete>>
    /\ UNCHANGED <<setting, lock, result, listing>>

\* rufs_usable asserts that the table covers the rustc.
RustcTooNew == used_rufs # <<>> /\ world.rustc \notin RustcVersions
-----------------------------------------------------------------------------
\* --extract.  It exits with 0 even when the extraction failed.
ListExtract == ExtractAt("list_extract", "list", 0)

List ==
    /\ pc = "list"
    /\ \/ RustcTooNew /\ Finish(101) /\ UNCHANGED listing
       \/ /\ ~ RustcTooNew
          /\ listing' = {<<name, RufsUsable(used_rufs[name], world.rustc)>> :
                            name \in DOMAIN used_rufs}
          /\ Finish(0)
    /\ UNCHANGED <<setting, lock, built, used_rufs, incomplete, result>>
-----------------------------------------------------------------------------
\* --test.

\* Questions 1 and 3.
AskUsable(here, i, there) ==
    /\ pc = here
    /\ \/ RustcTooNew /\ Finish(101) /\ UNCHANGED result
       \/ /\ ~ RustcTooNew
          /\ \A name \in DOMAIN used_rufs : RufsUsable(used_rufs[name], world.rustc)
          /\ Finish(0) /\ UNCHANGED result
       \/ /\ ~ RustcTooNew
          /\ \E name \in DOMAIN used_rufs : ~ RufsUsable(used_rufs[name], world.rustc)
          /\ No(i) /\ Goto(there)
    /\ UNCHANGED <<setting, lock, built, used_rufs, incomplete, listing>>

UsableRustc ==
    {ver \in RustcVersions : \A name \in DOMAIN used_rufs :
        ver \in UsableRustcForRufs(used_rufs[name])}

TestUsable == AskUsable("test1", 1, "test2")
TestMinUsable == AskUsable("test3", 3, "test4")

TestExtract == ExtractAt("extract", "test1", 1)
TestMinExtract == ExtractAt("reextract", "test3", 1)

\* Mutant: question 2 is answered by the greatest version alone.
TestRustcGreatest ==
    /\ pc = "test2"
    /\ \/ RUSTC_VER_NUM - 1 \in UsableRustc /\ Finish(0) /\ UNCHANGED result
       \/ RUSTC_VER_NUM - 1 \notin UsableRustc /\ No(2) /\ Goto("minimal")
    /\ UNCHANGED <<setting, lock, built, used_rufs, incomplete, listing>>

TestRustc ==
    /\ pc = "test2"
    /\ \/ UsableRustc # {} /\ Finish(0) /\ UNCHANGED result
       \/ UsableRustc = {} /\ No(2) /\ Goto("minimal")
    /\ UNCHANGED <<setting, lock, built, used_rufs, incomplete, listing>>

\* Mutant: questions 3 and 4 are asked of what was extracted before.
TestMinimalNotExtracted ==
    /\ pc = "minimal"
    /\ lock' \in MinimalLocks(world) /\ Goto("test3")
    /\ UNCHANGED <<setting, built, used_rufs, incomplete, result, listing>>

TestMinimal ==
    /\ pc = "minimal"
    /\ \/ lock' \in MinimalLocks(world) /\ Goto("reextract")
       \/ Finish(1) /\ UNCHANGED lock
    /\ UNCHANGED <<setting, built, used_rufs, incomplete, result, listing>>

TestMinRustc ==
    /\ pc = "test4"
    /\ \/ UsableRustc # {} /\ Finish(0) /\ UNCHANGED result
       \/ UsableRustc = {} /\ No(4) /\ Finish(2)
    /\ UNCHANGED <<setting, lock, built, used_rufs, incomplete, listing>>

Exited == pc = "done" /\ UNCHANGED vars

Next ==
    \/ Main \/ ListExtract \/ List
    \/ TestExtract \/ TestUsable \/ TestRustc
    \/ TestMinimal \/ TestMinExtract \/ TestMinUsable \/ TestMinRustc
    \/ Exited

Spec == Init /\ [][Next]_vars /\ WF_vars(Next)
-----------------------------------------------------------------------------
\* Every variable has its type.
TypeOK ==
    /\ world \in Worlds /\ mode \in {"none", "test", "extract"}
    /\ {first, lock} \subseteq Locks(world)
    /\ built \subseteq Packages \X SUBSET Packages
    /\ pc \in {"start", "list_extract", "list", "extract", "test1", "test2", "minimal",
               "reextract", "test3", "test4", "done"}
    /\ DOMAIN used_rufs \subseteq CrateNames
    /\ used_rufs \in [DOMAIN used_rufs -> SUBSET Rufs]
    /\ incomplete \in BOOLEAN /\ result \in [1 .. 4 -> BOOLEAN]
    /\ listing \subseteq CrateNames \X BOOLEAN
    /\ exit \in {0, 1, 2, -1, 101}

\* What these modes leave in target/ misleads no audit that comes after them,
\* though it comes from two lock files and an extraction may have panicked.
FreshIsSound == TargetSound(world, built)

Helps(L) == \E ver \in RustcVersions : LockUsable(world, L, ver)

\* In a trusted world the yes a test ends with is right, if the extraction it
\* rests on was complete (the second extraction is quiet, and does not say).
YesIsRight ==
    /\ mode = "test" /\ pc = "done" /\ exit = 0
    /\ ~ incomplete /\ Trusted(world)
    => \/ result[1] /\ LockUsable(world, first, world.rustc)
       \/ ~ result[1] /\ result[2] /\ Helps(first)
       \/ ~ result[2] /\ result[3] /\ LockUsable(world, lock, world.rustc)
       \/ ~ result[3] /\ Helps(lock)

\* In any world, and whatever an extraction misses, a no is right.
NoIsRight ==
    /\ ~ result[1] => ~ LockUsable(world, first, world.rustc)
    /\ ~ result[2] => ~ Helps(first)
    /\ ~ result[3] => ~ LockUsable(world, lock, world.rustc)
    /\ ~ result[4] => ~ Helps(lock)

\* The lock file of the project is replaced only when no rustc can use it.
ReplacedForCause ==
    [][lock' # lock => lock = first /\ ~ Helps(first)]_vars

\* "crate .. ruf usage not ok": a package compiled under that name, or a build
\* script, uses a ruf the rustc lacks; and in a trusted world, if the extraction
\* is complete, each such package is listed so.
ListRight ==
    listing # {} =>
        /\ \A name \in CrateNames : <<name, FALSE>> \in listing =>
             \E p \in Compiled(world, lock) :
                /\ name \in {world.lib[p[1]], BuildScript}
                /\ ~ RufsUsable(UsedBy(world, p), world.rustc)
        /\ ~ incomplete /\ Trusted(world) =>
             \A p \in Compiled(world, lock) :
                ~ RufsUsable(UsedBy(world, p), world.rustc)
                    => <<world.lib[p[1]], FALSE>> \in listing
=============================================================================
