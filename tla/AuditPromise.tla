---------------------------- MODULE AuditPromise ----------------------------
(***************************************************************************)
(* What an audit promises the user of a project, by its messages and exit   *)
(* codes.  It changes Cargo.lock only by downgrading one package at a time, *)
(* and at most once by going back to the oldest dependencies, after which   *)
(* it changes nothing any more.  When it reports success the lock file it   *)
(* leaves is usable, with the project's rustc or with the one it names (in  *)
(* a trusted world: see the end of Registry; and unless it warned that what *)
(* it was told is incomplete); it never names a rustc that a greater one    *)
(* could replace, and says that no rustc helps only when none does.  It may *)
(* always abandon the attempt (an error of a tool it calls, a panic).       *)
(***************************************************************************)
EXTENDS Registry

CONSTANT Worlds

VARIABLES world, lock, phase, incomplete, rustc

Init ==
    /\ world \in Worlds /\ lock \in Locks(world)
    /\ phase = "tree" /\ rustc = 0 /\ incomplete = FALSE

Downgrade ==
    /\ phase = "tree"
    /\ \E p \in lock \ lock' : \E ver \in Versions :
          ver < p[2] /\ lock' \in CargoUpdate(world, lock, p, ver)
    /\ UNCHANGED <<world, phase, incomplete, rustc>>

GoBack ==
    /\ phase = "tree" /\ phase' = "oldest"
    /\ lock' \in MinimalLocks(world)
    /\ UNCHANGED <<world, incomplete, rustc>>

Warn ==
    /\ phase \in {"tree", "oldest"} /\ incomplete' \in BOOLEAN
    /\ UNCHANGED <<world, lock, phase, rustc>>

Report(outcome) == phase' = outcome /\ UNCHANGED <<world, lock, incomplete>>

ReportUsable ==
    /\ phase = "tree"
    /\ Trusted(world) /\ ~ incomplete => LockUsable(world, lock, world.rustc)
    /\ Report("usable") /\ UNCHANGED rustc

ReportUsableWith ==
    /\ phase = "oldest"
    /\ rustc' \in RustcVersions
    /\ Trusted(world) /\ ~ incomplete => LockUsable(world, lock, rustc')
    /\ \A ver \in RustcVersions : ver > rustc' => ~ LockUsable(world, lock, ver)
    /\ Report("usable_with")

ReportUnfixable ==
    /\ phase = "oldest"
    /\ \A ver \in RustcVersions : ~ LockUsable(world, lock, ver)
    /\ Report("unfixable") /\ UNCHANGED rustc

Abandon ==
    /\ phase \in {"tree", "oldest"}
    /\ Report("abandoned") /\ UNCHANGED rustc

Next ==
    \/ Downgrade \/ GoBack \/ Warn
    \/ ReportUsable \/ ReportUsableWith \/ ReportUnfixable \/ Abandon

Spec == Init /\ [][Next]_<<world, lock, phase, incomplete, rustc>>
=============================================================================
