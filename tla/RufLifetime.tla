---------------------------- MODULE RufLifetime ----------------------------
(***************************************************************************)
(* The lifetime table of Rust unstable features ("rufs") and the two       *)
(* questions the audit asks of it: is a set of rufs usable with one rustc, *)
(* and which rustc versions can use all of them.  The program answers them *)
(* with two functions that share no code, `rufs_usable` and                *)
(* `usable_rustc_for_rufs`; RufAudit relies on their agreement.            *)
(***************************************************************************)
EXTENDS Integers

CONSTANTS
    Rufs,            \* ruf names that may be met, in the table or not
    KnownRufs,       \* the keys of the table
    RUSTC_VER_NUM,   \* number of rustc minor versions the table covers
    RUF_LIFETIME     \* the table: a u8 status code per ruf and rustc version

RustcVersions == 0 .. RUSTC_VER_NUM - 1

\* The tables the generator may write: a code for every version of each ruf.
LifetimeTables == [KnownRufs -> [RustcVersions -> 0 .. 4]]

ASSUME LifetimeAssumption ==
    /\ RUSTC_VER_NUM \in Nat \ {0}
    /\ KnownRufs \subseteq Rufs
    /\ RUF_LIFETIME \in LifetimeTables

RufStatus == {"Unknown", "Active", "Incomplete", "Accepted", "Removed"}

\* RufStatus::from(u32); any other code is unreachable!().
FromCode(code) ==
    <<"Unknown", "Active", "Incomplete", "Accepted", "Removed">>[code + 1]

\* RufStatus::is_usable.
IsUsable(status) == status \notin {"Removed", "Unknown"}

\* A ruf missing from the table has status Unknown in every rustc version.
GetRufStatus(ruf, rustc) ==
    IF ruf \in KnownRufs THEN FromCode(RUF_LIFETIME[ruf][rustc]) ELSE "Unknown"

\* The vector of statuses by rustc version; empty for a ruf not in the table.
GetRufAllStatus(ruf) ==
    [rustc \in IF ruf \in KnownRufs THEN RustcVersions ELSE {} |->
        FromCode(RUF_LIFETIME[ruf][rustc])]

\* BuildConfig::rufs_usable, for a rustc version the table covers (it asserts
\* that; the panic is one of RufAudit's check step).
RufsUsable(rufs, rustc) ==
    ~ \E ruf \in rufs : ~ IsUsable(GetRufStatus(ruf, rustc))

\* Mutant: incomplete features are not counted as usable.
UsableRustcWithoutIncomplete(rufs) ==
    {rustc \in RustcVersions :
        \A ruf \in rufs : GetRufStatus(ruf, rustc) \in {"Active", "Accepted"}}

\* BuildConfig::usable_rustc_for_rufs: every version, cut down ruf by ruf to
\* the positions of that ruf's vector whose status is usable.
UsableRustcForRufs(rufs) ==
    {rustc \in RustcVersions :
        \A ruf \in rufs :
            rustc \in {ver \in DOMAIN GetRufAllStatus(ruf) :
                          IsUsable(GetRufAllStatus(ruf)[ver])}}
=============================================================================
