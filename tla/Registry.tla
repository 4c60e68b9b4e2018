------------------------------ MODULE Registry ------------------------------
(***************************************************************************)
(* What the audit runs against and does not implement: the published       *)
(* packages with their requirements, the lock files Cargo can resolve them *)
(* to, `cargo update --precise`, `cargo generate-lockfile -Z               *)
(* minimal-versions`, and which packages of a lock file Cargo compiles.    *)
(*                                                                         *)
(* One such setting is a world: a record fixed for the whole run.          *)
(* A package is a pair <<crate, version>>; version 10*x + y stands for the *)
(* semver version x.y, whose major is x.  A requirement is an interval of  *)
(* versions of one major.  A lock file is the set of packages it pins.     *)
(***************************************************************************)
EXTENDS RufLifetime, Sequences, FiniteSets

CONSTANTS
    Crates,        \* names of packages
    Versions,      \* version numbers that may exist
    CrateNames,    \* names rustc gives compiled crates (--crate-name)
    Cfgs           \* conditional compilation flags (--cfg)

ASSUME VersionsAssumption == Versions \subseteq Nat

Packages == Crates \X Versions
Major(ver) == ver \div 10

\* The condition of a `cfg_attr(cond, feature(..))`: none, or whether one cfg
\* is set.  A cond of rustc is any Boolean expression of cfgs.
Conds == {<<>>} \cup (Cfgs \X BOOLEAN)
CondRufs == SUBSET [cond : Conds, feature : Rufs]

\* A dependency as a manifest or the index lists it.
Dependency == [name : Crates, lo : Versions, hi : Versions, dev : BOOLEAN]

\* The fields of a world:
\*   deps       the packages there are (its domain) and what each depends on
\*   root       the package `cargo rustc` compiles, members the workspace
\*   local      packages with no registry source
\*   rufs       the features each package's source declares
\*   cfgs       the cfgs Cargo and its build script set for each package
\*   features   those of them that Cargo sets, for its build script too
\*   build      the features its build script declares
\*   lib        the crate name each package's library is compiled under
\*   broken     packages the scanner cannot parse
\*   refused    packages whose library the audit's own rustc fails to compile
\*   noscript   packages whose build script it fails to compile, so that Cargo
\*              cannot run the script and goes no further with the package
\*   norun      packages whose build script compiles, and fails when Cargo runs it
\*   flaky      packages whose wrapper may fail now and then, before it has
\*              printed its report or after
\*   known      crates the ruf database has a row for
\*   unlisted   packages it has no row for, as they are newer than it or were
\*              never analysed
\*   rustc      the rustc minor version of the audited project
IsWorld(w) ==
    /\ DOMAIN w.deps \subseteq Packages
    /\ w.deps \in [DOMAIN w.deps -> Seq(Dependency)]
    /\ w.root \in w.members /\ w.members \subseteq w.local
    /\ w.local \subseteq DOMAIN w.deps
    /\ w.rufs \in [DOMAIN w.deps -> CondRufs]
    /\ w.cfgs \in [DOMAIN w.deps -> SUBSET Cfgs]
    /\ w.features \in [DOMAIN w.deps -> SUBSET Cfgs]
    /\ \A p \in DOMAIN w.deps : w.features[p] \subseteq w.cfgs[p]
    /\ w.build \in [DOMAIN w.deps -> SUBSET Rufs]
    /\ w.lib \in [Crates -> CrateNames]
    /\ {w.broken, w.refused, w.flaky, w.unlisted} \subseteq SUBSET DOMAIN w.deps
    /\ {w.noscript, w.norun} \subseteq SUBSET {p \in DOMAIN w.deps : w.build[p] # {}}
    /\ w.known \subseteq Crates
    /\ w.rustc \in Nat

ReqMatches(dep, ver) == dep.lo <= ver /\ ver <= dep.hi

\* Dev-dependencies are resolved for workspace members only, and are not
\* compiled by `cargo rustc`.
DependsOn(w, p, q, withDev) ==
    \E i \in DOMAIN w.deps[p] :
        LET dep == w.deps[p][i] IN
        /\ dep.name = q[1] /\ ReqMatches(dep, q[2])
        /\ dep.dev => withDev /\ p \in w.members

\* L \X L, as a set that TLC enumerates once and not at every use of its pairs.
Pairs(L) == {<<p, q>> : p \in L, q \in L}

LockEdges(w, L) == {e \in Pairs(L) : DependsOn(w, e[1], e[2], TRUE)}
BuildEdges(w, L) == {e \in Pairs(L) : DependsOn(w, e[1], e[2], FALSE)}

\* The nodes of N in every set that contains S and is closed under the edges.
Reachable(N, edges, S) ==
    {n \in N : \A T \in SUBSET N :
        (S \subseteq T /\ \A e \in edges : e[1] \in T => e[2] \in T) => n \in T}

\* The lock files of a world: one package per crate and major, every
\* dependency satisfied, nothing that no locked package depends on.
Locks(w) ==
    {L \in SUBSET DOMAIN w.deps :
        /\ w.members \subseteq L
        /\ \A p, q \in L :
              p[1] = q[1] /\ Major(p[2]) = Major(q[2]) => p = q
        /\ \A p \in L : \A i \in DOMAIN w.deps[p] :
              (w.deps[p][i].dev => p \in w.members)
                => \E q \in L : /\ q[1] = w.deps[p][i].name
                                /\ ReqMatches(w.deps[p][i], q[2])
        /\ \A q \in L \ w.members : \E p \in L : DependsOn(w, p, q, TRUE)}

\* `cargo update <p> --precise <ver>`: the resolutions that replace p by that
\* version where every package kept from L keeps the dependencies L gave it,
\* p apart (Cargo locks them to the versions they had).  Which versions Cargo
\* gives to packages it must add is left open.  When there is none the command
\* fails.
Replaces(w, L, M, p, ver) ==
    /\ <<p[1], ver>> \in M /\ p \notin M
    /\ \A kept \in L \cap M, gone \in L \ M : DependsOn(w, kept, gone, TRUE) => gone = p

CargoUpdate(w, L, p, ver) == {M \in Locks(w) : Replaces(w, L, M, p, ver)}

\* `cargo generate-lockfile -Z minimal-versions`: the resolutions in which no
\* package can be replaced by an older version of it.
MinimalLocks(w) ==
    LET locks == Locks(w) IN
    {L \in locks : ~ \E M \in locks : \E p \in L, q \in M :
        p[1] = q[1] /\ q[2] < p[2] /\ Replaces(w, L, M, p, q[2])}

\* The packages `cargo rustc` compiles with lock file L, and those one of them
\* is compiled from.
Compiled(w, L) == Reachable(L, BuildEdges(w, L), {w.root})
Needs(w, L, p) == Reachable(L, BuildEdges(w, L), {p})

CondHolds(cond, cfgs) == cond = <<>> \/ (cond[1] \in cfgs) = cond[2]

\* The features a package really uses as it is compiled.
DeclaredRufs(w, p) ==
    {r.feature : r \in {r \in w.rufs[p] : CondHolds(r.cond, w.cfgs[p])}}

UsedBy(w, p) == DeclaredRufs(w, p) \cup w.build[p]

\* A rustc has every ruf that the packages compiled with a lock file use.
LockUsable(w, L, ver) == \A p \in Compiled(w, L) : RufsUsable(UsedBy(w, p), ver)
-----------------------------------------------------------------------------
\* Conditions on a world some properties need; the README says where the code
\* relies on each of them.
RefusedAlike(w) ==
    \A p \in DOMAIN w.deps \ w.refused : RufsUsable(DeclaredRufs(w, p), w.rustc)
NeverFresh(w) ==
    \A p \in DOMAIN w.deps : \A ver \in RustcVersions :
        /\ RufsUsable(w.build[p], ver)
        /\ p \notin w.refused => RufsUsable(DeclaredRufs(w, p), ver)
NamedAlike(w) ==
    \A p \in DOMAIN w.deps : w.lib[p[1]] = p[1] /\ RufsUsable(w.build[p], w.rustc)
RootOnTop(w) == \A p \in DOMAIN w.deps : ~ DependsOn(w, p, w.root, TRUE)
CfgsByCrate(w) ==
    \A p, q \in DOMAIN w.deps : p[1] = q[1] => w.cfgs[p] = w.cfgs[q]
RequiredOnce(w) ==
    \A p \in DOMAIN w.deps : \A i, j \in DOMAIN w.deps[p] :
        w.deps[p][i].name = w.deps[p][j].name => i = j

OneMajor(w) ==
    \A p \in DOMAIN w.deps : \A i \in DOMAIN w.deps[p] :
        Major(w.deps[p][i].lo) = Major(w.deps[p][i].hi)

\* Which crates packages of a crate depend on, and those it leads to in one or
\* more steps.
CrateEdges(w) ==
    {e \in Crates \X Crates : \E p, q \in DOMAIN w.deps :
        p[1] = e[1] /\ q[1] = e[2] /\ DependsOn(w, p, q, TRUE)}
CratesBelow(w, crate) ==
    Reachable(Crates, CrateEdges(w), {e[2] : e \in {e \in CrateEdges(w) : e[1] = crate}})
CratesAcyclic(w) ==
    \A S \in SUBSET Crates : S # {} => \E c \in S : \A d \in S : <<d, c>> \notin CrateEdges(w)

\* The same of a lock file: no two packages of a crate, nothing in it that is
\* locked and not compiled.
OnePerCrate(L) == \A p, q \in L : p[1] = q[1] => p = q
AllCompiled(w, L) == L \subseteq Compiled(w, L)

\* What the audit reports can be trusted in these worlds.
Trusted(w) ==
    /\ w.rustc \in RustcVersions
    /\ RefusedAlike(w) /\ NeverFresh(w) /\ NamedAlike(w) /\ RootOnTop(w)
=============================================================================
