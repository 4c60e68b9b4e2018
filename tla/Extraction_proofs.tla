-------------------------- MODULE Extraction_proofs --------------------------
(***************************************************************************)
(* Lemmas on the operators of RufLifetime, Registry and Extraction: what an *)
(* extraction tells of a lock file, whatever it does not tell.  The         *)
(* theorems on RufAudit, AuditRuns and AuditTest rest on them.              *)
(***************************************************************************)
EXTENDS Extraction, TLAPS

-----------------------------------------------------------------------------
\* The table and its two queries.

\* rufs_usable and usable_rustc_for_rufs, which fix_with_rustc and check_rufs
\* take their decisions by, agree on every rustc version the table covers.
THEOREM UsableAgree ==
    ASSUME NEW rufs, NEW ver \in RustcVersions
    PROVE  ver \in UsableRustcForRufs(rufs) <=> RufsUsable(rufs, ver)
  <1>1. ASSUME NEW ruf \in rufs
        PROVE  ver \in {v \in DOMAIN GetRufAllStatus(ruf) : IsUsable(GetRufAllStatus(ruf)[v])}
                  <=> IsUsable(GetRufStatus(ruf, ver))
    <2>1. CASE ruf \in KnownRufs
      BY <2>1 DEF GetRufAllStatus, GetRufStatus
    <2>2. CASE ruf \notin KnownRufs
      BY <2>2 DEF GetRufAllStatus, GetRufStatus, IsUsable
    <2> QED BY <2>1, <2>2
  <1> QED BY <1>1 DEF UsableRustcForRufs, RufsUsable

\* More rufs are usable with fewer rustc versions.
LEMMA UsableMonotone ==
    ASSUME NEW rufs, NEW more, rufs \subseteq more, NEW ver, RufsUsable(more, ver)
    PROVE  RufsUsable(rufs, ver)
  BY DEF RufsUsable
-----------------------------------------------------------------------------
\* Reachability and lock files.

\* What is reached along some edges is reached along more edges; every starting
\* point is reached; what is reached from a package reached is reached.
LEMMA ReachableMonotone ==
    ASSUME NEW N, NEW edges, NEW more, NEW S, edges \subseteq more
    PROVE  Reachable(N, edges, S) \subseteq Reachable(N, more, S)
  BY DEF Reachable

LEMMA ReachableStart ==
    ASSUME NEW N, NEW edges, NEW S
    PROVE  S \cap N \subseteq Reachable(N, edges, S)
  BY DEF Reachable

LEMMA ReachableOn ==
    ASSUME NEW N, NEW edges, NEW S, NEW p \in Reachable(N, edges, S)
    PROVE  Reachable(N, edges, {p}) \subseteq Reachable(N, edges, S)
  BY DEF Reachable

LEMMA PairsAre ==
    ASSUME NEW L
    PROVE  Pairs(L) = L \X L
  BY DEF Pairs

LEMMA LocksArePackages ==
    ASSUME NEW w, NEW L \in Locks(w)
    PROVE  L \subseteq DOMAIN w.deps
  BY DEF Locks

LEMMA CompiledIsLocked ==
    ASSUME NEW w, NEW L
    PROVE  Compiled(w, L) \subseteq L
  BY DEF Compiled, Reachable

\* A package needs itself, and what a compiled package needs is compiled.
LEMMA NeedsCompiled ==
    ASSUME NEW w, NEW L, NEW p \in Compiled(w, L)
    PROVE  p \in Needs(w, L, p) /\ Needs(w, L, p) \subseteq Compiled(w, L)
  BY ReachableStart, ReachableOn, CompiledIsLocked DEF Needs, Compiled
\* How an extraction ends, and where it may be stopped, case by case.
LEMMA ExtractionCases ==
    ASSUME NEW w, NEW L, NEW b, NEW e \in Extractions(w, L, b)
    PROVE  \/ e = [infos |-> {}, fresh |-> b, incomplete |-> TRUE]
           \/ \E failed \in Failures(w, L, b) : \E late \in LateFailures(w, L, failed) :
                 e = [infos |-> ScannerOutput(w, L, b, failed) \cup LateOutput(w, late),
                      fresh |-> Built(w, L, b, failed),
                      incomplete |-> Incomplete(w, L, failed)]
  <1>1. \/ e = [infos |-> {}, fresh |-> b, incomplete |-> TRUE]
        \/ \E failed \in Failures(w, L, b) : e \in Ends(w, L, b, failed)
    BY DEF Extractions
  <1> QED BY <1>1 DEF Ends

LEMMA StoppedIs ==
    ASSUME NEW w, NEW L, NEW b, NEW c
    PROVE  c \in Stopped(w, L, b) <=>
              /\ b \subseteq c /\ c \subseteq b \cup Built(w, L, b, Unscannable(w, L))
              /\ \A u \in c \ b : Inputs(w, L, u) \subseteq c
  <1> DEFINE more == Built(w, L, b, Unscannable(w, L)) \ b
             inputs == {<<u, Inputs(w, L, u)>> : u \in more}
             Whole(part) == \A i \in inputs : i[1] \in part => i[2] \subseteq b \cup part
  <1>1. Stopped(w, L, b) = {b \cup part : part \in {part \in SUBSET more : Whole(part)}}
    BY DEF Stopped
  <1>2. ASSUME NEW part \in SUBSET more
        PROVE  Whole(part) <=> \A u \in part : Inputs(w, L, u) \subseteq b \cup part
    <2>1. ASSUME Whole(part), NEW u \in part
          PROVE  Inputs(w, L, u) \subseteq b \cup part
      <3>1. <<u, Inputs(w, L, u)>> \in inputs
        OBVIOUS
      <3> QED BY <2>1, <3>1
    <2>2. ASSUME \A u \in part : Inputs(w, L, u) \subseteq b \cup part, NEW i \in inputs,
                 i[1] \in part
          PROVE  i[2] \subseteq b \cup part
      <3>1. i = <<i[1], Inputs(w, L, i[1])>>
        OBVIOUS
      <3> QED BY <2>2, <3>1
    <2> QED BY <2>1, <2>2
  <1>3. more \subseteq Built(w, L, b, Unscannable(w, L)) /\ more \cap b = {}
        /\ \A u \in Built(w, L, b, Unscannable(w, L)) : u \in b \/ u \in more
    OBVIOUS
  <1> HIDE DEF more, Whole
  <1>4. ASSUME c \in Stopped(w, L, b)
        PROVE  /\ b \subseteq c /\ c \subseteq b \cup Built(w, L, b, Unscannable(w, L))
               /\ \A u \in c \ b : Inputs(w, L, u) \subseteq c
    <2>1. PICK part \in SUBSET more : Whole(part) /\ c = b \cup part
      BY <1>1, <1>4
    <2> QED BY <1>2, <1>3, <2>1
  <1>5. ASSUME b \subseteq c, c \subseteq b \cup Built(w, L, b, Unscannable(w, L)),
               \A u \in c \ b : Inputs(w, L, u) \subseteq c
        PROVE  c \in Stopped(w, L, b)
    <2>1. c \ b \in SUBSET more /\ c = b \cup (c \ b)
      BY <1>3, <1>5
    <2>2. Whole(c \ b)
      BY <1>2, <1>5, <2>1
    <2> QED BY <1>1, <2>1, <2>2
  <1> QED BY <1>4, <1>5
-----------------------------------------------------------------------------
\* Types.

LEMMA UsedByType ==
    ASSUME NEW w, IsWorld(w), NEW p \in DOMAIN w.deps
    PROVE  /\ DeclaredRufs(w, p) \subseteq Rufs
           /\ w.build[p] \subseteq Rufs
           /\ w.lib[p[1]] \in CrateNames
           /\ w.cfgs[p] \subseteq Cfgs /\ w.features[p] \subseteq Cfgs
  <1>1. w.rufs[p] \subseteq [cond : Conds, feature : Rufs]
    BY DEF IsWorld, CondRufs
  <1>2. p[1] \in Crates
    BY DEF IsWorld, Packages
  <1> QED BY <1>1, <1>2 DEF IsWorld, DeclaredRufs

\* Each CheckInfo is that of a library compiled or of a build script.
Authentic(w, L, infos) ==
    \A info \in infos : \E p \in Compiled(w, L) :
        info = CheckInfo(w, p) \/ info = BuildCheckInfo(w, p)

LEMMA FailuresAreUnits ==
    ASSUME NEW w, NEW L, NEW b, NEW failed \in Failures(w, L, b)
    PROVE  /\ Unscannable(w, L) \subseteq failed
           /\ \A u \in failed : u[1] \in Compiled(w, L)
  BY DEF Failures, Unscannable, Units, LibUnit, BuildUnit

LEMMA ExtractionAuthentic ==
    ASSUME NEW w, NEW L, NEW b, NEW e \in Extractions(w, L, b)
    PROVE  Authentic(w, L, e.infos)
  <1>1. CASE e.infos = {}
    BY <1>1 DEF Authentic
  <1>2. ASSUME NEW failed \in Failures(w, L, b), NEW late \in LateFailures(w, L, failed),
               e.infos = ScannerOutput(w, L, b, failed) \cup LateOutput(w, late)
        PROVE  Authentic(w, L, e.infos)
    <2>1. Authentic(w, L, ScannerOutput(w, L, b, failed))
      BY DEF Authentic, ScannerOutput, Scanned, ScannedBuilds, Reached
    <2>2. \A u \in late : u[1] \in Compiled(w, L)
      BY FailuresAreUnits DEF LateFailures
    <2>3. Authentic(w, L, LateOutput(w, late))
      BY <2>2 DEF Authentic, LateOutput
    <2> QED BY <1>2, <2>1, <2>3 DEF Authentic
  <1> QED BY <1>1, <1>2, ExtractionCases

\* What the scanner prints, and what extract makes of it, is well typed.
LEMMA AuthenticType ==
    ASSUME NEW w, IsWorld(w), NEW L, L \subseteq DOMAIN w.deps,
           NEW infos, Authentic(w, L, infos)
    PROVE  infos \subseteq CheckInfos
  <1>1. ASSUME NEW p \in Compiled(w, L)
        PROVE  CheckInfo(w, p) \in CheckInfos /\ BuildCheckInfo(w, p) \in CheckInfos
    <2>1. p \in DOMAIN w.deps
      BY CompiledIsLocked
    <2> QED BY <2>1, UsedByType, ExtractionAssumption
            DEF CheckInfo, BuildCheckInfo, CheckInfos
  <1> QED BY <1>1 DEF Authentic

LEMMA BuiltType ==
    ASSUME NEW w, NEW L, L \subseteq Packages, NEW failed,
           NEW b, b \subseteq Packages \X SUBSET Packages
    PROVE  Built(w, L, b, failed) \subseteq Packages \X SUBSET Packages
  <1>1. ASSUME NEW p \in Scanned(w, L, b, failed)
        PROVE  LibUnit(w, L, p) \in Packages \X SUBSET Packages
    <2>1. p \in Packages
      BY CompiledIsLocked DEF Scanned, Reached
    <2>2. Needs(w, L, p) \in SUBSET Packages
      BY DEF Needs, Reachable
    <2> HIDE DEF Packages
    <2> QED BY <2>1, <2>2 DEF LibUnit
  <1>2. ASSUME NEW p \in ScannedBuilds(w, L, b, failed)
        PROVE  BuildUnit(p) \in Packages \X SUBSET Packages
    BY CompiledIsLocked DEF ScannedBuilds, BuildUnit
  <1> QED BY <1>1, <1>2 DEF Built

LEMMA ExtractionType ==
    ASSUME NEW w, IsWorld(w), NEW L, L \subseteq DOMAIN w.deps,
           NEW b, b \subseteq Packages \X SUBSET Packages,
           NEW e \in Extractions(w, L, b)
    PROVE  /\ e.infos \subseteq CheckInfos
           /\ e.fresh \subseteq Packages \X SUBSET Packages
           /\ e.incomplete \in BOOLEAN
  <1>1. L \subseteq Packages
    BY DEF IsWorld
  <1>2. CASE e = [infos |-> {}, fresh |-> b, incomplete |-> TRUE]
    BY <1>2
  <1>3. ASSUME NEW failed, NEW infos,
               e = [infos |-> infos,
                    fresh |-> Built(w, L, b, failed),
                    incomplete |-> Incomplete(w, L, failed)]
        PROVE  /\ e.fresh \subseteq Packages \X SUBSET Packages
               /\ e.incomplete \in BOOLEAN
    <2>1. Incomplete(w, L, failed) \in BOOLEAN
      BY DEF Incomplete
    <2> QED BY <1>1, <1>3, <2>1, BuiltType
  <1>4. e.infos \subseteq CheckInfos
    BY ExtractionAuthentic, AuthenticType
  <1> QED BY <1>2, <1>3, <1>4, ExtractionCases

LEMMA StoppedType ==
    ASSUME NEW w, NEW L, L \subseteq Packages,
           NEW b, b \subseteq Packages \X SUBSET Packages, NEW B \in Stopped(w, L, b)
    PROVE  B \subseteq Packages \X SUBSET Packages
  BY BuiltType, StoppedIs

LEMMA ExtractType ==
    ASSUME NEW infos, infos \subseteq CheckInfos
    PROVE  /\ DOMAIN Extract(infos) = Reported(infos)
           /\ Reported(infos) \subseteq CrateNames
           /\ Extract(infos) \in [Reported(infos) -> SUBSET Rufs]
  <1>1. Reported(infos) \subseteq CrateNames
    BY DEF Reported, CheckInfos
  <1>2. ASSUME NEW name \in Reported(infos)
        PROVE  UNION {info.used_rufs : info \in {i \in infos : i.crate_name = name}}
                  \in SUBSET Rufs
    BY DEF CheckInfos
  <1> QED BY <1>1, <1>2 DEF Extract

LEMMA UpdateBuildCfgsType ==
    ASSUME NEW infos, infos \subseteq CheckInfos,
           NEW D, D \subseteq CrateNames, NEW cfgs \in [D -> SUBSET Cfgs]
    PROVE  /\ DOMAIN UpdateBuildCfgs(cfgs, infos) \subseteq CrateNames
           /\ UpdateBuildCfgs(cfgs, infos)
                \in [DOMAIN UpdateBuildCfgs(cfgs, infos) -> SUBSET Cfgs]
  <1>1. Reported(infos) \subseteq CrateNames
    BY DEF Reported, CheckInfos
  <1>2. ASSUME NEW name \in Reported(infos)
        PROVE  UNION {info.cfg : info \in {i \in infos : i.crate_name = name}}
                  \in SUBSET Cfgs
    BY DEF CheckInfos
  <1> QED BY <1>1, <1>2 DEF UpdateBuildCfgs
-----------------------------------------------------------------------------
\* What an extraction tells: nothing that is not used by a package compiled
\* with the lock file, and when it is complete, everything of the packages
\* rustc refuses (they are never fresh).

Truthful(w, L, rufs) ==
    \A name \in DOMAIN rufs : \A ruf \in rufs[name] : \E p \in Compiled(w, L) :
        \/ w.lib[p[1]] = name /\ ruf \in DeclaredRufs(w, p)
        \/ name = BuildScript /\ ruf \in w.build[p]

Full(w, L, rufs) ==
    \A p \in Compiled(w, L) \cap w.refused :
        w.lib[p[1]] \in DOMAIN rufs /\ DeclaredRufs(w, p) \subseteq rufs[w.lib[p[1]]]

RefusedNotBuilt(w, b) == \A unit \in b : unit[2] = {} \/ unit[1] \notin w.refused

LEMMA ExtractTruthful ==
    ASSUME NEW w, NEW L, NEW infos, Authentic(w, L, infos)
    PROVE  Truthful(w, L, Extract(infos))
  <1> SUFFICES ASSUME NEW name \in Reported(infos), NEW ruf \in Extract(infos)[name]
               PROVE  \E p \in Compiled(w, L) :
                         \/ w.lib[p[1]] = name /\ ruf \in DeclaredRufs(w, p)
                         \/ name = BuildScript /\ ruf \in w.build[p]
    BY DEF Truthful, Extract
  <1>1. PICK info \in infos : info.crate_name = name /\ ruf \in info.used_rufs
    BY DEF Extract
  <1>2. PICK p \in Compiled(w, L) : info = CheckInfo(w, p) \/ info = BuildCheckInfo(w, p)
    BY DEF Authentic
  <1> QED BY <1>1, <1>2 DEF CheckInfo, BuildCheckInfo

\* A complete extraction runs the wrapper for each library that is not fresh.
LEMMA CompleteScans ==
    ASSUME NEW w, NEW L, NEW b, NEW failed, ~ Incomplete(w, L, failed),
           NEW p \in Compiled(w, L), LibUnit(w, L, p) \notin b
    PROVE  p \in Scanned(w, L, b, failed)
  <1>1. failed = {} /\ Compiled(w, L) \cap (w.noscript \cup w.norun) = {}
    BY DEF Incomplete
  <1>2. p \in Reached(w, L, failed)
    BY <1>1, NeedsCompiled DEF Reached
  <1> QED BY <1>1, <1>2 DEF Scanned

LEMMA ExtractionFull ==
    ASSUME NEW w, NEW L, NEW b, RefusedNotBuilt(w, b),
           NEW e \in Extractions(w, L, b), ~ e.incomplete
    PROVE  Full(w, L, Extract(e.infos))
  <1> DEFINE infos == e.infos
  <1>1. PICK failed : /\ ScannerOutput(w, L, b, failed) \subseteq infos
                      /\ ~ Incomplete(w, L, failed)
    BY ExtractionCases
  <1> SUFFICES ASSUME NEW p \in Compiled(w, L) \cap w.refused
               PROVE  /\ w.lib[p[1]] \in Reported(infos)
                      /\ DeclaredRufs(w, p) \subseteq Extract(infos)[w.lib[p[1]]]
    BY DEF Full, Extract
  <1>2. LibUnit(w, L, p) \notin b
    BY NeedsCompiled DEF RefusedNotBuilt, LibUnit
  <1>3. CheckInfo(w, p) \in infos
    BY <1>1, <1>2, CompleteScans DEF ScannerOutput
  <1> HIDE DEF infos
  <1>4. ASSUME NEW info \in infos
        PROVE  /\ info.crate_name \in Reported(infos)
               /\ info.used_rufs \subseteq Extract(infos)[info.crate_name]
    BY DEF Reported, Extract
  <1> QED BY <1>3, <1>4 DEF CheckInfo

LEMMA BuiltNotRefused ==
    ASSUME NEW w, NEW L, NEW b, RefusedNotBuilt(w, b), NEW failed
    PROVE  RefusedNotBuilt(w, Built(w, L, b, failed))
  <1>1. ASSUME NEW p \in Scanned(w, L, b, failed), Needs(w, L, p) \cap w.refused = {}
        PROVE  LibUnit(w, L, p)[1] \notin w.refused
    BY <1>1, NeedsCompiled DEF LibUnit, Scanned, Reached
  <1> QED BY <1>1 DEF Built, RefusedNotBuilt, BuildUnit

\* However an extraction ends, and wherever it is stopped, no unit is fresh
\* that rustc refuses.
LEMMA FreshNotRefused ==
    ASSUME NEW w, NEW L, NEW b, RefusedNotBuilt(w, b)
    PROVE  /\ \A e \in Extractions(w, L, b) : RefusedNotBuilt(w, e.fresh)
           /\ \A B \in Stopped(w, L, b) : RefusedNotBuilt(w, B)
  <1>1. \A failed : RefusedNotBuilt(w, Built(w, L, b, failed))
    BY BuiltNotRefused
  <1>2. ASSUME NEW B \in Stopped(w, L, b)
        PROVE  RefusedNotBuilt(w, B)
    <2>1. B \subseteq b \cup Built(w, L, b, Unscannable(w, L))
      BY StoppedIs
    <2> QED BY <1>1, <2>1 DEF RefusedNotBuilt
  <1> QED BY <1>1, <1>2, ExtractionCases
-----------------------------------------------------------------------------
\* What a package is compiled from is the same in every lock file that has it
\* and all it needs.
LEMMA NeedsWithin ==
    ASSUME NEW w, NEW L, NEW p \in L, NEW q \in Needs(w, L, p)
    PROVE  /\ LibUnit(w, Needs(w, L, p), q) = LibUnit(w, L, q)
           /\ q \in L /\ Needs(w, L, q) \subseteq Needs(w, L, p)
  <1> DEFINE N == Needs(w, L, p)
  <1>1. Needs(w, L, q) \subseteq N /\ N \subseteq L
    <2>1. Needs(w, L, q) \subseteq N
      BY ReachableOn DEF Needs
    <2>2. N \subseteq L
      BY DEF Needs, Reachable
    <2> QED BY <2>1, <2>2
  <1>2. ASSUME NEW e \in BuildEdges(w, L), e[1] \in N
        PROVE  e[2] \in N
    BY <1>2, PairsAre DEF Needs, Reachable, BuildEdges
  <1>3. ASSUME NEW x \in Needs(w, L, q)
        PROVE  x \in Needs(w, N, q)
    <2> SUFFICES ASSUME NEW T \in SUBSET N, q \in T,
                        \A e \in BuildEdges(w, N) : e[1] \in T => e[2] \in T
                 PROVE  x \in T
      BY <1>1 DEF Needs, Reachable
    <2>1. ASSUME NEW e \in BuildEdges(w, L), e[1] \in T
          PROVE  e[2] \in T
      BY <1>2, <2>1, PairsAre DEF BuildEdges
    <2>2. T \in SUBSET L
      BY <1>1
    <2> HIDE DEF N
    <2> QED BY <2>1, <2>2 DEF Needs, Reachable
  <1>4. ASSUME NEW x \in Needs(w, N, q)
        PROVE  x \in Needs(w, L, q)
    <2> SUFFICES ASSUME NEW T \in SUBSET L, q \in T,
                        \A e \in BuildEdges(w, L) : e[1] \in T => e[2] \in T
                 PROVE  x \in T
      BY <1>1, <1>4 DEF Needs, Reachable
    <2>1. ASSUME NEW e \in BuildEdges(w, N), e[1] \in T
          PROVE  e[2] \in T \cap N
      <3>1. e[1] \in N /\ e[2] \in N /\ e \in BuildEdges(w, L)
        BY <1>1, PairsAre DEF BuildEdges
      <3> QED BY <2>1, <3>1
    <2>2. q \in T \cap N /\ T \cap N \in SUBSET N
      OBVIOUS
    <2> HIDE DEF N
    <2> QED BY <1>4, <2>1, <2>2 DEF Needs, Reachable
  <1> QED BY <1>1, <1>3, <1>4 DEF LibUnit

-----------------------------------------------------------------------------
\* A sound target/ stays sound.

\* An extraction that is stopped on its way leaves a sound target/ sound.
LEMMA StoppedSound ==
    ASSUME NEW w, NEW L, NEW b, TargetSound(w, b), NEW c \in Stopped(w, L, b)
    PROVE  TargetSound(w, c)
  <1> DEFINE failed == Unscannable(w, L)
  <1>1. /\ b \subseteq c /\ c \subseteq Built(w, L, b, failed)
        /\ \A u \in c \ b : Inputs(w, L, u) \subseteq c
    BY StoppedIs DEF Built
  <1>2. ASSUME NEW u \in c \ b
        PROVE  \/ u[2] = {} /\ u[1] \notin w.noscript
               \/ \E p \in Scanned(w, L, b, failed) :
                     Needs(w, L, p) \cap w.refused = {} /\ u = LibUnit(w, L, p)
    BY <1>1 DEF Built, BuildUnit
  <1>3. ASSUME NEW u \in c \ b, NEW p \in Scanned(w, L, b, failed),
               Needs(w, L, p) \cap w.refused = {}, u = LibUnit(w, L, p)
        PROVE  /\ \A q \in u[2] : /\ LibUnit(w, u[2], q) \in c
                                  /\ w.build[q] # {} => BuildUnit(q) \in c
               /\ u[1] \in u[2]
               /\ u[1] \notin w.broken \cup w.refused \cup w.noscript \cup w.norun
    <2>1. p \in Compiled(w, L) /\ p \in L /\ p \in Needs(w, L, p)
      BY CompiledIsLocked, NeedsCompiled DEF Scanned, Reached
    <2>2. u[1] = p /\ u[2] = Needs(w, L, p)
      BY <1>3 DEF LibUnit
    <2>3. ASSUME NEW q \in u[2]
          PROVE  LibUnit(w, u[2], q) \in c
      <3>1. LibUnit(w, u[2], q) = LibUnit(w, L, q)
        BY <2>1, <2>2, NeedsWithin
      <3> QED BY <1>1, <1>3, <2>2, <3>1 DEF Inputs
    <2>4. \A q \in u[2] : w.build[q] # {} => BuildUnit(q) \in c
      BY <1>1 DEF Inputs
    <2>5. p \notin w.broken
      BY <2>1 DEF Scanned, Unscannable
    <2>6. p \notin w.noscript \cup w.norun
      BY <2>1 DEF Scanned, Reached
    <2> QED BY <1>3, <2>1, <2>2, <2>3, <2>4, <2>5, <2>6
  <1>4. ASSUME NEW u \in b
        PROVE  /\ \A q \in u[2] : LibUnit(w, u[2], q) \in c
               /\ u[2] = {} => u[1] \notin w.noscript
               /\ u[2] # {} =>
                    /\ u[1] \in u[2]
                    /\ u[1] \notin w.broken \cup w.refused \cup w.noscript \cup w.norun
                    /\ \A q \in u[2] : w.build[q] # {} => BuildUnit(q) \in c
    BY <1>1 DEF TargetSound
  <1>5. ASSUME NEW u \in c
        PROVE  /\ \A q \in u[2] : LibUnit(w, u[2], q) \in c
               /\ u[2] = {} => u[1] \notin w.noscript
               /\ u[2] # {} =>
                    /\ u[1] \in u[2]
                    /\ u[1] \notin w.broken \cup w.refused \cup w.noscript \cup w.norun
                    /\ \A q \in u[2] : w.build[q] # {} => BuildUnit(q) \in c
    BY <1>2, <1>3, <1>4
  <1> QED BY <1>5 DEF TargetSound

\* Where an extraction ends, one with no other failures than those it must have
\* could be stopped.
LEMMA BuiltStops ==
    ASSUME NEW w, NEW L, NEW b, NEW failed, Unscannable(w, L) \subseteq failed
    PROVE  Built(w, L, b, failed) \in Stopped(w, L, b)
  <1> DEFINE c == Built(w, L, b, failed)
             part == c \ b
  <1>1. ASSUME NEW p \in Scanned(w, L, b, failed), Needs(w, L, p) \cap w.refused = {},
               NEW q \in Needs(w, L, p)
        PROVE  LibUnit(w, L, q) \in c /\ (w.build[q] # {} => BuildUnit(q) \in c)
    <2>1. p \in Compiled(w, L) /\ q \in Compiled(w, L)
      BY <1>1, NeedsCompiled DEF Scanned, Reached
    <2>2. Needs(w, L, q) \subseteq Needs(w, L, p)
      BY <1>1, ReachableOn DEF Needs
    <2>3. \A r \in Needs(w, L, p) :
              r \notin w.noscript \cup w.norun /\ \A v \in failed : v[1] # r
      BY DEF Scanned, Reached
    <2>4. q \in Reached(w, L, failed)
      BY <2>1, <2>2, <2>3 DEF Reached
    <2>5. LibUnit(w, L, q) \notin failed /\ BuildUnit(q) \notin failed
      BY <1>1, <2>3 DEF LibUnit, BuildUnit
    <2>6. LibUnit(w, L, q) \in c
      BY <1>1, <2>2, <2>4, <2>5 DEF Built, Scanned
    <2>7. w.build[q] # {} => BuildUnit(q) \in c
      BY <1>1, <2>1, <2>3, <2>5 DEF Built, ScannedBuilds
    <2> QED BY <2>6, <2>7
  <1>2. ASSUME NEW u \in part
        PROVE  Inputs(w, L, u) \subseteq c
    <2>1. CASE u[2] = {}
      BY <2>1 DEF Inputs
    <2>2. ASSUME NEW p \in Scanned(w, L, b, failed), Needs(w, L, p) \cap w.refused = {},
                 u = LibUnit(w, L, p)
          PROVE  Inputs(w, L, u) \subseteq c
      <3> HIDE DEF c
      <3> QED BY <1>1, <2>2 DEF Inputs, LibUnit
    <2> QED BY <2>1, <2>2 DEF Built, BuildUnit
  <1>3. b \subseteq c
    BY DEF Built
  <1>4. c \subseteq b \cup Built(w, L, b, Unscannable(w, L))
    <2>1. Scanned(w, L, b, failed) \subseteq Scanned(w, L, b, Unscannable(w, L))
      BY DEF Scanned, Reached
    <2>2. ScannedBuilds(w, L, b, failed) \subseteq ScannedBuilds(w, L, b, Unscannable(w, L))
      BY DEF ScannedBuilds
    <2> QED BY <2>1, <2>2 DEF Built
  <1>5. \A u \in c \ b : Inputs(w, L, u) \subseteq c
    BY <1>2
  <1> HIDE DEF c
  <1>6. c \in Stopped(w, L, b)
    BY <1>3, <1>4, <1>5, StoppedIs
  <1> QED BY <1>6 DEF c

LEMMA ExtractionSound ==
    ASSUME NEW w, NEW L, NEW b, TargetSound(w, b), NEW e \in Extractions(w, L, b)
    PROVE  TargetSound(w, e.fresh)
  <1>1. ASSUME NEW failed \in Failures(w, L, b)
        PROVE  TargetSound(w, Built(w, L, b, failed))
    BY FailuresAreUnits, BuiltStops, StoppedSound
  <1> QED BY <1>1, ExtractionCases

\* target/ is sound at first, empty or left by an earlier extraction.
LEMMA FirstSound ==
    ASSUME NEW w, NEW L, NEW b \in {{}, Built(w, L, {}, Unscannable(w, L))}
    PROVE  TargetSound(w, b)
  <1>1. TargetSound(w, {})
    BY DEF TargetSound
  <1> QED BY <1>1, BuiltStops, StoppedSound
-----------------------------------------------------------------------------
\* What reports say of a lock file.

\* What suits the lock file suits truthful reports on it.
LEMMA UsableReports ==
    ASSUME NEW w, NEW L, NEW rufs, Truthful(w, L, rufs), NEW ver, LockUsable(w, L, ver)
    PROVE  \A name \in DOMAIN rufs : RufsUsable(rufs[name], ver)
  <1>1. ASSUME NEW name \in DOMAIN rufs, NEW ruf \in rufs[name]
        PROVE  \E p \in Compiled(w, L) : ruf \in UsedBy(w, p)
    BY DEF Truthful, UsedBy
  <1>2. ASSUME NEW p \in Compiled(w, L)
        PROVE  RufsUsable(UsedBy(w, p), ver)
    BY DEF LockUsable
  <1> QED BY <1>1, <1>2 DEF RufsUsable

\* What suits full reports suits the lock file, if all that need not be
\* reported suits it.
LEMMA UsableIfReported ==
    ASSUME NEW w, NEW L, L \subseteq DOMAIN w.deps, NEW rufs, Full(w, L, rufs), NEW ver,
           \A name \in DOMAIN rufs : RufsUsable(rufs[name], ver),
           \A p \in DOMAIN w.deps : RufsUsable(w.build[p], ver),
           \A p \in DOMAIN w.deps \ w.refused : RufsUsable(DeclaredRufs(w, p), ver)
    PROVE  LockUsable(w, L, ver)
  <1>1. ASSUME NEW p \in Compiled(w, L)
        PROVE  RufsUsable(UsedBy(w, p), ver)
    <2>1. p \in DOMAIN w.deps
      BY CompiledIsLocked
    <2>2. RufsUsable(DeclaredRufs(w, p), ver)
      BY <2>1, UsableMonotone DEF Full
    <2> QED BY <2>1, <2>2 DEF RufsUsable, UsedBy
  <1> QED BY <1>1 DEF LockUsable

\* An unusable ruf in the lock file is held against its package's name.
LEMMA UnusableIsFlagged ==
    ASSUME NEW w, RefusedAlike(w), NamedAlike(w), NEW L, L \subseteq DOMAIN w.deps,
           NEW rufs, Full(w, L, rufs),
           NEW p \in Compiled(w, L), ~ RufsUsable(UsedBy(w, p), w.rustc)
    PROVE  p[1] \in DOMAIN rufs /\ ~ RufsUsable(rufs[p[1]], w.rustc)
  <1>1. p \in DOMAIN w.deps
    BY CompiledIsLocked
  <1>2. w.lib[p[1]] = p[1] /\ ~ RufsUsable(DeclaredRufs(w, p), w.rustc)
    BY <1>1 DEF NamedAlike, UsedBy, RufsUsable
  <1>3. p[1] \in DOMAIN rufs /\ DeclaredRufs(w, p) \subseteq rufs[p[1]]
    BY <1>1, <1>2 DEF Full, RefusedAlike
  <1> QED BY <1>2, <1>3, UsableMonotone

\* A ruf held against a name is used by the package of that name.
LEMMA FlaggedIsUnusable ==
    ASSUME NEW w, NamedAlike(w), NEW L, L \subseteq DOMAIN w.deps, OnePerCrate(L),
           NEW rufs, Truthful(w, L, rufs),
           NEW p \in L, p[1] \in DOMAIN rufs, ~ RufsUsable(rufs[p[1]], w.rustc)
    PROVE  ~ RufsUsable(DeclaredRufs(w, p), w.rustc)
  <1>1. PICK ruf \in rufs[p[1]] : ~ RufsUsable({ruf}, w.rustc)
    BY DEF RufsUsable
  <1>2. PICK q \in Compiled(w, L) :
            \/ w.lib[q[1]] = p[1] /\ ruf \in DeclaredRufs(w, q)
            \/ p[1] = BuildScript /\ ruf \in w.build[q]
    BY DEF Truthful
  <1>3. q \in L /\ q \in DOMAIN w.deps
    BY CompiledIsLocked
  <1>4. ruf \notin w.build[q] /\ w.lib[q[1]] = q[1]
    BY <1>1, <1>3 DEF NamedAlike, RufsUsable
  <1>5. q = p
    BY <1>2, <1>3, <1>4 DEF OnePerCrate
  <1> QED BY <1>1, <1>2, <1>4, <1>5 DEF RufsUsable
=============================================================================
