-------------------------- MODULE AuditTest_proofs --------------------------
(***************************************************************************)
(* Theorems of AuditTest: what `--test` answers and `--extract` lists is    *)
(* true, for every registry, lifetime table and lock file.                  *)
(***************************************************************************)
EXTENDS AuditTest, Extraction_proofs, SequenceTheorems

-----------------------------------------------------------------------------
\* Type correctness.

LEMMA ExtractAtType ==
    ASSUME TypeOK, NEW here, NEW failed \in {0, 1},
           NEW there \in {"list", "test1", "test3"}, ExtractAt(here, there, failed)
    PROVE  TypeOK'
  <1>1. IsWorld(world) /\ lock \subseteq DOMAIN world.deps
    BY WorldsAssumption, LocksArePackages DEF TypeOK
  <1>2. ASSUME NEW e \in Extractions(world, lock, built),
               used_rufs' = Extract(e.infos), incomplete' = e.incomplete,
               built' = e.fresh, Goto(there)
        PROVE  TypeOK'
    <2>1. /\ e.infos \subseteq CheckInfos
          /\ e.fresh \subseteq Packages \X SUBSET Packages
          /\ e.incomplete \in BOOLEAN
      BY <1>1, ExtractionType DEF TypeOK
    <2>2. /\ DOMAIN used_rufs' \subseteq CrateNames
          /\ used_rufs' \in [DOMAIN used_rufs' -> SUBSET Rufs]
      BY <1>2, <2>1, ExtractType
    <2> QED BY <1>2, <2>1, <2>2 DEF ExtractAt, TypeOK, Goto, setting
  <1>3. CASE Finish(failed) /\ UNCHANGED <<used_rufs, incomplete, built>>
    BY <1>3 DEF ExtractAt, TypeOK, Finish, setting
  <1>4. CASE /\ Finish(101) /\ built' \in Stopped(world, lock, built)
             /\ UNCHANGED <<used_rufs, incomplete>>
    <2>1. lock \subseteq Packages
      BY <1>1 DEF IsWorld
    <2>2. built' \subseteq Packages \X SUBSET Packages
      BY <1>4, <2>1, StoppedType DEF TypeOK
    <2> QED BY <1>4, <2>2 DEF ExtractAt, TypeOK, Finish, setting
  <1> QED BY <1>2, <1>3, <1>4 DEF ExtractAt

LEMMA TypeStep == TypeOK /\ [Next]_vars => TypeOK'
  <1> SUFFICES ASSUME TypeOK, [Next]_vars
               PROVE  TypeOK'
    OBVIOUS
  <1>1. \A i \in 1 .. 4 : [result EXCEPT ![i] = FALSE] \in [1 .. 4 -> BOOLEAN]
    BY DEF TypeOK
  <1>2. CASE Main
    BY <1>2 DEF Main, TypeOK, Goto, Finish
  <1>3. CASE ListExtract \/ TestExtract \/ TestMinExtract
    BY <1>3, ExtractAtType DEF ListExtract, TestExtract, TestMinExtract
  <1>4. CASE List
    <2>1. {<<name, RufsUsable(used_rufs[name], world.rustc)>> : name \in DOMAIN used_rufs}
             \subseteq CrateNames \X BOOLEAN
      <3>1. \A rufs, ver : RufsUsable(rufs, ver) \in BOOLEAN
        BY DEF RufsUsable
      <3> QED BY <3>1 DEF TypeOK
    <2> QED BY <1>4, <2>1 DEF List, TypeOK, Finish, setting
  <1>5. ASSUME NEW here, NEW i \in 1 .. 4, NEW there \in {"test2", "test4"},
               AskUsable(here, i, there)
        PROVE  TypeOK'
    <2>1. UNCHANGED <<setting, lock, built, used_rufs, incomplete, listing>>
      BY <1>5 DEF AskUsable
    <2>2. result' \in {result, [result EXCEPT ![i] = FALSE]}
      BY <1>5 DEF AskUsable, No
    <2>3. result' \in [1 .. 4 -> BOOLEAN]
      <3>1. result \in [1 .. 4 -> BOOLEAN]
        BY DEF TypeOK
      <3>2. [result EXCEPT ![i] = FALSE] \in [1 .. 4 -> BOOLEAN]
        BY <1>1
      <3>3. CASE result' = result
        BY <3>1, <3>3
      <3>4. CASE result' = [result EXCEPT ![i] = FALSE]
        BY <3>2, <3>4
      <3> QED BY <2>2, <3>3, <3>4
    <2>4. pc' \in {"test2", "test4", "done"} /\ exit' \in {exit, 0, 101}
      BY <1>5 DEF AskUsable, Finish, Goto
    <2>5. UNCHANGED <<world, mode, first, lock, built, used_rufs, incomplete, listing>>
      BY <2>1 DEF setting
    <2>6. used_rufs' \in [DOMAIN used_rufs' -> SUBSET Rufs] /\ DOMAIN used_rufs' \subseteq CrateNames
      BY <2>5 DEF TypeOK
    <2>7. pc' \in {"start", "list_extract", "list", "extract", "test1", "test2", "minimal",
                   "reextract", "test3", "test4", "done"} /\ exit' \in {0, 1, 2, -1, 101}
      BY <2>4 DEF TypeOK
    <2> QED BY <2>3, <2>5, <2>6, <2>7 DEF TypeOK
  <1>6. CASE TestUsable \/ TestMinUsable
    BY <1>5, <1>6 DEF TestUsable, TestMinUsable
  <1>7. CASE TestRustc \/ TestMinRustc
    <2>1. CASE TestRustc
      <3>1. CASE Finish(0) /\ UNCHANGED result
        BY <2>1, <3>1 DEF TestRustc, TypeOK, Finish, setting
      <3>2. CASE No(2) /\ Goto("minimal")
        <4>1. result' \in [1 .. 4 -> BOOLEAN]
          BY <1>1, <3>2 DEF No
        <4> QED BY <2>1, <3>2, <4>1 DEF TestRustc, TypeOK, Goto, setting
      <3> QED BY <2>1, <3>1, <3>2 DEF TestRustc
    <2>2. CASE TestMinRustc
      <3>1. CASE Finish(0) /\ UNCHANGED result
        BY <2>2, <3>1 DEF TestMinRustc, TypeOK, Finish, setting
      <3>2. CASE No(4) /\ Finish(2)
        <4>1. result' \in [1 .. 4 -> BOOLEAN]
          BY <1>1, <3>2 DEF No
        <4> QED BY <2>2, <3>2, <4>1 DEF TestMinRustc, TypeOK, Finish, setting
      <3> QED BY <2>2, <3>1, <3>2 DEF TestMinRustc
    <2> QED BY <1>7, <2>1, <2>2
  <1>8. CASE TestMinimal
    <2>1. MinimalLocks(world) \subseteq Locks(world)
      BY DEF MinimalLocks
    <2> QED BY <1>8, <2>1 DEF TestMinimal, TypeOK, Finish, Goto, setting
  <1>9. CASE UNCHANGED vars
    BY <1>9 DEF TypeOK, vars, setting
  <1> QED BY <1>2, <1>3, <1>4, <1>6, <1>7, <1>8, <1>9 DEF Next, Exited

LEMMA TypeInit == Init => TypeOK
  <1> SUFFICES ASSUME Init
               PROVE  TypeOK
    OBVIOUS
  <1>1. lock \subseteq Packages
    BY WorldsAssumption, LocksArePackages DEF Init, IsWorld
  <1>2. built \subseteq Packages \X SUBSET Packages
    BY <1>1, BuiltType DEF Init
  <1>3. <<>> \in [{} -> SUBSET Rufs] /\ DOMAIN <<>> = {}
    OBVIOUS
  <1>4. <<TRUE, TRUE, TRUE, TRUE>> \in [1 .. 4 -> BOOLEAN]
    <2> DEFINE yes == <<TRUE, TRUE, TRUE, TRUE>>
    <2>1. yes \in Seq(BOOLEAN) /\ Len(yes) = 4
      OBVIOUS
    <2> HIDE DEF yes
    <2>2. yes \in [1 .. Len(yes) -> BOOLEAN]
      BY <2>1, LenProperties
    <2> QED BY <2>1, <2>2 DEF yes
  <1> QED BY <1>2, <1>3, <1>4 DEF Init, TypeOK

\* The type invariant of the modes that fix nothing.
THEOREM TestTypeCorrect == Spec => []TypeOK
  BY TypeInit, TypeStep, PTL DEF Spec
-----------------------------------------------------------------------------
\* A sound target/.

LEMMA SoundInit == Init => FreshIsSound
  BY FirstSound DEF Init, FreshIsSound

LEMMA SoundStep == FreshIsSound /\ [Next]_vars => FreshIsSound'
  <1> SUFFICES ASSUME FreshIsSound, [Next]_vars
               PROVE  FreshIsSound'
    OBVIOUS
  <1>1. ASSUME NEW here, NEW there, NEW failed, ExtractAt(here, there, failed)
        PROVE  FreshIsSound'
    <2>1. world' = world
      BY <1>1 DEF ExtractAt, setting
    <2>2. \/ built' = built \/ built' \in Stopped(world, lock, built)
          \/ \E e \in Extractions(world, lock, built) : built' = e.fresh
      BY <1>1 DEF ExtractAt
    <2>3. TargetSound(world, built')
      BY <2>2, ExtractionSound, StoppedSound DEF FreshIsSound
    <2> QED BY <2>1, <2>3 DEF FreshIsSound
  <1>2. CASE ListExtract \/ TestExtract \/ TestMinExtract
    BY <1>1, <1>2 DEF ListExtract, TestExtract, TestMinExtract
  <1>3. CASE UNCHANGED <<world, built>>
    BY <1>3 DEF FreshIsSound
  <1> QED BY <1>2, <1>3 DEF Next, Main, List, TestUsable, TestRustc, TestMinimal, TestMinUsable,
                            TestMinRustc, AskUsable, Exited, vars, setting

\* What --test and --extract leave in target/ is sound, whatever lock files they
\* extract from, whatever an extraction misses and wherever it panics.
THEOREM TestLeavesSound == Spec => []FreshIsSound
  BY SoundInit, SoundStep, PTL DEF Spec
-----------------------------------------------------------------------------
\* The inductive invariant: what has been extracted is about the present lock
\* file, which is the first one until no rustc can use that; and the answers so
\* far are those of the questions already asked.

Told ==
    pc \in {"list", "test1", "test2", "test3", "test4"} =>
        /\ Truthful(world, lock, used_rufs)
        /\ ~ incomplete => Full(world, lock, used_rufs)

Modes ==
    /\ pc \in {"list_extract", "list"} => mode = "extract"
    /\ pc \in {"extract", "test1", "test2", "minimal", "reextract", "test3", "test4"}
          => mode = "test"
    /\ pc # "done" => listing = {} /\ exit = 0

Before == {"start", "list_extract", "list", "extract", "test1", "test2", "minimal"}

Answers ==
    /\ pc \in Before => lock = first
    /\ pc \in Before \ {"test2", "minimal"} => result[1]
    /\ pc \in Before \ {"minimal"} => result[2]
    /\ pc \in Before \cup {"reextract", "test3"} => result[3]
    /\ pc # "done" => result[4]
    /\ pc \notin Before \ {"test2", "minimal"} /\ pc # "done" => ~ result[1]
    /\ pc \in {"minimal", "reextract", "test3", "test4"} => ~ result[2]
    /\ pc = "test4" => ~ result[3]

TestInv ==
    /\ TypeOK /\ RefusedNotBuilt(world, built) /\ Told /\ Modes /\ Answers
    /\ NoIsRight /\ YesIsRight /\ ListRight

\* The steps that end a run without an answer.
LEMMA ExtractAtKeeps ==
    ASSUME TestInv, NEW here, NEW there, NEW failed, ExtractAt(here, there, failed),
           \/ here = "list_extract" /\ there = "list" /\ failed = 0
           \/ here = "extract" /\ there = "test1" /\ failed = 1
           \/ here = "reextract" /\ there = "test3" /\ failed = 1
    PROVE  TestInv'
  <1>1. TypeOK'
    BY ExtractAtType DEF TestInv
  <1>2. UNCHANGED <<world, mode, first, lock, result, listing>> /\ pc = here
    BY DEF ExtractAt, setting
  <1>3. NoIsRight' /\ ListRight'
    BY <1>2 DEF TestInv, NoIsRight, Helps, ListRight, Modes
  <1>4. CASE Finish(failed) /\ UNCHANGED <<used_rufs, incomplete, built>>
    BY <1>1, <1>2, <1>3, <1>4
    DEF TestInv, Finish, Told, Modes, Answers, Before, YesIsRight, RefusedNotBuilt
  <1>6. CASE /\ Finish(101) /\ built' \in Stopped(world, lock, built)
             /\ UNCHANGED <<used_rufs, incomplete>>
    <2>1. RefusedNotBuilt(world, built')
      BY <1>6, FreshNotRefused DEF TestInv
    <2> QED BY <1>1, <1>2, <1>3, <1>6, <2>1
            DEF TestInv, Finish, Told, Modes, Answers, Before, YesIsRight, RefusedNotBuilt
  <1>5. ASSUME NEW e \in Extractions(world, lock, built),
               used_rufs' = Extract(e.infos), incomplete' = e.incomplete,
               built' = e.fresh, Goto(there)
        PROVE  TestInv'
    <2>1. RefusedNotBuilt(world, built')
      BY <1>5, FreshNotRefused DEF TestInv
    <2>2. /\ Truthful(world, lock, used_rufs')
          /\ ~ incomplete' => Full(world, lock, used_rufs')
      BY <1>5, ExtractionAuthentic, ExtractTruthful, ExtractionFull DEF TestInv
    <2>3. pc' = there /\ exit' = exit
      BY <1>5 DEF Goto
    <2>4. Modes' /\ Answers'
      BY <1>2, <2>3 DEF TestInv, Modes, Answers, Before
    <2> QED BY <1>1, <1>2, <1>3, <2>1, <2>2, <2>3, <2>4
            DEF TestInv, Told, YesIsRight, RefusedNotBuilt
  <1> QED BY <1>4, <1>5, <1>6 DEF ExtractAt

\* What the reports say of the lock file they are about.
LEMMA UnusableTold ==
    ASSUME TestInv, pc \in {"list", "test1", "test2", "test3", "test4"},
           NEW ver, NEW name \in DOMAIN used_rufs, ~ RufsUsable(used_rufs[name], ver)
    PROVE  ~ LockUsable(world, lock, ver)
  BY UsableReports DEF TestInv, Told

LEMMA UsableTold ==
    ASSUME TestInv, pc \in {"list", "test1", "test2", "test3", "test4"},
           ~ incomplete, Trusted(world), NEW ver \in RustcVersions,
           \A name \in DOMAIN used_rufs : RufsUsable(used_rufs[name], ver)
    PROVE  LockUsable(world, lock, ver)
  <1>1. Full(world, lock, used_rufs) /\ lock \subseteq DOMAIN world.deps
    BY LocksArePackages DEF TestInv, TypeOK, Told
  <1> QED BY <1>1, UsableIfReported DEF Trusted, NeverFresh

LEMMA RustcTold ==
    ASSUME TestInv, pc \in {"test2", "test4"}
    PROVE  /\ UsableRustc = {} => ~ Helps(lock)
           /\ UsableRustc # {} /\ ~ incomplete /\ Trusted(world) => Helps(lock)
  <1>1. ASSUME NEW ver \in RustcVersions, LockUsable(world, lock, ver)
        PROVE  ver \in UsableRustc
    BY <1>1, UsableTold, UsableAgree, UsableReports DEF TestInv, Told, UsableRustc
  <1>2. ASSUME NEW ver \in UsableRustc, ~ incomplete, Trusted(world)
        PROVE  ver \in RustcVersions /\ LockUsable(world, lock, ver)
    <2>1. ver \in RustcVersions
      BY DEF UsableRustc
    <2>2. \A name \in DOMAIN used_rufs : RufsUsable(used_rufs[name], ver)
      BY <2>1, UsableAgree DEF UsableRustc
    <2> QED BY <1>2, <2>1, <2>2, UsableTold
  <1> QED BY <1>1, <1>2 DEF Helps

LEMMA AskUsableKeeps ==
    ASSUME TestInv, TypeOK', NEW here, NEW i, NEW there, AskUsable(here, i, there),
           \/ here = "test1" /\ i = 1 /\ there = "test2"
           \/ here = "test3" /\ i = 3 /\ there = "test4"
    PROVE  TestInv'
  <1>1. /\ UNCHANGED <<world, mode, first, lock, built, used_rufs, incomplete, listing>>
        /\ pc = here /\ mode = "test" /\ listing = {}
    BY DEF AskUsable, setting, TestInv, Modes
  <1>2. RefusedNotBuilt(world, built') /\ ListRight'
    BY <1>1 DEF TestInv, ListRight
  <1>3. CASE Finish(101) /\ UNCHANGED result
    BY <1>1, <1>2, <1>3
    DEF TestInv, Finish, Told, Modes, Answers, Before, YesIsRight, NoIsRight, Helps, RefusedNotBuilt
  <1>4. CASE /\ \A name \in DOMAIN used_rufs : RufsUsable(used_rufs[name], world.rustc)
             /\ Finish(0) /\ UNCHANGED result
    <2>1. ~ incomplete /\ Trusted(world) => LockUsable(world, lock, world.rustc)
      BY <1>1, <1>4, UsableTold DEF Trusted
    <2>2. YesIsRight'
      BY <1>1, <1>4, <2>1 DEF YesIsRight, TestInv, Answers, Before
    <2> QED BY <1>1, <1>2, <1>4, <2>2
            DEF TestInv, Finish, Told, Modes, Answers, Before, NoIsRight, Helps, RefusedNotBuilt
  <1>5. CASE /\ \E name \in DOMAIN used_rufs : ~ RufsUsable(used_rufs[name], world.rustc)
             /\ No(i) /\ Goto(there)
    <2>1. ~ LockUsable(world, lock, world.rustc)
      BY <1>1, <1>5, UnusableTold
    <2>2. /\ ~ result'[i] /\ \A j \in 1 .. 4 : j # i => result'[j] = result[j]
          /\ pc' = there /\ exit' = exit
      <3>1. i \in 1 .. 4 /\ result \in [1 .. 4 -> BOOLEAN]
        BY DEF TestInv, TypeOK
      <3> QED BY <1>5, <3>1 DEF No, Goto
    <2>3. NoIsRight'
      BY <1>1, <2>1, <2>2 DEF NoIsRight, Helps, TestInv, Answers, Before
    <2>4. Told' /\ Modes' /\ Answers' /\ YesIsRight'
      BY <1>1, <2>2 DEF TestInv, Told, Modes, Answers, Before, YesIsRight
    <2> QED BY <1>1, <1>2, <2>3, <2>4 DEF TestInv, RefusedNotBuilt
  <1> QED BY <1>3, <1>4, <1>5 DEF AskUsable

LEMMA ListKeeps ==
    ASSUME TestInv, TypeOK', List
    PROVE  TestInv'
  <1>1. /\ UNCHANGED <<world, mode, first, lock, built, used_rufs, incomplete, result>>
        /\ pc = "list" /\ pc' = "done" /\ mode = "extract"
    BY DEF List, Finish, setting, TestInv, Modes
  <1>2. ListRight'
    <2>1. CASE UNCHANGED listing
      BY <1>1, <2>1 DEF TestInv, Modes, ListRight
    <2>2. CASE listing' = {<<name, RufsUsable(used_rufs[name], world.rustc)>> :
                              name \in DOMAIN used_rufs}
      <3>1. ASSUME NEW name, <<name, FALSE>> \in listing'
            PROVE  name \in DOMAIN used_rufs /\ ~ RufsUsable(used_rufs[name], world.rustc)
        BY <2>2, <3>1
      <3>2. ASSUME NEW name \in DOMAIN used_rufs, ~ RufsUsable(used_rufs[name], world.rustc)
            PROVE  <<name, FALSE>> \in listing'
        <4>1. RufsUsable(used_rufs[name], world.rustc) = FALSE
          BY <3>2 DEF RufsUsable
        <4> QED BY <2>2, <4>1
      <3>3. ASSUME NEW name, <<name, FALSE>> \in listing'
            PROVE  \E p \in Compiled(world, lock) :
                      /\ name \in {world.lib[p[1]], BuildScript}
                      /\ ~ RufsUsable(UsedBy(world, p), world.rustc)
        <4>1. PICK ruf \in used_rufs[name] : ~ RufsUsable({ruf}, world.rustc)
          BY <3>1, <3>3 DEF RufsUsable
        <4>2. PICK p \in Compiled(world, lock) :
                 \/ world.lib[p[1]] = name /\ ruf \in DeclaredRufs(world, p)
                 \/ name = BuildScript /\ ruf \in world.build[p]
          BY <1>1, <3>1, <3>3, <4>1 DEF TestInv, Told, Truthful
        <4> QED BY <4>1, <4>2 DEF UsedBy, RufsUsable
      <3>4. ASSUME ~ incomplete, Trusted(world), NEW p \in Compiled(world, lock),
                   ~ RufsUsable(UsedBy(world, p), world.rustc)
            PROVE  <<world.lib[p[1]], FALSE>> \in listing'
        <4>1. Full(world, lock, used_rufs) /\ lock \subseteq DOMAIN world.deps
          BY <1>1, <3>4, LocksArePackages DEF TestInv, TypeOK, Told
        <4>2. p[1] \in DOMAIN used_rufs /\ ~ RufsUsable(used_rufs[p[1]], world.rustc)
          BY <3>4, <4>1, UnusableIsFlagged DEF Trusted
        <4>3. world.lib[p[1]] = p[1]
          BY <3>4, <4>1, CompiledIsLocked DEF Trusted, NamedAlike
        <4> QED BY <3>2, <4>2, <4>3
      <3> QED BY <1>1, <3>3, <3>4 DEF ListRight
    <2> QED BY <2>1, <2>2 DEF List
  <1>3. NoIsRight'
    BY <1>1 DEF TestInv, NoIsRight, Helps
  <1> QED BY <1>1, <1>2, <1>3
          DEF TestInv, Told, Modes, Answers, Before, YesIsRight, RefusedNotBuilt

LEMMA RustcKeeps ==
    ASSUME TestInv, TypeOK', TestRustc \/ TestMinRustc
    PROVE  TestInv'
  <1>1. /\ UNCHANGED <<world, mode, first, lock, built, used_rufs, incomplete, listing>>
        /\ pc \in {"test2", "test4"} /\ mode = "test" /\ listing = {}
    BY DEF TestRustc, TestMinRustc, setting, TestInv, Modes
  <1>2. RefusedNotBuilt(world, built') /\ ListRight'
    BY <1>1 DEF TestInv, ListRight
  <1>3. /\ UsableRustc = {} => ~ Helps(lock)
        /\ UsableRustc # {} /\ ~ incomplete /\ Trusted(world) => Helps(lock)
    BY <1>1, RustcTold
  <1>4. \A L : Helps(L)' <=> Helps(L)
    BY <1>1 DEF Helps
  <1>5. result \in [1 .. 4 -> BOOLEAN]
    BY DEF TestInv, TypeOK
  <1>6. CASE UsableRustc # {} /\ Finish(0) /\ UNCHANGED result
    <2>1. NoIsRight'
      BY <1>1, <1>6 DEF NoIsRight, Helps, TestInv
    <2>2. YesIsRight'
      BY <1>1, <1>3, <1>6 DEF YesIsRight, Helps, TestInv, Answers, Before
    <2> QED BY <1>1, <1>2, <1>6, <2>1, <2>2
            DEF TestInv, Finish, Told, Modes, Answers, Before, RefusedNotBuilt
  <1>7. CASE pc = "test2" /\ UsableRustc = {} /\ No(2) /\ Goto("minimal")
    <2>1. /\ ~ result'[2] /\ \A j \in 1 .. 4 : j # 2 => result'[j] = result[j]
          /\ pc' = "minimal" /\ exit' = exit
      BY <1>5, <1>7 DEF No, Goto
    <2>2. NoIsRight'
      BY <1>1, <1>3, <1>7, <2>1 DEF NoIsRight, Helps, TestInv, Answers, Before
    <2>3. Told' /\ Modes' /\ Answers' /\ YesIsRight'
      BY <1>1, <1>7, <2>1 DEF TestInv, Told, Modes, Answers, Before, YesIsRight
    <2> QED BY <1>1, <1>2, <2>2, <2>3 DEF TestInv, RefusedNotBuilt
  <1>8. CASE pc = "test4" /\ UsableRustc = {} /\ No(4) /\ Finish(2)
    <2>1. /\ ~ result'[4] /\ \A j \in 1 .. 4 : j # 4 => result'[j] = result[j]
          /\ pc' = "done" /\ exit' = 2
      BY <1>5, <1>8 DEF No, Finish
    <2>2. NoIsRight'
      BY <1>1, <1>3, <1>8, <2>1 DEF NoIsRight, Helps, TestInv, Answers, Before
    <2>3. Told' /\ Modes' /\ Answers' /\ YesIsRight'
      BY <1>1, <1>8, <2>1 DEF TestInv, Told, Modes, Answers, Before, YesIsRight
    <2> QED BY <1>1, <1>2, <2>2, <2>3 DEF TestInv, RefusedNotBuilt
  <1> QED BY <1>6, <1>7, <1>8 DEF TestRustc, TestMinRustc

LEMMA MinimalKeeps ==
    ASSUME TestInv, TypeOK', TestMinimal
    PROVE  TestInv'
  <1>1. /\ UNCHANGED <<world, mode, first, built, used_rufs, incomplete, result, listing>>
        /\ pc = "minimal" /\ mode = "test" /\ listing = {} /\ result[3] /\ result[4]
        /\ ~ result[1] /\ ~ result[2] /\ lock = first
        /\ \/ pc' = "reextract" /\ exit' = exit
           \/ pc' = "done" /\ exit' = 1
    BY DEF TestMinimal, setting, TestInv, Modes, Answers, Before, Goto, Finish
  <1>2. NoIsRight' /\ ListRight' /\ YesIsRight'
    BY <1>1 DEF TestInv, Modes, NoIsRight, Helps, ListRight, YesIsRight
  <1> QED BY <1>1, <1>2 DEF TestInv, Told, Modes, Answers, Before, RefusedNotBuilt

LEMMA TestStep == TestInv /\ [Next]_vars => TestInv'
  <1> SUFFICES ASSUME TestInv, [Next]_vars
               PROVE  TestInv'
    OBVIOUS
  <1>1. TypeOK'
    BY TypeStep DEF TestInv
  <1>2. CASE Main
    <2>1. /\ UNCHANGED <<world, first, lock, built, used_rufs, incomplete, result, listing>>
          /\ pc = "start"
      BY <1>2 DEF Main
    <2>2. NoIsRight' /\ ListRight'
      BY <2>1 DEF TestInv, Modes, NoIsRight, Helps, ListRight
    <2>3. Told' /\ Modes' /\ Answers' /\ YesIsRight'
      BY <1>2, <2>1 DEF Main, Goto, Finish, TestInv, Told, Modes, Answers, Before, YesIsRight
    <2> QED BY <1>1, <2>1, <2>2, <2>3 DEF TestInv, RefusedNotBuilt
  <1>3. CASE ListExtract \/ TestExtract \/ TestMinExtract
    BY <1>3, ExtractAtKeeps DEF ListExtract, TestExtract, TestMinExtract
  <1>4. CASE TestUsable \/ TestMinUsable
    BY <1>1, <1>4, AskUsableKeeps DEF TestUsable, TestMinUsable
  <1>5. CASE List \/ TestRustc \/ TestMinRustc \/ TestMinimal
    BY <1>1, <1>5, ListKeeps, RustcKeeps, MinimalKeeps
  <1>6. CASE UNCHANGED vars
    BY <1>1, <1>6 DEF TestInv, Told, Modes, Answers, NoIsRight, Helps, YesIsRight, ListRight,
                      RefusedNotBuilt, vars, setting
  <1> QED BY <1>2, <1>3, <1>4, <1>5, <1>6 DEF Next, Exited

LEMMA TestInit == Init => TestInv
  <1> SUFFICES ASSUME Init
               PROVE  TestInv
    OBVIOUS
  <1>1. RefusedNotBuilt(world, {})
    BY DEF RefusedNotBuilt
  <1>2. RefusedNotBuilt(world, built)
    BY <1>1, BuiltNotRefused DEF Init
  <1>3. result[1] /\ result[2] /\ result[3] /\ result[4]
    BY DEF Init
  <1> QED BY <1>2, <1>3, TypeInit
          DEF Init, TestInv, Told, Modes, Answers, Before, NoIsRight, YesIsRight, ListRight

LEMMA TestInvariant == Spec => []TestInv
  BY TestInit, TestStep, PTL DEF Spec

\* Each no of the test is right, whatever an extraction misses.
THEOREM NoAnswersAreRight == Spec => []NoIsRight
  <1>1. TestInv => NoIsRight
    BY DEF TestInv
  <1> QED BY TestInvariant, <1>1, PTL

\* The yes it ends with is right in a trusted world.
THEOREM YesAnswersAreRight == Spec => []YesIsRight
  <1>1. TestInv => YesIsRight
    BY DEF TestInv
  <1> QED BY TestInvariant, <1>1, PTL

\* What `--extract` lists as not ok is, and in a trusted world nothing else.
THEOREM ListingIsRight == Spec => []ListRight
  <1>1. TestInv => ListRight
    BY DEF TestInv
  <1> QED BY TestInvariant, <1>1, PTL

\* The project's lock file is replaced only when no rustc can use it.
THEOREM IsReplacedForCause == Spec => ReplacedForCause
  <1>1. TestInv /\ [Next]_vars => [lock' # lock => lock = first /\ ~ Helps(first)]_vars
    <2> SUFFICES ASSUME TestInv, [Next]_vars, lock' # lock
                 PROVE  lock = first /\ ~ Helps(first)
      OBVIOUS
    <2>1. TestMinimal
      BY DEF Next, Exited, Main, ListExtract, List, TestExtract, TestUsable, TestRustc,
             TestMinExtract, TestMinUsable, TestMinRustc, ExtractAt, AskUsable, vars, setting
    <2> QED BY <2>1 DEF TestMinimal, TestInv, Answers, Before, NoIsRight
  <1> QED BY TestInit, TestStep, <1>1, PTL DEF Spec, ReplacedForCause
=============================================================================
