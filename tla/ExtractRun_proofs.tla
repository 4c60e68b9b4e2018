-------------------------- MODULE ExtractRun_proofs --------------------------
(***************************************************************************)
(* Theorems of ExtractRun: however many units Cargo works on at a time,     *)
(* whatever order it starts them in and wherever a wrapper fails, extract   *)
(* reads what was printed, and one extraction is one step of RufAudit.      *)
(***************************************************************************)
EXTENDS ExtractRun, Extraction_proofs, FiniteSetTheorems

\* Facts on units.
LEMMA TwoKinds ==
    ASSUME NEW w, NEW L, NEW u \in Units(w, L)
    PROVE  \/ \E p \in Compiled(w, L) : u = LibUnit(w, L, p) /\ p \in u[2] /\ ~ IsBuild(u)
           \/ \E p \in Compiled(w, L) : u = BuildUnit(p) /\ w.build[p] # {} /\ IsBuild(u)
  BY NeedsCompiled DEF Units, LibUnit, BuildUnit, IsBuild

LEMMA UnitType ==
    ASSUME TypeOK, NEW u \in DOMAIN unit
    PROVE  /\ u \in Packages \X SUBSET Packages
           /\ Report(u) \in CheckInfos
  <1>1. IsWorld(world) /\ lock \subseteq DOMAIN world.deps
    BY WorldsAssumption, LocksArePackages DEF TypeOK
  <1>2. PICK p \in Compiled(world, lock) : u = LibUnit(world, lock, p) \/ u = BuildUnit(p)
    BY TwoKinds DEF TypeOK
  <1>3. p \in DOMAIN world.deps /\ p \in Packages /\ u[1] = p
    BY <1>1, <1>2, CompiledIsLocked DEF IsWorld, LibUnit, BuildUnit
  <1>4. u[2] \subseteq Packages /\ u = <<u[1], u[2]>>
    BY <1>1, <1>2 DEF LibUnit, BuildUnit, Needs, Reachable, IsWorld
  <1>5. CheckInfo(world, p) \in CheckInfos /\ BuildCheckInfo(world, p) \in CheckInfos
    BY <1>1, <1>3, UsedByType, ExtractionAssumption DEF CheckInfo, BuildCheckInfo, CheckInfos
  <1>6. u \in Packages \X SUBSET Packages
    <2> HIDE DEF Packages
    <2> QED BY <1>3, <1>4
  <1> QED BY <1>3, <1>5, <1>6 DEF Report
-----------------------------------------------------------------------------
\* The extractions of this module start from what one earlier extraction left;
\* what follows is as true of those that start from any sound target/.
Started ==
    /\ world \in Worlds /\ lock \in Locks(world) /\ verbose \in Verbosity
    /\ before \subseteq Packages \X SUBSET Packages /\ TargetSound(world, before)
    /\ built = before
    /\ unit = [u \in Units(world, lock) |-> IF u \in before THEN "ran" ELSE "waiting"]
    /\ messages = <<>> /\ cargo = "running" /\ out = <<>> /\ err = 0
    /\ reader = IF verbose THEN "stderr" ELSE "output"
    /\ infos = {}

LEMMA InitStarted == Init => Started
  <1> SUFFICES ASSUME Init
               PROVE  Started
    OBVIOUS
  <1>1. PICK L \in Locks(world) : before \in Stopped(world, L, {})
    BY DEF Init
  <1>2. L \subseteq Packages
    BY LocksArePackages, WorldsAssumption DEF Init, IsWorld
  <1>3. before \subseteq Packages \X SUBSET Packages
    BY <1>1, <1>2, StoppedType
  <1>4. TargetSound(world, {})
    BY DEF TargetSound
  <1>5. TargetSound(world, before)
    BY <1>1, <1>4, StoppedSound
  <1> QED BY <1>3, <1>5 DEF Init, Started
-----------------------------------------------------------------------------
\* Type correctness.

LEMMA TypeStep == TypeOK /\ [Next]_vars => TypeOK'
  <1> SUFFICES ASSUME TypeOK, [Next]_vars
               PROVE  TypeOK'
    OBVIOUS
  <1> USE SizesAssumption
  <1>1. ASSUME NEW u \in DOMAIN unit, StartUnit(u)
        PROVE  TypeOK'
    BY <1>1 DEF TypeOK, StartUnit, setting
  <1>2. ASSUME NEW u \in DOMAIN unit, WrapperFails(u)
        PROVE  TypeOK'
    BY <1>2 DEF TypeOK, WrapperFails, setting
  <1>10. ASSUME NEW u \in DOMAIN unit, RustcFails(u)
        PROVE  TypeOK'
    BY <1>10 DEF TypeOK, RustcFails, setting
  <1>3. ASSUME NEW u \in DOMAIN unit, ScanUnit(u)
        PROVE  TypeOK'
    <2>1. messages' \in Seq(CheckInfos)
      BY <1>3, UnitType DEF TypeOK, ScanUnit
    <2> QED BY <1>3, <2>1 DEF TypeOK, ScanUnit, setting
  <1>4. ASSUME NEW u \in DOMAIN unit, RustcUnit(u)
        PROVE  TypeOK'
    <2>1. built' \in SUBSET (Packages \X SUBSET Packages)
      BY <1>4, UnitType DEF TypeOK, RustcUnit
    <2> QED BY <1>4, <2>1 DEF TypeOK, RustcUnit, setting
  <1>5. CASE PassOn
    <2>1. out' \in Seq(CheckInfos) /\ messages' \in Seq(CheckInfos) /\ Len(out') <= PipeSize
      BY <1>5 DEF TypeOK, PassOn
    <2> QED BY <1>5, <2>1 DEF TypeOK, PassOn, setting
  <1>6. CASE CargoExit \/ CargoAborts
    BY <1>6 DEF TypeOK, CargoExit, CargoAborts, setting
  <1>7. CASE ReadStderr \/ StderrEnds \/ Parse
    BY <1>7 DEF TypeOK, ReadStderr, StderrEnds, Parse, setting
  <1>8. CASE ReadStdout
    <2>1. out' \in Seq(CheckInfos) /\ Len(out') <= PipeSize /\ infos' \subseteq CheckInfos
      BY <1>8 DEF TypeOK, ReadStdout
    <2> QED BY <1>8, <2>1 DEF TypeOK, ReadStdout, setting
  <1>9. CASE UNCHANGED vars
    BY <1>9 DEF TypeOK, vars, setting
  <1> QED BY <1>1, <1>2, <1>3, <1>4, <1>5, <1>6, <1>7, <1>8, <1>9, <1>10 DEF Next

LEMMA TypeInit == Started => TypeOK
  <1>1. /\ <<>> \in Seq(CheckInfos) /\ Len(<<>>) = 0
        /\ PipeSize \in Nat
    BY SizesAssumption
  <1> QED BY <1>1 DEF Started, TypeOK

\* Every variable has its type and no pipe overflows, whatever the world, the
\* number of jobs and the size of the pipes.
THEOREM RunTypeCorrect == Spec => []TypeOK
  BY InitStarted, TypeInit, TypeStep, PTL DEF Spec
-----------------------------------------------------------------------------
\* What is between the wrappers and extract.

Lines(s) == {s[i] : i \in DOMAIN s}

LEMMA LinesMove ==
    ASSUME NEW S, NEW s \in Seq(S), NEW e \in S
    PROVE  /\ Lines(Append(s, e)) = Lines(s) \cup {e}
           /\ s # <<>> => /\ Head(s) \in S /\ Tail(s) \in Seq(S)
                          /\ Lines(s) = Lines(Tail(s)) \cup {Head(s)}
  <1>1. Lines(Append(s, e)) = Lines(s) \cup {e}
    <2>1. /\ DOMAIN s = 1 .. Len(s) /\ Len(s) \in Nat
          /\ DOMAIN Append(s, e) = 1 .. Len(s) + 1
      OBVIOUS
    <2>2. \A i \in 1 .. Len(s) : Append(s, e)[i] = s[i]
      OBVIOUS
    <2>3. Append(s, e)[Len(s) + 1] = e
      OBVIOUS
    <2>4. \A i \in 1 .. Len(s) + 1 : i \in 1 .. Len(s) \/ i = Len(s) + 1
      BY <2>1
    <2>5. Len(s) + 1 \in 1 .. Len(s) + 1 /\ \A i \in 1 .. Len(s) : i \in 1 .. Len(s) + 1
      BY <2>1
    <2> QED BY <2>1, <2>2, <2>3, <2>4, <2>5 DEF Lines
  <1>2. ASSUME s # <<>>
        PROVE  Lines(s) = Lines(Tail(s)) \cup {Head(s)}
    <2>1. DOMAIN s = 1 .. Len(s) /\ DOMAIN Tail(s) = 1 .. Len(s) - 1 /\ Len(s) \in Nat \ {0}
      BY <1>2
    <2>2. \A i \in 1 .. Len(s) - 1 : Tail(s)[i] = s[i + 1]
      BY <1>2
    <2>3. Head(s) = s[1]
      BY <1>2
    <2>4. ASSUME NEW x \in Lines(Tail(s)) \cup {Head(s)}
          PROVE  x \in Lines(s)
      <3>1. 1 \in 1 .. Len(s) /\ \A i \in 1 .. Len(s) - 1 : i + 1 \in 1 .. Len(s)
        BY <2>1
      <3> QED BY <2>1, <2>2, <2>3, <3>1 DEF Lines
    <2>5. ASSUME NEW i \in 1 .. Len(s)
          PROVE  s[i] \in Lines(Tail(s)) \cup {Head(s)}
      <3>1. CASE i = 1
        BY <2>3, <3>1
      <3>2. CASE i # 1
        <4>1. i - 1 \in 1 .. Len(s) - 1 /\ (i - 1) + 1 = i
          BY <2>1, <3>2
        <4>2. s[i] = Tail(s)[i - 1]
          BY <2>2, <4>1
        <4> QED BY <2>1, <4>1, <4>2 DEF Lines
      <3> QED BY <3>1, <3>2
    <2> QED BY <2>1, <2>4, <2>5 DEF Lines
  <1> QED BY <1>1, <1>2

\* Exactly the units that the scanner is done with are reported.
Carried ==
    infos \cup Lines(out) \cup Lines(messages)
        = {Report(u) : u \in {u \in DOMAIN unit \ before :
                                unit[u] \in {"compiling", "ran", "aborted"}}}

\* Cargo waits for its wrappers and for what they print.
Quiet ==
    /\ cargo # "running" => messages = <<>> /\ Active = {}
    /\ reader = "parsed" => cargo # "running" /\ out = <<>>

FreshRan == \A u \in DOMAIN unit \cap before : unit[u] = "ran"

PipesInv == Carried /\ Quiet /\ FreshRan

LEMMA PipesStep == TypeOK /\ PipesInv /\ [Next]_vars => PipesInv'
  <1> SUFFICES ASSUME TypeOK, PipesInv, [Next]_vars
               PROVE  PipesInv'
    OBVIOUS
  <1>1. ASSUME NEW u \in DOMAIN unit, StartUnit(u)
        PROVE  PipesInv'
    BY <1>1 DEF PipesInv, Carried, Quiet, FreshRan, TypeOK, StartUnit, Ready, Report, setting
  <1>2. ASSUME NEW u \in DOMAIN unit, WrapperFails(u)
        PROVE  PipesInv'
    BY <1>2 DEF PipesInv, Carried, Quiet, FreshRan, Active, TypeOK, WrapperFails, Report, setting
  <1>11. ASSUME NEW u \in DOMAIN unit, RustcFails(u)
        PROVE  PipesInv'
    BY <1>11 DEF PipesInv, Carried, Quiet, FreshRan, Active, TypeOK, RustcFails, Report, setting
  <1>3. ASSUME NEW u \in DOMAIN unit, ScanUnit(u)
        PROVE  PipesInv'
    <2>1. Lines(messages') = Lines(messages) \cup {Report(u)}
      BY <1>3, UnitType, LinesMove DEF ScanUnit, TypeOK
    <2>2. u \notin before
      BY <1>3 DEF ScanUnit, PipesInv, FreshRan
    <2>3. Carried'
      BY <1>3, <2>1, <2>2 DEF PipesInv, Carried, TypeOK, ScanUnit, Report, setting
    <2>4. cargo = "running"
      BY <1>3 DEF ScanUnit, PipesInv, Quiet, Active
    <2> QED BY <1>3, <2>2, <2>3, <2>4 DEF PipesInv, Quiet, FreshRan, TypeOK, ScanUnit, setting
  <1>4. ASSUME NEW u \in DOMAIN unit, RustcUnit(u)
        PROVE  PipesInv'
    BY <1>4 DEF PipesInv, Carried, Quiet, FreshRan, Active, TypeOK, RustcUnit, Report, setting
  <1>5. CASE PassOn
    <2>1. /\ Lines(out') = Lines(out) \cup {Head(messages)}
          /\ Lines(messages) = Lines(messages') \cup {Head(messages)}
      BY <1>5, LinesMove DEF PassOn, TypeOK
    <2>2. Carried'
      BY <1>5, <2>1 DEF PipesInv, Carried, PassOn, Report, setting
    <2> QED BY <1>5, <2>2 DEF PipesInv, Quiet, FreshRan, Active, PassOn, setting
  <1>6. CASE CargoExit
    BY <1>6 DEF PipesInv, Carried, Quiet, FreshRan, Active, CargoExit, Report, setting
  <1>7. CASE CargoAborts
    <2>1. \A u \in DOMAIN unit : unit[u] \in {"waiting", "ran"}
      BY <1>7 DEF CargoAborts, PipesInv, FreshRan
    <2>2. Lines(messages) = {}
      BY <1>7 DEF CargoAborts, PipesInv, Carried
    <2>3. messages = <<>>
      <3>1. DOMAIN messages = 1 .. Len(messages) /\ Len(messages) \in Nat
        BY DEF TypeOK
      <3>2. 1 \notin 1 .. Len(messages)
        BY <2>2, <3>1 DEF Lines
      <3>3. Len(messages) = 0
        BY <3>1, <3>2
      <3> QED BY <3>3 DEF TypeOK
    <2> QED BY <1>7, <2>1, <2>3
            DEF PipesInv, Carried, Quiet, FreshRan, Active, CargoAborts, Report, setting
  <1>8. CASE ReadStderr \/ StderrEnds \/ Parse
    BY <1>8 DEF PipesInv, Carried, Quiet, FreshRan, Active, ReadStderr, StderrEnds, Parse,
                Report, setting
  <1>9. CASE ReadStdout
    <2>1. Lines(out) = Lines(out') \cup {Head(out)}
      BY <1>9, LinesMove DEF ReadStdout, TypeOK
    <2>2. Carried'
      BY <1>9, <2>1 DEF PipesInv, Carried, ReadStdout, Report, setting
    <2> QED BY <1>9, <2>2 DEF PipesInv, Quiet, FreshRan, Active, ReadStdout, setting
  <1>10. CASE UNCHANGED vars
    BY <1>10 DEF PipesInv, Carried, Quiet, FreshRan, Active, Report, vars, setting
  <1> QED BY <1>1, <1>2, <1>3, <1>4, <1>5, <1>6, <1>7, <1>8, <1>9, <1>10, <1>11 DEF Next

LEMMA PipesInit == Started => PipesInv
  BY DEF Started, PipesInv, Carried, Quiet, FreshRan, Lines

\* No CheckInfo is lost, whatever rustc does with the unit afterwards.
THEOREM NoReportIsLost == Spec => []NothingLost
  <1>1. PipesInv => NothingLost
    BY DEF PipesInv, Carried, NothingLost, Lines
  <1> QED BY InitStarted, TypeInit, TypeStep, PipesInit, PipesStep, <1>1, PTL DEF Spec
-----------------------------------------------------------------------------
\* Whatever the processes have done so far, one of them can go on, or extract
\* is done, or the audit and Cargo wait for each other over stdout: for any
\* number of jobs, any size of the pipes, and wherever wrappers failed.
THEOREM OnlyStdoutBlocks == Spec => []StuckOnStdout
  <1>1. TypeOK => StuckOnStdout
    <2> SUFFICES ASSUME TypeOK, reader # "parsed", ~ CanGoOn
                 PROVE  Stuck
      BY DEF StuckOnStdout
    <2> USE SizesAssumption
    <2>1. cargo = "running" /\ err = 0 /\ err < PipeSize
      BY DEF TypeOK, CanGoOn
    <2>2. Active = {}
      BY <2>1 DEF CanGoOn, Active
    <2>3. Cardinality(Active) < NumJobs
      BY <2>2, FS_EmptySet
    <2>4. ~ \E u \in DOMAIN unit : Ready(u)
      BY <2>1, <2>3 DEF CanGoOn
    <2>5. messages # <<>> /\ Len(out) = PipeSize
      BY <2>1, <2>2, <2>4 DEF CanGoOn, TypeOK
    <2>6. CASE reader = "stderr"
      BY <2>1, <2>2, <2>4, <2>5, <2>6 DEF Stuck
    <2>7. CASE reader = "output"
      <3>1. Len(out) = 0
        BY <2>7 DEF CanGoOn
      <3> QED BY <2>5, <3>1
    <2> QED BY <2>6, <2>7 DEF TypeOK
  <1> QED BY InitStarted, TypeInit, TypeStep, <1>1, PTL DEF Spec
-----------------------------------------------------------------------------
\* The units Cargo has worked on.

LEMMA LibInputsAre ==
    ASSUME TypeOK, NEW p \in Compiled(world, lock)
    PROVE  /\ LibUnit(world, lock, p) \in DOMAIN unit /\ ~ IsBuild(LibUnit(world, lock, p))
           /\ LibInputs(LibUnit(world, lock, p))
                = {LibUnit(world, lock, q) : q \in Needs(world, lock, p) \ {p}}
  <1> DEFINE u == LibUnit(world, lock, p)
  <1>1. DOMAIN unit = Units(world, lock)
    BY DEF TypeOK
  <1>2. \A q \in Compiled(world, lock) :
            LibUnit(world, lock, q) \in Units(world, lock) /\ ~ IsBuild(LibUnit(world, lock, q))
    BY NeedsCompiled DEF Units, LibUnit, IsBuild
  <1>3. ASSUME NEW q \in Needs(world, lock, p) \ {p}
        PROVE  LibUnit(world, lock, q) \in LibInputs(u)
    BY <1>1, <1>2, NeedsCompiled DEF LibInputs, LibUnit
  <1>4. ASSUME NEW v \in LibInputs(u)
        PROVE  \E q \in Needs(world, lock, p) \ {p} : v = LibUnit(world, lock, q)
    <2>1. PICK q \in Compiled(world, lock) : v = LibUnit(world, lock, q)
      BY <1>1, TwoKinds DEF LibInputs
    <2> QED BY <2>1 DEF LibInputs, LibUnit
  <1> QED BY <1>1, <1>2, <1>3, <1>4

\* The conditions of Ready, which still hold once the unit was started.
HasInputs(u) ==
    /\ \A v \in LibInputs(u) : unit[v] = "ran"
    /\ ~ IsBuild(u) /\ world.build[u[1]] # {} =>
         BuildUnit(u[1]) \in built /\ u[1] \notin world.norun

WorkedOn(u) ==
    /\ u \in built <=> unit[u] = "ran" /\ Compiles(u)
    /\ unit[u] = "failed" => u[1] \in world.flaky \/ u \in Unscannable(world, lock)
    /\ unit[u] = "aborted" => u[1] \in world.flaky
    /\ unit[u] \in {"compiling", "ran", "aborted"} => u \notin Unscannable(world, lock)
    /\ unit[u] # "waiting" => HasInputs(u)

WorkInv ==
    /\ TargetSound(world, before)
    /\ before \subseteq built /\ built \subseteq before \cup DOMAIN unit
    /\ \A u \in DOMAIN unit \ before : WorkedOn(u)

LEMMA WorkInit == Started => WorkInv
  <1> SUFFICES ASSUME Started
               PROVE  WorkInv
    OBVIOUS
  <1>1. \A u \in DOMAIN unit \ before : unit[u] = "waiting" /\ u \notin built
    BY DEF Started
  <1> QED BY <1>1 DEF Started, WorkInv, WorkedOn

\* A step that works on one unit, x, which was not done yet.
LEMMA WorkOnOne ==
    ASSUME TypeOK, FreshRan, WorkInv, NEW x \in DOMAIN unit,
           unit[x] \notin {"ran", "failed", "aborted"},
           NEW how \in {"scanning", "compiling", "ran", "failed", "aborted"},
           unit' = [unit EXCEPT ![x] = how], UNCHANGED setting,
           built' = IF how = "ran" /\ Compiles(x) THEN built \cup {x} ELSE built,
           how = "failed" => x[1] \in world.flaky \/ x \in Unscannable(world, lock),
           how = "aborted" => x[1] \in world.flaky,
           how \in {"compiling", "ran", "aborted"} => x \notin Unscannable(world, lock),
           HasInputs(x)
    PROVE  WorkInv'
  <1>1. x \notin before /\ x \notin built /\ DOMAIN unit' = DOMAIN unit
    BY DEF FreshRan, WorkInv, WorkedOn
  <1>2. \A u : LibInputs(u)' = LibInputs(u)
    BY <1>1 DEF LibInputs
  <1>3. ASSUME NEW u \in DOMAIN unit \ before, HasInputs(u)
        PROVE  x \notin LibInputs(u) /\ HasInputs(u)' /\ Compiles(u)' = Compiles(u)
    <2>1. x \notin LibInputs(u)
      BY <1>3 DEF HasInputs
    <2>2. \A v \in LibInputs(u) : unit'[v] = unit[v]
      BY <2>1 DEF LibInputs, TypeOK
    <2>3. HasInputs(u)'
      BY <1>2, <1>3, <2>2 DEF HasInputs, setting
    <2>4. Compiles(u)' = Compiles(u)
      BY <1>2, <2>1 DEF Compiles, setting
    <2> QED BY <2>1, <2>3, <2>4
  <1>4. WorkedOn(x)'
    BY <1>1, <1>3 DEF WorkedOn, TypeOK, setting
  <1>5. ASSUME NEW u \in DOMAIN unit \ before, u # x
        PROVE  WorkedOn(u)'
    BY <1>3, <1>5 DEF WorkInv, WorkedOn, TypeOK, setting
  <1>6. TargetSound(world, before)' /\ before' \subseteq built' /\ built' \subseteq before' \cup DOMAIN unit'
    BY <1>1 DEF WorkInv, setting
  <1> QED BY <1>1, <1>4, <1>5, <1>6 DEF WorkInv, setting

LEMMA WorkStep == TypeOK /\ PipesInv /\ WorkInv /\ [Next]_vars => WorkInv'
  <1> SUFFICES ASSUME TypeOK, FreshRan, WorkInv, [Next]_vars
               PROVE  WorkInv'
    BY DEF PipesInv
  <1>1. ASSUME NEW u \in DOMAIN unit, unit[u] = "scanning" \/ unit[u] = "compiling"
        PROVE  HasInputs(u)
    BY <1>1 DEF FreshRan, WorkInv, WorkedOn
  <1>2. ASSUME NEW u \in DOMAIN unit
        PROVE  u \in Unscannable(world, lock) <=> ~ IsBuild(u) /\ u[1] \in world.broken
    <2>1. CASE \E p \in Compiled(world, lock) : u = LibUnit(world, lock, p) /\ ~ IsBuild(u)
      BY <2>1 DEF Unscannable, LibUnit
    <2>2. CASE IsBuild(u)
      BY <2>2, NeedsCompiled DEF Unscannable, LibUnit, IsBuild
    <2> QED BY <2>1, <2>2, TwoKinds DEF TypeOK
  <1>3. ASSUME NEW u \in DOMAIN unit, StartUnit(u)
        PROVE  WorkInv'
    <2>1. HasInputs(u) /\ unit[u] = "waiting"
      BY <1>3 DEF StartUnit, Ready, HasInputs
    <2> QED BY <1>3, <2>1, WorkOnOne DEF StartUnit
  <1>4. ASSUME NEW u \in DOMAIN unit, WrapperFails(u)
        PROVE  WorkInv'
    BY <1>1, <1>2, <1>4, WorkOnOne DEF WrapperFails
  <1>5. ASSUME NEW u \in DOMAIN unit, ScanUnit(u)
        PROVE  WorkInv'
    BY <1>1, <1>2, <1>5, WorkOnOne DEF ScanUnit
  <1>6. ASSUME NEW u \in DOMAIN unit, RustcUnit(u)
        PROVE  WorkInv'
    <2>1. u \notin Unscannable(world, lock)
      BY <1>6 DEF RustcUnit, FreshRan, WorkInv, WorkedOn
    <2> QED BY <1>1, <1>6, <2>1, WorkOnOne DEF RustcUnit
  <1>9. ASSUME NEW u \in DOMAIN unit, RustcFails(u)
        PROVE  WorkInv'
    <2>1. u \notin Unscannable(world, lock)
      BY <1>9 DEF RustcFails, FreshRan, WorkInv, WorkedOn
    <2> QED BY <1>1, <1>9, <2>1, WorkOnOne DEF RustcFails
  <1>7. ASSUME UNCHANGED <<setting, built, unit>>
        PROVE  WorkInv'
    BY <1>7 DEF WorkInv, WorkedOn, HasInputs, LibInputs, Compiles, setting
  <1>8. CASE UNCHANGED vars
    BY <1>7, <1>8 DEF vars
  <1> QED BY <1>3, <1>4, <1>5, <1>6, <1>7, <1>8, <1>9
          DEF Next, PassOn, CargoExit, CargoAborts, ReadStderr, StderrEnds, ReadStdout, Parse
-----------------------------------------------------------------------------
\* What a unit that ran, or is fresh, tells about those it needs.

Worked == TypeOK /\ PipesInv /\ WorkInv

LEMMA WorkedInit == Started => Worked
  BY TypeInit, PipesInit, WorkInit DEF Worked

LEMMA WorkedStep == Worked /\ [Next]_vars => Worked'
  BY TypeStep, PipesStep, WorkStep DEF Worked

LEMMA ScriptBuilt ==
    ASSUME Worked, NEW q \in Compiled(world, lock), BuildUnit(q) \in built
    PROVE  /\ q \notin world.noscript
           /\ BuildUnit(q) \in DOMAIN unit => unit[BuildUnit(q)] = "ran"
  <1>1. IsBuild(BuildUnit(q)) /\ BuildUnit(q)[1] = q
    BY DEF IsBuild, BuildUnit
  <1>2. CASE BuildUnit(q) \in before
    BY <1>1, <1>2 DEF Worked, PipesInv, FreshRan, WorkInv, TargetSound, IsBuild
  <1>3. CASE BuildUnit(q) \notin before
    BY <1>1, <1>3 DEF Worked, WorkInv, WorkedOn, Compiles
  <1> QED BY <1>2, <1>3

LEMMA RanAlone ==
    ASSUME Worked, NEW p \in Compiled(world, lock), unit[LibUnit(world, lock, p)] = "ran"
    PROVE  /\ p \notin world.noscript \cup world.norun
           /\ LibUnit(world, lock, p) \notin Unscannable(world, lock)
           /\ world.build[p] # {} => BuildUnit(p) \in built
  <1> DEFINE u == LibUnit(world, lock, p)
  <1>1. u \in DOMAIN unit /\ ~ IsBuild(u) /\ u[1] = p /\ u[2] = Needs(world, lock, p)
    BY LibInputsAre DEF Worked, LibUnit
  <1>2. p \in Needs(world, lock, p)
    BY NeedsCompiled
  <1>3. p \in world.noscript \cup world.norun => world.build[p] # {}
    BY WorldsAssumption DEF Worked, TypeOK, IsWorld
  <1>4. CASE u \in before
    <2>1. u \notin Unscannable(world, lock)
      BY <1>1, <1>4 DEF Worked, WorkInv, TargetSound, IsBuild, Unscannable, LibUnit
    <2> QED BY <1>1, <1>2, <1>4, <2>1 DEF Worked, WorkInv, TargetSound, IsBuild
  <1>5. CASE u \notin before
    <2>1. HasInputs(u) /\ u \notin Unscannable(world, lock)
      BY <1>1, <1>5 DEF Worked, WorkInv, WorkedOn
    <2>2. world.build[p] # {} => BuildUnit(p) \in built /\ p \notin world.norun
      BY <1>1, <2>1 DEF HasInputs
    <2> QED BY <1>3, <2>1, <2>2, ScriptBuilt
  <1> QED BY <1>4, <1>5

LEMMA NeedsRan ==
    ASSUME Worked, NEW p \in Compiled(world, lock), unit[LibUnit(world, lock, p)] = "ran",
           NEW q \in Needs(world, lock, p)
    PROVE  /\ unit[LibUnit(world, lock, q)] = "ran"
           /\ LibUnit(world, lock, p) \in built =>
                LibUnit(world, lock, q) \in built /\ q \notin world.refused
  <1> DEFINE u == LibUnit(world, lock, p)
             v == LibUnit(world, lock, q)
  <1>1. /\ u \in DOMAIN unit /\ u[1] = p /\ u[2] = Needs(world, lock, p) /\ ~ IsBuild(u)
        /\ v \in DOMAIN unit /\ v[1] = q /\ ~ IsBuild(v) /\ p \in lock
    BY LibInputsAre, NeedsCompiled, CompiledIsLocked DEF Worked, LibUnit
  <1>2. CASE u \in before
    <2>1. v \in before
      BY <1>1, <1>2, NeedsWithin DEF Worked, WorkInv, TargetSound
    <2> QED BY <1>1, <2>1 DEF Worked, PipesInv, FreshRan, WorkInv, TargetSound, IsBuild
  <1>3. CASE u \notin before
    <2>1. WorkedOn(u) /\ HasInputs(u)
      BY <1>1, <1>3 DEF Worked, WorkInv, WorkedOn
    <2>2. u \in built => p \notin world.refused /\ LibInputs(u) \subseteq built
      BY <1>1, <2>1 DEF WorkedOn, Compiles
    <2>3. CASE q = p
      BY <2>2, <2>3
    <2>4. CASE q # p
      <3>1. v \in LibInputs(u)
        BY <2>4, LibInputsAre DEF Worked
      <3>2. unit[v] = "ran"
        BY <2>1, <3>1 DEF HasInputs
      <3>3. ASSUME v \in built
            PROVE  q \notin world.refused
        <4>1. CASE v \in before
          BY <1>1, <4>1 DEF Worked, WorkInv, TargetSound, IsBuild
        <4>2. CASE v \notin before
          BY <1>1, <3>3, <4>2 DEF Worked, WorkInv, WorkedOn, Compiles
        <4> QED BY <4>1, <4>2
      <3> QED BY <2>2, <3>1, <3>2, <3>3
    <2> QED BY <2>3, <2>4
  <1> QED BY <1>2, <1>3

\* Whichever wrappers failed, Cargo got to what it ran them for.
LEMMA StartedIsReached ==
    ASSUME Worked, NEW p \in Compiled(world, lock),
           unit[LibUnit(world, lock, p)] # "waiting",
           NEW faults, \A v \in faults : v \in DOMAIN unit /\ unit[v] # "ran"
    PROVE  p \in Reached(world, lock, Unscannable(world, lock) \cup faults)
  <1> DEFINE u == LibUnit(world, lock, p)
             failed == Unscannable(world, lock) \cup faults
  <1>1. ASSUME NEW q \in Needs(world, lock, p)
        PROVE  /\ q \in Compiled(world, lock)
               /\ q # p => unit[LibUnit(world, lock, q)] = "ran"
               /\ q \notin world.noscript \cup world.norun
               /\ world.build[q] # {} => BuildUnit(q) \in built
    <2>1. q \in Compiled(world, lock)
      BY NeedsCompiled
    <2>2. CASE unit[u] = "ran"
      BY <2>1, <2>2, NeedsRan, RanAlone
    <2>3. CASE unit[u] # "ran"
      <3>1. /\ u \in DOMAIN unit /\ ~ IsBuild(u) /\ u[1] = p
            /\ LibInputs(u) = {LibUnit(world, lock, n) : n \in Needs(world, lock, p) \ {p}}
        BY LibInputsAre DEF Worked, LibUnit
      <3>2. HasInputs(u)
        BY <2>3, <3>1 DEF Worked, PipesInv, FreshRan, WorkInv, WorkedOn
      <3>3. CASE q = p
        <4>1. world.build[p] # {} => BuildUnit(p) \in built /\ p \notin world.norun
          BY <3>1, <3>2 DEF HasInputs
        <4>2. p \in world.noscript \cup world.norun => world.build[p] # {}
          BY WorldsAssumption DEF Worked, TypeOK, IsWorld
        <4> QED BY <2>1, <3>3, <4>1, <4>2, ScriptBuilt
      <3>4. CASE q # p
        <4>1. unit[LibUnit(world, lock, q)] = "ran"
          BY <3>1, <3>2, <3>4 DEF HasInputs
        <4> QED BY <2>1, <4>1, RanAlone
      <3> QED BY <3>3, <3>4
    <2> QED BY <2>2, <2>3
  <1>2. ASSUME NEW q \in Needs(world, lock, p), NEW v \in failed, v[1] = q
        PROVE  v = LibUnit(world, lock, p)
    <2>1. CASE v \in Unscannable(world, lock)
      <3>1. v = LibUnit(world, lock, q)
        BY <1>2, <2>1 DEF Unscannable, LibUnit
      <3> QED BY <1>1, <2>1, <3>1, RanAlone
    <2>2. CASE v \in faults
      <3>1. v \in Units(world, lock) /\ unit[v] # "ran"
        BY <2>2 DEF Worked, TypeOK
      <3>2. ASSUME NEW r \in Compiled(world, lock), v = LibUnit(world, lock, r)
            PROVE  v = LibUnit(world, lock, p)
        <4>1. r = q
          BY <1>2, <3>2 DEF LibUnit
        <4> QED BY <1>1, <3>1, <3>2, <4>1
      <3>3. ASSUME NEW r \in Compiled(world, lock), v = BuildUnit(r), world.build[r] # {}
            PROVE  FALSE
        <4>1. r = q
          BY <1>2, <3>3 DEF BuildUnit
        <4>2. BuildUnit(q) \in built
          BY <1>1, <3>3, <4>1
        <4> QED BY <1>1, <2>2, <3>1, <3>3, <4>1, <4>2, ScriptBuilt
      <3> QED BY <3>1, <3>2, <3>3, TwoKinds
    <2> QED BY <2>1, <2>2
  <1> QED BY <1>1, <1>2 DEF Reached

LEMMA RanIsReached ==
    ASSUME Worked, NEW p \in Compiled(world, lock), unit[LibUnit(world, lock, p)] = "ran",
           NEW faults, \A v \in faults : v \in DOMAIN unit /\ unit[v] # "ran"
    PROVE  /\ p \in Reached(world, lock, Unscannable(world, lock) \cup faults)
           /\ LibUnit(world, lock, p) \notin Unscannable(world, lock) \cup faults
  BY StartedIsReached, RanAlone

LEMMA BuiltIsBuilt ==
    ASSUME Worked, NEW u \in built \ before,
           NEW faults, \A v \in faults : v \in DOMAIN unit /\ unit[v] # "ran"
    PROVE  u \in Built(world, lock, before, Unscannable(world, lock) \cup faults)
  <1> DEFINE failed == Unscannable(world, lock) \cup faults
  <1>1. u \in DOMAIN unit /\ unit[u] = "ran" /\ Compiles(u)
    BY DEF Worked, WorkInv, WorkedOn
  <1>2. ASSUME NEW p \in Compiled(world, lock), u = LibUnit(world, lock, p)
        PROVE  u \in Built(world, lock, before, failed)
    <2>1. p \in Scanned(world, lock, before, failed)
      BY <1>1, <1>2, RanIsReached DEF Scanned
    <2>2. Needs(world, lock, p) \cap world.refused = {}
      BY <1>1, <1>2, NeedsRan
    <2> QED BY <1>2, <2>1, <2>2 DEF Built
  <1>3. ASSUME NEW p \in Compiled(world, lock), u = BuildUnit(p), world.build[p] # {}, IsBuild(u)
        PROVE  u \in Built(world, lock, before, failed)
    <2>1. u \notin Unscannable(world, lock)
      BY <1>3, NeedsCompiled DEF Unscannable, LibUnit, IsBuild
    <2>2. p \in ScannedBuilds(world, lock, before, failed)
      BY <1>1, <1>3, <2>1 DEF ScannedBuilds
    <2>3. p \notin world.noscript
      BY <1>1, <1>3 DEF Compiles, BuildUnit
    <2> QED BY <1>3, <2>2, <2>3 DEF Built
  <1> QED BY <1>1, <1>2, <1>3, TwoKinds DEF Worked, TypeOK

LEMMA WorkedFresh == Worked => InterruptedFresh
  <1> SUFFICES ASSUME Worked
               PROVE  built \in Stopped(world, lock, before)
    BY DEF InterruptedFresh
  <1> DEFINE part == built \ before
             more == Built(world, lock, before, Unscannable(world, lock)) \ before
  <1>1. part \subseteq more
    <2>1. \A u \in part : u \in Built(world, lock, before, Unscannable(world, lock) \cup {})
      BY BuiltIsBuilt
    <2>2. Unscannable(world, lock) \cup {} = Unscannable(world, lock)
      OBVIOUS
    <2> QED BY <2>1, <2>2
  <1>2. ASSUME NEW u \in part
        PROVE  Inputs(world, lock, u) \subseteq before \cup part
    <2>1. u \in DOMAIN unit /\ unit[u] = "ran"
      BY DEF Worked, WorkInv, WorkedOn
    <2>2. ASSUME NEW p \in Compiled(world, lock), u = LibUnit(world, lock, p)
          PROVE  Inputs(world, lock, u) \subseteq built
      <3>1. ASSUME NEW q \in Needs(world, lock, p)
            PROVE  /\ LibUnit(world, lock, q) \in built
                   /\ world.build[q] # {} => BuildUnit(q) \in built
        <4>1. q \in Compiled(world, lock)
          BY <2>2, <3>1, NeedsCompiled
        <4>2. unit[LibUnit(world, lock, p)] = "ran" /\ LibUnit(world, lock, p) \in built
          BY <2>1, <2>2
        <4>3. unit[LibUnit(world, lock, q)] = "ran" /\ LibUnit(world, lock, q) \in built
          BY <2>2, <3>1, <4>2, NeedsRan
        <4> QED BY <4>1, <4>3, RanAlone
      <3> QED BY <2>2, <3>1 DEF Inputs, LibUnit
    <2>3. CASE IsBuild(u)
      BY <2>3 DEF Inputs, IsBuild
    <2> QED BY <2>1, <2>2, <2>3, TwoKinds DEF Worked, TypeOK
  <1>3. built = before \cup part
    BY DEF Worked, WorkInv
  <1> QED BY <1>1, <1>2, <1>3, StoppedIs

\* Wherever an extraction is interrupted, nothing is fresh without what it was
\* compiled from: for every world, number of jobs and order of the units.
THEOREM InterruptsLeaveFresh == Spec => []InterruptedFresh
  BY InitStarted, WorkedInit, WorkedStep, WorkedFresh, PTL DEF Spec
-----------------------------------------------------------------------------
\* What Cargo gets to.

\* No package is compiled from itself through others (Cargo refuses that).
NoBuildCycles(w) ==
    \A S \in SUBSET DOMAIN w.deps :
        S # {} => \E n \in S : \A m \in S : ~ DependsOn(w, n, m, FALSE)

\* What is needed is needed directly or by what is.
LEMMA NeedsThrough ==
    ASSUME NEW w, NEW L, NEW p \in L, NEW q \in Needs(w, L, p), q # p
    PROVE  \E m \in Needs(w, L, p) : <<p, m>> \in BuildEdges(w, L) /\ q \in Needs(w, L, m)
  <1> DEFINE next == {m \in L : <<p, m>> \in BuildEdges(w, L)}
             T == {p} \cup UNION {Needs(w, L, m) : m \in next}
  <1>1. \A m \in next : m \in Needs(w, L, p) /\ m \in Needs(w, L, m)
    BY ReachableStart DEF Needs, Reachable
  <1>2. T \subseteq L /\ p \in T
    BY DEF Needs, Reachable
  <1>3. ASSUME NEW e \in BuildEdges(w, L), e[1] \in T
        PROVE  e[2] \in T
    <2>1. CASE e[1] = p
      <3>1. e[2] \in next
        BY <2>1, PairsAre DEF BuildEdges
      <3> QED BY <1>1, <3>1
    <2>2. ASSUME NEW m \in next, e[1] \in Needs(w, L, m)
          PROVE  e[2] \in T
      <3>1. e[2] \in Needs(w, L, m)
        BY <2>2, PairsAre DEF Needs, Reachable, BuildEdges
      <3> QED BY <3>1
    <2> QED BY <1>3, <2>1, <2>2
  <1>4. q \in T
    <2> HIDE DEF T
    <2> QED BY <1>2, <1>3 DEF Needs, Reachable
  <1> QED BY <1>1, <1>4

\* What holds of a package whenever it holds of all it needs holds of all.
LEMMA NeedsInduction ==
    ASSUME NEW w, NoBuildCycles(w), NEW L, L \subseteq DOMAIN w.deps, NEW p \in L, NEW S,
           \A n \in Needs(w, L, p) : Needs(w, L, n) \ {n} \subseteq S => n \in S
    PROVE  Needs(w, L, p) \subseteq S
  <1> DEFINE X == {n \in Needs(w, L, p) : ~ Needs(w, L, n) \subseteq S}
  <1>1. ASSUME NEW n \in Needs(w, L, p)
        PROVE  n \in L /\ n \in Needs(w, L, n) /\ Needs(w, L, n) \subseteq Needs(w, L, p)
    <2>1. n \in L
      BY DEF Needs, Reachable
    <2> QED BY <2>1, ReachableStart, ReachableOn DEF Needs
  <1>2. X = {}
    <2> SUFFICES ASSUME X # {}
                 PROVE  FALSE
      OBVIOUS
    <2>1. X \subseteq DOMAIN w.deps
      BY <1>1
    <2>2. PICK n \in X : \A m \in X : ~ DependsOn(w, n, m, FALSE)
      BY <2>1 DEF NoBuildCycles
    <2>3. n \in L /\ Needs(w, L, n) \subseteq Needs(w, L, p)
      BY <1>1
    <2>4. ASSUME NEW q \in Needs(w, L, n) \ {n}
          PROVE  q \in S
      <3>1. PICK m \in Needs(w, L, n) : <<n, m>> \in BuildEdges(w, L) /\ q \in Needs(w, L, m)
        BY <2>3, NeedsThrough
      <3>2. m \notin X
        BY <2>2, <3>1, PairsAre DEF BuildEdges
      <3> QED BY <2>3, <3>1, <3>2
    <2>5. n \in S
      BY <2>4
    <2> QED BY <2>4, <2>5
  <1> QED BY <1>1, <1>2

\* How Cargo ended: all units done, or none that could be started, or nothing
\* done at all.
Outcome ==
    /\ cargo = "ok" => \A u \in DOMAIN unit : unit[u] = "ran"
    /\ cargo = "failed" =>
         \/ \A u \in DOMAIN unit \ before : unit[u] = "waiting"
         \/ /\ \E u \in DOMAIN unit : unit[u] # "ran"
            /\ \A u \in DOMAIN unit : ~ Ready(u)

LEMMA OutcomeStep == Worked /\ Outcome /\ [Next]_vars => Outcome'
  <1> SUFFICES ASSUME Worked, Outcome, [Next]_vars
               PROVE  Outcome'
    OBVIOUS
  <1>1. ASSUME NEW u \in DOMAIN unit, unit[u] \in {"scanning", "compiling"}
        PROVE  cargo = "running"
    BY <1>1 DEF Worked, PipesInv, Quiet, Active
  <1>2. CASE \E u \in DOMAIN unit : \/ StartUnit(u) \/ WrapperFails(u) \/ ScanUnit(u)
                                   \/ RustcUnit(u) \/ RustcFails(u)
    <2>1. cargo = "running" /\ cargo' = cargo
      BY <1>1, <1>2 DEF StartUnit, WrapperFails, ScanUnit, RustcUnit, RustcFails
    <2> QED BY <2>1 DEF Outcome
  <1>3. CASE UNCHANGED <<setting, built, unit, cargo>>
    BY <1>3 DEF Outcome, Ready, LibInputs, setting
  <1>4. CASE CargoExit
    BY <1>4 DEF Outcome, CargoExit, Ready, LibInputs, setting
  <1>5. CASE CargoAborts
    BY <1>5 DEF Outcome, CargoAborts, setting
  <1>6. CASE UNCHANGED vars
    BY <1>3, <1>6 DEF vars
  <1> QED BY <1>2, <1>3, <1>4, <1>5, <1>6
          DEF Next, PassOn, ReadStderr, StderrEnds, ReadStdout, Parse

\* When Cargo can go no further, the units that failed are one of the choices
\* Failures leaves open, and all that it could get to without them ran.
NoFurther == Active = {} /\ \A u \in DOMAIN unit : ~ Ready(u)

Faults == {u \in DOMAIN unit \ before :
              unit[u] \in {"failed", "aborted"} /\ u[1] \in world.flaky}
Failed == Unscannable(world, lock) \cup Faults

\* Those of them that were reported first.
Late == {u \in DOMAIN unit \ before : unit[u] = "aborted"}

LEMMA FailedOrRan ==
    ASSUME Worked, NoFurther, NEW u \in DOMAIN unit
    PROVE  /\ unit[u] = "ran" => u \notin Failed
           /\ u \notin Failed => unit[u] \notin {"failed", "aborted"}
           /\ IsBuild(u) /\ u \notin Failed => unit[u] = "ran"
           /\ unit[u] \in {"waiting", "ran", "failed", "aborted"}
  <1>1. unit[u] \in {"waiting", "ran", "failed", "aborted"}
    BY DEF NoFurther, Active, Worked, TypeOK
  <1>2. ASSUME unit[u] = "ran"
        PROVE  u \notin Failed
    <2>1. CASE \E p \in Compiled(world, lock) : u = LibUnit(world, lock, p)
      BY <1>2, <2>1, RanAlone DEF Failed, Faults
    <2>2. CASE IsBuild(u)
      BY <1>2, <2>2, NeedsCompiled DEF Failed, Faults, Unscannable, LibUnit, IsBuild
    <2> QED BY <2>1, <2>2, TwoKinds DEF Worked, TypeOK
  <1>3. ASSUME unit[u] \in {"failed", "aborted"}
        PROVE  u \in Failed
    BY <1>3 DEF Worked, PipesInv, FreshRan, WorkInv, WorkedOn, Failed, Faults
  <1>4. ASSUME IsBuild(u), unit[u] = "waiting"
        PROVE  FALSE
    BY <1>4 DEF NoFurther, Ready, LibInputs
  <1> QED BY <1>1, <1>2, <1>3, <1>4

LEMMA ReachedRan ==
    ASSUME Worked, NoFurther, NoBuildCycles(world), NEW p \in Reached(world, lock, Failed),
           LibUnit(world, lock, p) \notin Failed
    PROVE  unit[LibUnit(world, lock, p)] = "ran"
  <1> DEFINE S == {q \in Needs(world, lock, p) : unit[LibUnit(world, lock, q)] = "ran"}
  <1>1. /\ p \in Compiled(world, lock) /\ p \in lock /\ lock \subseteq DOMAIN world.deps
        /\ p \in Needs(world, lock, p)
    BY CompiledIsLocked, LocksArePackages, NeedsCompiled DEF Reached, Worked, TypeOK
  <1>2. ASSUME NEW n \in Needs(world, lock, p), Needs(world, lock, n) \ {n} \subseteq S
        PROVE  n \in S
    <2> DEFINE u == LibUnit(world, lock, n)
    <2>1. n \in Compiled(world, lock) /\ n \notin world.noscript \cup world.norun
      BY <1>1, NeedsCompiled DEF Reached
    <2>2. \A v \in Failed : v[1] # n
      BY DEF Reached
    <2>3. /\ u \in DOMAIN unit /\ u[1] = n /\ ~ IsBuild(u)
          /\ LibInputs(u) = {LibUnit(world, lock, q) : q \in Needs(world, lock, n) \ {n}}
      BY <2>1, LibInputsAre DEF Worked, LibUnit
    <2>4. unit[u] \in {"waiting", "ran"}
      BY <2>2, <2>3, FailedOrRan
    <2>5. \A v \in LibInputs(u) : unit[v] = "ran"
      BY <1>2, <2>3
    <2>6. ASSUME world.build[n] # {}
          PROVE  BuildUnit(n) \in built
      <3> DEFINE b == BuildUnit(n)
      <3>1. b \in DOMAIN unit /\ IsBuild(b) /\ b[1] = n
        BY <2>1, <2>6 DEF Worked, TypeOK, Units, BuildUnit, IsBuild
      <3>2. unit[b] = "ran"
        BY <2>2, <3>1, FailedOrRan
      <3> QED BY <2>1, <3>1, <3>2 DEF Worked, WorkInv, WorkedOn, Compiles
    <2>7. unit[u] # "waiting"
      BY <2>1, <2>3, <2>5, <2>6 DEF NoFurther, Ready
    <2> QED BY <2>4, <2>7
  <1>3. Needs(world, lock, p) \subseteq S
    BY <1>1, <1>2, NeedsInduction
  <1> QED BY <1>1, <1>3

LEMMA RanAre ==
    ASSUME Worked, NoFurther, NoBuildCycles(world), NEW p \in Compiled(world, lock)
    PROVE  /\ LibUnit(world, lock, p) \notin before =>
                (unit[LibUnit(world, lock, p)] = "ran" <=> p \in Scanned(world, lock, before, Failed))
           /\ world.build[p] # {} /\ BuildUnit(p) \notin before =>
                (unit[BuildUnit(p)] = "ran" <=> p \in ScannedBuilds(world, lock, before, Failed))
  <1>1. \A v \in Faults : v \in DOMAIN unit /\ unit[v] # "ran"
    BY DEF Faults
  <1>2. unit[LibUnit(world, lock, p)] = "ran" =>
            p \in Reached(world, lock, Failed) /\ LibUnit(world, lock, p) \notin Failed
    BY <1>1, RanIsReached DEF Failed
  <1>3. p \in Reached(world, lock, Failed) /\ LibUnit(world, lock, p) \notin Failed =>
            unit[LibUnit(world, lock, p)] = "ran"
    BY ReachedRan
  <1>4. ASSUME world.build[p] # {}
        PROVE  unit[BuildUnit(p)] = "ran" <=> BuildUnit(p) \notin Failed
    <2>1. BuildUnit(p) \in DOMAIN unit /\ IsBuild(BuildUnit(p))
      BY <1>4 DEF Worked, TypeOK, Units, BuildUnit, IsBuild
    <2> QED BY <2>1, FailedOrRan
  <1> QED BY <1>2, <1>3, <1>4 DEF Scanned, ScannedBuilds

LEMMA LateAre ==
    ASSUME Worked, NoFurther
    PROVE  Late \in LateFailures(world, lock, Failed)
  <1>1. ASSUME NEW u \in Late
        PROVE  u \in Failed /\ (u[2] # {} => u[1] \in Reached(world, lock, Failed) \ world.broken)
    <2>1. /\ u \in DOMAIN unit \ before /\ unit[u] = "aborted"
          /\ u[1] \in world.flaky /\ u \notin Unscannable(world, lock)
      BY DEF Late, Worked, WorkInv, WorkedOn
    <2>2. u \in Failed
      BY <2>1 DEF Failed, Faults
    <2>3. ASSUME NEW p \in Compiled(world, lock), u = LibUnit(world, lock, p)
          PROVE  u[1] \in Reached(world, lock, Failed) \ world.broken
      <3>1. u[1] = p /\ p \notin world.broken
        BY <2>1, <2>3 DEF LibUnit, Unscannable
      <3>2. \A v \in Faults : v \in DOMAIN unit /\ unit[v] # "ran"
        BY DEF Faults
      <3>3. p \in Reached(world, lock, Failed)
        BY <2>1, <2>3, <3>2, StartedIsReached DEF Failed
      <3> QED BY <3>1, <3>3
    <2> QED BY <2>1, <2>2, <2>3, TwoKinds DEF IsBuild, Worked, TypeOK
  <1> QED BY <1>1 DEF LateFailures

LEMMA LateReports ==
    ASSUME Worked
    PROVE  LateOutput(world, Late) = {Report(u) : u \in Late}
  BY DEF LateOutput, Late, Report, IsBuild

LEMMA ExactInfos ==
    ASSUME Worked, NoFurther, NoBuildCycles(world), out = <<>>, messages = <<>>
    PROVE  infos = ScannerOutput(world, lock, before, Failed) \cup LateOutput(world, Late)
  <1> DEFINE all == {u \in DOMAIN unit \ before : unit[u] = "ran"}
  <1>1. infos = {Report(u) : u \in all} \cup {Report(u) : u \in Late}
    <2>1. infos = {Report(u) : u \in {u \in DOMAIN unit \ before :
                                        unit[u] \in {"compiling", "ran", "aborted"}}}
      BY DEF Worked, PipesInv, Carried, Lines
    <2>2. {u \in DOMAIN unit \ before : unit[u] \in {"compiling", "ran", "aborted"}} = all \cup Late
      BY DEF NoFurther, Active, Late
    <2> QED BY <2>1, <2>2
  <1>2. ASSUME NEW u \in DOMAIN unit \ before, unit[u] = "ran"
        PROVE  Report(u) \in ScannerOutput(world, lock, before, Failed)
    <2>1. ASSUME NEW p \in Compiled(world, lock), u = LibUnit(world, lock, p), ~ IsBuild(u)
          PROVE  Report(u) \in ScannerOutput(world, lock, before, Failed)
      <3>1. p \in Scanned(world, lock, before, Failed) /\ u[1] = p
        BY <1>2, <2>1, RanAre DEF LibUnit
      <3> QED BY <2>1, <3>1 DEF Report, ScannerOutput
    <2>2. ASSUME NEW p \in Compiled(world, lock), u = BuildUnit(p), world.build[p] # {}, IsBuild(u)
          PROVE  Report(u) \in ScannerOutput(world, lock, before, Failed)
      <3>1. p \in ScannedBuilds(world, lock, before, Failed) /\ u[1] = p
        BY <1>2, <2>2, RanAre DEF BuildUnit
      <3> QED BY <2>2, <3>1 DEF Report, ScannerOutput
    <2> QED BY <2>1, <2>2, TwoKinds DEF Worked, TypeOK
  <1>3. ASSUME NEW p \in Scanned(world, lock, before, Failed)
        PROVE  CheckInfo(world, p) \in infos
    <2> DEFINE u == LibUnit(world, lock, p)
    <2>1. p \in Compiled(world, lock) /\ u \notin before
      BY DEF Scanned, Reached
    <2>2. u \in DOMAIN unit \ before /\ unit[u] = "ran" /\ ~ IsBuild(u) /\ u[1] = p
      BY <2>1, RanAre, LibInputsAre DEF Worked, LibUnit
    <2> HIDE DEF u
    <2> QED BY <1>1, <2>2 DEF Report
  <1>4. ASSUME NEW p \in ScannedBuilds(world, lock, before, Failed)
        PROVE  BuildCheckInfo(world, p) \in infos
    <2> DEFINE u == BuildUnit(p)
    <2>1. p \in Compiled(world, lock) /\ u \notin before /\ world.build[p] # {}
      BY DEF ScannedBuilds
    <2>2. u \in DOMAIN unit \ before /\ IsBuild(u) /\ u[1] = p
      BY <2>1 DEF Worked, TypeOK, Units, BuildUnit, IsBuild
    <2>3. unit[u] = "ran"
      BY <2>1, RanAre
    <2> HIDE DEF u
    <2> QED BY <1>1, <2>2, <2>3 DEF Report
  <1> QED BY <1>1, <1>2, <1>3, <1>4, LateReports DEF ScannerOutput

LEMMA ExactFresh ==
    ASSUME Worked, NoFurther, NoBuildCycles(world)
    PROVE  built = Built(world, lock, before, Failed)
  <1>1. before \subseteq built
    BY DEF Worked, WorkInv
  <1>2. ASSUME NEW u \in built
        PROVE  u \in Built(world, lock, before, Failed)
    <2>1. CASE u \in before
      BY <2>1 DEF Built
    <2>2. CASE u \notin before
      BY <2>2, BuiltIsBuilt DEF Faults, Failed
    <2> QED BY <2>1, <2>2
  <1>3. ASSUME NEW p \in ScannedBuilds(world, lock, before, Failed) \ world.noscript
        PROVE  BuildUnit(p) \in built
    <2> DEFINE u == BuildUnit(p)
    <2>1. p \in Compiled(world, lock) /\ u \notin before /\ world.build[p] # {}
      BY DEF ScannedBuilds
    <2>2. u \in DOMAIN unit /\ IsBuild(u) /\ u[1] = p
      BY <2>1 DEF Worked, TypeOK, Units, BuildUnit, IsBuild
    <2>3. unit[u] = "ran"
      BY <2>1, RanAre
    <2>4. u \in built
      BY <2>1, <2>2, <2>3 DEF Worked, WorkInv, WorkedOn, Compiles
    <2> QED BY <2>4
  <1>4. ASSUME NEW p \in Scanned(world, lock, before, Failed),
               Needs(world, lock, p) \cap world.refused = {}
        PROVE  LibUnit(world, lock, p) \in built
    <2> DEFINE S == {q \in Needs(world, lock, p) : LibUnit(world, lock, q) \in built}
    <2>1. /\ p \in Compiled(world, lock) /\ p \in lock /\ lock \subseteq DOMAIN world.deps
          /\ unit[LibUnit(world, lock, p)] = "ran"
          /\ p \in Needs(world, lock, p)
      BY RanAre, CompiledIsLocked, LocksArePackages, NeedsCompiled
         DEF Scanned, Reached, Worked, TypeOK
    <2>2. ASSUME NEW n \in Needs(world, lock, p), Needs(world, lock, n) \ {n} \subseteq S
          PROVE  n \in S
      <3> DEFINE u == LibUnit(world, lock, n)
      <3>1. n \in Compiled(world, lock) /\ unit[u] = "ran" /\ n \notin world.refused
        BY <1>4, <2>1, NeedsCompiled, NeedsRan
      <3>2. /\ u \in DOMAIN unit /\ u[1] = n /\ ~ IsBuild(u)
            /\ LibInputs(u) = {LibUnit(world, lock, q) : q \in Needs(world, lock, n) \ {n}}
        BY <3>1, LibInputsAre DEF Worked, LibUnit
      <3>3. LibInputs(u) \subseteq built
        BY <2>2, <3>2
      <3>4. Compiles(u)
        BY <3>1, <3>2, <3>3 DEF Compiles
      <3>5. u \in built
        BY <1>1, <3>1, <3>2, <3>4 DEF Worked, WorkInv, WorkedOn
      <3> QED BY <3>5
    <2>3. Needs(world, lock, p) \subseteq S
      BY <2>1, <2>2, NeedsInduction
    <2> QED BY <2>1, <2>3
  <1> QED BY <1>1, <1>2, <1>3, <1>4 DEF Built

LEMMA ExactStatus ==
    ASSUME Worked, NoFurther, NoBuildCycles(world)
    PROVE  Incomplete(world, lock, Failed) <=> \E u \in DOMAIN unit : unit[u] # "ran"
  <1>1. ASSUME \A u \in DOMAIN unit : unit[u] = "ran"
        PROVE  ~ Incomplete(world, lock, Failed)
    <2>1. ASSUME NEW p \in Compiled(world, lock)
          PROVE  /\ LibUnit(world, lock, p) \notin Unscannable(world, lock)
                 /\ p \notin world.noscript \cup world.norun
      BY <1>1, LibInputsAre, RanAlone DEF Worked
    <2>2. Failed = {}
      BY <1>1, <2>1 DEF Failed, Faults, Unscannable
    <2> QED BY <2>1, <2>2 DEF Incomplete
  <1>2. ASSUME ~ Incomplete(world, lock, Failed), NEW u \in DOMAIN unit
        PROVE  unit[u] = "ran"
    <2>1. Failed = {} /\ Compiled(world, lock) \cap (world.noscript \cup world.norun) = {}
      BY <1>2 DEF Incomplete
    <2>2. CASE IsBuild(u)
      BY <2>1, <2>2, FailedOrRan
    <2>3. ASSUME NEW p \in Compiled(world, lock), u = LibUnit(world, lock, p)
          PROVE  unit[u] = "ran"
      <3>1. p \in Reached(world, lock, Failed)
        BY <2>1, NeedsCompiled DEF Reached
      <3> QED BY <2>1, <2>3, <3>1, ReachedRan
    <2> QED BY <2>2, <2>3, TwoKinds DEF Worked, TypeOK
  <1> QED BY <1>1, <1>2

LEMMA OutcomeInit == Started => Outcome
  BY DEF Started, Outcome

LEMMA WorkedExact ==
    ASSUME Worked, Outcome, NoBuildCycles(world)
    PROVE  ExtractExact
  <1> SUFFICES ASSUME reader = "parsed"
               PROVE  [infos |-> infos, fresh |-> built, incomplete |-> cargo = "failed"]
                          \in Extractions(world, lock, before)
    BY DEF ExtractExact, Answer
  <1>1. /\ cargo \in {"ok", "failed"} /\ messages = <<>> /\ out = <<>> /\ Active = {}
    BY DEF Worked, PipesInv, Quiet, TypeOK
  <1>2. CASE NoFurther /\ (cargo = "failed" <=> \E u \in DOMAIN unit : unit[u] # "ran")
    <2>1. infos = ScannerOutput(world, lock, before, Failed) \cup LateOutput(world, Late)
      BY <1>1, <1>2, ExactInfos
    <2>2. built = Built(world, lock, before, Failed)
      BY <1>1, <1>2, ExactFresh
    <2>3. (cargo = "failed") = Incomplete(world, lock, Failed)
      BY <1>1, <1>2, ExactStatus DEF Incomplete
    <2>4. Faults \in SUBSET {u \in Units(world, lock) \ before : u[1] \in world.flaky}
      BY DEF Faults, Worked, TypeOK
    <2>5. Failed \in Failures(world, lock, before)
      BY <2>4 DEF Failed, Failures
    <2>6. [infos |-> infos, fresh |-> built, incomplete |-> cargo = "failed"]
              \in Ends(world, lock, before, Failed)
      BY <1>2, <2>1, <2>2, <2>3, LateAre DEF Ends
    <2> QED BY <2>5, <2>6 DEF Extractions
  <1>3. CASE cargo = "failed" /\ \A u \in DOMAIN unit \ before : unit[u] = "waiting"
    <2>1. infos = {}
      BY <1>3 DEF Worked, PipesInv, Carried
    <2>2. built = before
      BY <1>3 DEF Worked, WorkInv, WorkedOn
    <2> QED BY <1>3, <2>1, <2>2 DEF Extractions
  <1>4. CASE cargo = "ok"
    <2>1. \A u \in DOMAIN unit : unit[u] = "ran"
      BY <1>4 DEF Outcome
    <2> QED BY <1>1, <1>2, <1>4, <2>1 DEF NoFurther, Ready
  <1> QED BY <1>1, <1>2, <1>3, <1>4 DEF Outcome, NoFurther

\* An extraction as its processes make it, with any number of them at a time
\* and in any order, is one of the steps that RunExtract of RufAudit can take:
\* for every world in which no package is compiled from itself.
THEOREM ExtractionIsExact ==
    ASSUME \A w \in Worlds : NoBuildCycles(w)
    PROVE  Spec => []ExtractExact
  <1>1. Worked /\ Outcome => ExtractExact
    BY WorkedExact DEF Worked, TypeOK
  <1> QED BY InitStarted, WorkedInit, WorkedStep, OutcomeInit, OutcomeStep, <1>1, PTL DEF Spec
-----------------------------------------------------------------------------
\* Where an extraction can stop on its way, and that it can go on only for so
\* long, in registries with finitely many packages.

LEMMA SmallerByPackage ==
    ASSUME NEW S, NEW T, IsFiniteSet(T), \A u \in S : u[1] \in T,
           \A u, v \in S : u[1] = v[1] => u = v
    PROVE  IsFiniteSet(S) /\ Cardinality(S) <= Cardinality(T)
  <1>1. [u \in S |-> u[1]] \in Injection(S, T)
    BY DEF Injection, IsInjective
  <1> QED BY <1>1, FS_Injection

\* A library unit is told by its package, and so is that of a build script.
LEMMA UnitByPackage ==
    ASSUME TypeOK, NEW u \in DOMAIN unit, NEW v \in DOMAIN unit,
           IsBuild(u) <=> IsBuild(v), u[1] = v[1]
    PROVE  u = v
  <1>1. CASE IsBuild(u)
    <2>1. PICK p \in Compiled(world, lock), q \in Compiled(world, lock) :
              u = BuildUnit(p) /\ v = BuildUnit(q)
      BY <1>1, TwoKinds DEF TypeOK
    <2> QED BY <2>1 DEF BuildUnit
  <1>2. CASE ~ IsBuild(u)
    <2>1. PICK p \in Compiled(world, lock), q \in Compiled(world, lock) :
              u = LibUnit(world, lock, p) /\ v = LibUnit(world, lock, q)
      BY <1>2, TwoKinds DEF TypeOK
    <2> QED BY <2>1 DEF LibUnit
  <1> QED BY <1>1, <1>2

LEMMA FiniteUnits ==
    ASSUME TypeOK, IsFiniteSet(DOMAIN world.deps)
    PROVE  IsFiniteSet(DOMAIN unit) /\ IsFiniteSet(Compiled(world, lock))
  <1> DEFINE libs == {u \in DOMAIN unit : ~ IsBuild(u)}
             scripts == {u \in DOMAIN unit : IsBuild(u)}
  <1>1. Compiled(world, lock) \subseteq DOMAIN world.deps
    BY CompiledIsLocked, LocksArePackages DEF TypeOK
  <1>2. IsFiniteSet(Compiled(world, lock))
    BY <1>1, FS_Subset
  <1>3. \A u \in DOMAIN unit : u[1] \in Compiled(world, lock)
    BY TwoKinds DEF TypeOK, LibUnit, BuildUnit
  <1>4. IsFiniteSet(libs)
    <2>1. \A u, v \in libs : u[1] = v[1] => u = v
      BY UnitByPackage
    <2> QED BY <1>2, <1>3, <2>1, SmallerByPackage
  <1>5. IsFiniteSet(scripts)
    <2>1. \A u, v \in scripts : u[1] = v[1] => u = v
      BY UnitByPackage
    <2> QED BY <1>2, <1>3, <2>1, SmallerByPackage
  <1>6. IsFiniteSet(libs \cup scripts) /\ DOMAIN unit = libs \cup scripts
    BY <1>4, <1>5, FS_Union
  <1> QED BY <1>2, <1>6

\* As long as stdout is not read, it holds what the scanner printed.
Printed == {u \in DOMAIN unit \ before : unit[u] \in {"compiling", "ran", "aborted"}}

Unread ==
    reader = "stderr" => verbose /\ Len(messages) + Len(out) = Cardinality(Printed)

LEMMA UnreadStep ==
    ASSUME TypeOK, PipesInv, Unread, [Next]_vars, IsFiniteSet(DOMAIN world.deps)
    PROVE  Unread'
  <1>1. Printed' = Printed /\ UNCHANGED <<messages, out, verbose>> /\ (reader' = "stderr" => reader = "stderr")
            => Unread'
    BY DEF Unread
  <1>2. ASSUME NEW u \in DOMAIN unit, StartUnit(u) \/ WrapperFails(u)
        PROVE  Unread'
    <2>1. Printed' = Printed
      BY <1>2 DEF Printed, TypeOK, StartUnit, WrapperFails, Ready, setting
    <2> QED BY <1>1, <1>2, <2>1 DEF StartUnit, WrapperFails, setting
  <1>3. ASSUME NEW u \in DOMAIN unit, ScanUnit(u)
        PROVE  Unread'
    <2>1. u \notin before
      BY <1>3 DEF ScanUnit, PipesInv, FreshRan
    <2>2. Printed' = Printed \cup {u} /\ u \notin Printed
      BY <1>3, <2>1 DEF Printed, TypeOK, ScanUnit, setting
    <2>3. IsFiniteSet(Printed)
      BY FiniteUnits, FS_Subset DEF Printed
    <2>4. Cardinality(Printed') = Cardinality(Printed) + 1
      BY <2>2, <2>3, FS_AddElement
    <2>5. Len(messages') = Len(messages) + 1 /\ Len(messages) \in Nat /\ Len(out) \in Nat
      BY <1>3 DEF ScanUnit, TypeOK
    <2>6. UNCHANGED <<reader, verbose, out>>
      BY <1>3 DEF ScanUnit, setting
    <2> QED BY <2>4, <2>5, <2>6 DEF Unread
  <1>4. ASSUME NEW u \in DOMAIN unit, RustcUnit(u)
        PROVE  Unread'
    <2>1. Printed' = Printed
      BY <1>4 DEF Printed, TypeOK, RustcUnit, setting
    <2> QED BY <1>1, <1>4, <2>1 DEF RustcUnit, setting
  <1>9. ASSUME NEW u \in DOMAIN unit, RustcFails(u)
        PROVE  Unread'
    <2>1. Printed' = Printed
      BY <1>9 DEF Printed, TypeOK, RustcFails, setting
    <2> QED BY <1>1, <1>9, <2>1 DEF RustcFails, setting
  <1>5. CASE PassOn
    <2>1. /\ Len(out') = Len(out) + 1 /\ Len(messages') = Len(messages) - 1
          /\ Len(out) \in Nat /\ Len(messages) \in Nat
      BY <1>5 DEF PassOn, TypeOK
    <2>2. Len(messages') + Len(out') = Len(messages) + Len(out)
      BY <2>1
    <2> QED BY <1>5, <2>2 DEF PassOn, Unread, Printed, setting
  <1>6. CASE CargoExit \/ CargoAborts \/ ReadStderr
    BY <1>6 DEF CargoExit, CargoAborts, ReadStderr, Unread, Printed, setting
  <1>7. CASE StderrEnds \/ ReadStdout \/ Parse
    BY <1>7 DEF StderrEnds, ReadStdout, Parse, Unread
  <1>8. CASE UNCHANGED vars
    BY <1>8 DEF Unread, Printed, vars, setting
  <1> QED BY <1>2, <1>3, <1>4, <1>5, <1>6, <1>7, <1>8, <1>9 DEF Next

LEMMA UnreadInit == Started => Unread
  <1> SUFFICES ASSUME Started
               PROVE  Unread
    OBVIOUS
  <1>1. Printed = {}
    BY DEF Started, Printed
  <1>2. Len(messages) = 0 /\ Len(out) = 0 /\ (reader = "stderr" => verbose)
    BY DEF Started
  <1> QED BY <1>1, <1>2, FS_EmptySet DEF Unread

\* Audit and Cargo never wait for each other without --verbose, nor with it if
\* what is reported fits into the pipe: for any number of jobs and any size of
\* the pipes.
THEOREM StuckOnlyIfFull ==
    ASSUME \A w \in Worlds : IsFiniteSet(DOMAIN w.deps)
    PROVE  Spec => []NotStuckIfFits
  <1>1. Worked /\ Unread => NotStuckIfFits
    <2> SUFFICES ASSUME Worked, Unread, Stuck, Fits
                 PROVE  FALSE
      BY DEF NotStuckIfFits, Stuck, Unread
    <2> DEFINE failed == Unscannable(world, lock)
               ran == {u \in DOMAIN unit \ before : unit[u] \in {"ran", "aborted"}}
               libs == {u \in ran : ~ IsBuild(u)}
               scripts == {u \in ran : IsBuild(u)}
               scanned == Scanned(world, lock, before, failed)
               builds == ScannedBuilds(world, lock, before, failed)
    <2>1. TypeOK /\ IsFiniteSet(DOMAIN world.deps)
      BY DEF Worked, TypeOK
    <2>2. IsFiniteSet(DOMAIN unit) /\ IsFiniteSet(Compiled(world, lock))
      BY <2>1, FiniteUnits
    <2>3. IsFiniteSet(scanned) /\ IsFiniteSet(builds)
      <3>1. scanned \subseteq Compiled(world, lock) /\ builds \subseteq Compiled(world, lock)
        BY DEF Scanned, ScannedBuilds, Reached
      <3> HIDE DEF scanned, builds
      <3> QED BY <2>2, <3>1, FS_Subset
    <2>4. IsFiniteSet(libs) /\ Cardinality(libs) <= Cardinality(scanned)
      <3>1. ASSUME NEW u \in libs
            PROVE  u[1] \in scanned
        <4>1. PICK p \in Compiled(world, lock) : u = LibUnit(world, lock, p)
          BY <2>1, TwoKinds DEF TypeOK
        <4>2. p \in Reached(world, lock, failed)
          <5> DEFINE none == {}
          <5>1. unit[LibUnit(world, lock, p)] # "waiting"
            BY <4>1
          <5>2. /\ \A v \in none : v \in DOMAIN unit /\ unit[v] # "ran"
                /\ Unscannable(world, lock) \cup none = failed
            OBVIOUS
          <5> HIDE DEF none, failed
          <5> QED BY <5>1, <5>2, StartedIsReached
        <4>4. LibUnit(world, lock, p) \notin failed
          BY <4>1 DEF Worked, WorkInv, WorkedOn
        <4>3. u[1] = p
          BY <4>1 DEF LibUnit
        <4> QED BY <4>1, <4>2, <4>3, <4>4 DEF Scanned
      <3>2. \A u, v \in libs : u[1] = v[1] => u = v
        BY <2>1, UnitByPackage
      <3> HIDE DEF libs, scanned
      <3> QED BY <2>3, <3>1, <3>2, SmallerByPackage
    <2>5. IsFiniteSet(scripts) /\ Cardinality(scripts) <= Cardinality(builds)
      <3>1. ASSUME NEW u \in scripts
            PROVE  u[1] \in builds
        <4>1. PICK p \in Compiled(world, lock) : u = BuildUnit(p) /\ world.build[p] # {}
          BY <2>1, TwoKinds DEF TypeOK
        <4>2. u \notin failed /\ u[1] = p
          BY <4>1, NeedsCompiled DEF Unscannable, LibUnit, BuildUnit
        <4> QED BY <4>1, <4>2 DEF ScannedBuilds
      <3>2. \A u, v \in scripts : u[1] = v[1] => u = v
        BY <2>1, UnitByPackage
      <3> HIDE DEF scripts, builds
      <3> QED BY <2>3, <3>1, <3>2, SmallerByPackage
    <2>6. Cardinality(ran) <= Cardinality(scanned) + Cardinality(builds)
      <3>1. ran = libs \cup scripts
        OBVIOUS
      <3>2. Cardinality(libs \cup scripts)
                = Cardinality(libs) + Cardinality(scripts) - Cardinality(libs \cap scripts)
        <4> HIDE DEF libs, scripts
        <4> QED BY <2>4, <2>5, FS_Union
      <3>3. libs \cap scripts = {}
        OBVIOUS
      <3>4. /\ Cardinality(libs) \in Nat /\ Cardinality(scripts) \in Nat
            /\ Cardinality(scanned) \in Nat /\ Cardinality(builds) \in Nat
            /\ Cardinality({}) = 0
        <4> HIDE DEF libs, scripts, scanned, builds
        <4> QED BY <2>3, <2>4, <2>5, FS_CardinalityType, FS_EmptySet
      <3>5. Cardinality(ran) = Cardinality(libs) + Cardinality(scripts)
        <4> HIDE DEF ran, libs, scripts
        <4>1. Cardinality(libs \cap scripts) = 0
          BY <3>3, <3>4
        <4>2. Cardinality(ran) = Cardinality(libs \cup scripts)
          BY <3>1
        <4> QED BY <3>2, <3>4, <4>1, <4>2
      <3> HIDE DEF ran, libs, scripts, scanned, builds
      <3> QED BY <2>4, <2>5, <3>4, <3>5
    <2>7. Len(messages) + Len(out) = Cardinality(ran)
      <3>1. ran = Printed
        BY DEF Stuck, Active, Printed
      <3> QED BY <3>1 DEF Unread, Stuck
    <2>8. Len(messages) \in Nat \ {0} /\ Len(out) = PipeSize /\ PipeSize \in Nat
      BY <2>1, SizesAssumption DEF Stuck, TypeOK
    <2>9. Cardinality(scanned) + Cardinality(builds) <= PipeSize
      BY DEF Fits
    <2>10. Cardinality(scanned) \in Nat /\ Cardinality(builds) \in Nat /\ Cardinality(ran) \in Nat
      <3>1. IsFiniteSet(ran)
        BY <2>2, FS_Subset
      <3> HIDE DEF ran, scanned, builds
      <3> QED BY <2>3, <3>1, FS_CardinalityType
    <2> HIDE DEF ran, scanned, builds
    <2> QED BY <2>6, <2>7, <2>8, <2>9, <2>10
  <1>2. TypeOK => IsFiniteSet(DOMAIN world.deps)
    BY DEF TypeOK
  <1>3. Worked /\ Unread /\ [Next]_vars => Unread'
    BY <1>2, UnreadStep DEF Worked
  <1> QED BY InitStarted, WorkedInit, WorkedStep, UnreadInit, <1>1, <1>3, PTL DEF Spec

\* How many units are at a stage.
Count(f, stage) == Cardinality({u \in DOMAIN f : f[u] = stage})

LEMMA CountMoves ==
    ASSUME NEW f, NEW g, IsFiniteSet(DOMAIN f), DOMAIN g = DOMAIN f, NEW u \in DOMAIN f,
           f[u] # g[u], \A v \in DOMAIN f : v # u => g[v] = f[v], NEW stage
    PROVE  /\ Count(f, stage) \in Nat
           /\ f[u] = stage => Count(g, stage) = Count(f, stage) - 1
           /\ g[u] = stage => Count(g, stage) = Count(f, stage) + 1
           /\ stage \notin {f[u], g[u]} => Count(g, stage) = Count(f, stage)
  <1> DEFINE F == {v \in DOMAIN f : f[v] = stage}
             G == {v \in DOMAIN g : g[v] = stage}
  <1>1. /\ f[u] = stage => u \in F /\ G = F \ {u}
        /\ g[u] = stage => u \notin F /\ G = F \cup {u}
        /\ stage \notin {f[u], g[u]} => G = F
    OBVIOUS
  <1>2. F \subseteq DOMAIN f /\ Count(f, stage) = Cardinality(F) /\ Count(g, stage) = Cardinality(G)
    BY DEF Count
  <1> HIDE DEF F, G
  <1>3. IsFiniteSet(F) /\ Cardinality(F) \in Nat
    BY <1>2, FS_Subset, FS_CardinalityType
  <1>4. ASSUME f[u] = stage
        PROVE  Cardinality(G) = Cardinality(F) - 1
    BY <1>1, <1>3, <1>4, FS_RemoveElement
  <1>5. ASSUME g[u] = stage
        PROVE  Cardinality(G) = Cardinality(F) + 1
    BY <1>1, <1>3, <1>5, FS_AddElement
  <1> QED BY <1>1, <1>2, <1>3, <1>4, <1>5

\* The parts of StepsLeft: what the units, the pipes and the two processes have
\* before them.
UnitSteps(f) == 7 * Count(f, "waiting") + 5 * Count(f, "scanning") + 2 * Count(f, "compiling")
LineSteps == 2 * Len(messages) + Len(out) + err
ProcessSteps ==
    (IF cargo = "running" THEN 2 ELSE 0)
        + (CASE reader = "stderr" -> 2 [] reader = "output" -> 1 [] reader = "parsed" -> 0)

Parts ==
    /\ StepsLeft = UnitSteps(unit) + LineSteps + ProcessSteps
    /\ UnitSteps(unit) \in Nat /\ LineSteps \in Nat /\ ProcessSteps \in Nat

LEMMA PartsAre == TypeOK /\ IsFiniteSet(DOMAIN world.deps) => Parts
  <1> SUFFICES ASSUME TypeOK, IsFiniteSet(DOMAIN world.deps)
               PROVE  Parts
    OBVIOUS
  <1>1. ASSUME NEW stage
        PROVE  Count(unit, stage) \in Nat
    BY FiniteUnits, FS_Subset, FS_CardinalityType DEF Count
  <1>2. UnitSteps(unit) \in Nat
    BY <1>1 DEF UnitSteps
  <1>3. LineSteps \in Nat
    BY SizesAssumption DEF LineSteps, TypeOK
  <1>4. ProcessSteps \in Nat
    BY DEF ProcessSteps, TypeOK
  <1>5. StepsLeft = UnitSteps(unit) + LineSteps + ProcessSteps
    <2> DEFINE a == Count(unit, "waiting")
               b == Count(unit, "scanning")
               c == Count(unit, "compiling")
               d == Len(messages)
               e == Len(out)
               x == IF cargo = "running" THEN 2 ELSE 0
               y == CASE reader = "stderr" -> 2 [] reader = "output" -> 1 [] reader = "parsed" -> 0
    <2>1. d \in Nat /\ e \in Nat /\ err \in Nat /\ x \in Nat /\ y \in Nat
      BY SizesAssumption DEF TypeOK
    <2>2. a \in Nat /\ b \in Nat /\ c \in Nat
      BY <1>1
    <2>3. StepsLeft = 7 * a + 5 * b + 2 * c + 2 * d + e + err + x + y
      BY DEF StepsLeft, Count
    <2>4. /\ UnitSteps(unit) = 7 * a + 5 * b + 2 * c /\ LineSteps = 2 * d + e + err
          /\ ProcessSteps = x + y
      BY DEF UnitSteps, LineSteps, ProcessSteps
    <2> HIDE DEF a, b, c, d, e, x, y
    <2> QED BY <2>1, <2>2, <2>3, <2>4
  <1> QED BY <1>2, <1>3, <1>4, <1>5 DEF Parts

LEMMA PartsAreNext == TypeOK' /\ IsFiniteSet(DOMAIN world.deps)' => Parts'
  BY PartsAre, PTL

\* What one unit's step takes off the units' part.
LEMMA UnitAdvances ==
    ASSUME TypeOK, IsFiniteSet(DOMAIN world.deps), NEW u \in DOMAIN unit,
           NEW next \in {"scanning", "compiling", "ran", "failed", "aborted"}, next # unit[u],
           unit' = [unit EXCEPT ![u] = next]
    PROVE  /\ unit[u] = "waiting" /\ next = "scanning" => UnitSteps(unit') = UnitSteps(unit) - 2
           /\ unit[u] = "scanning" /\ next = "failed" => UnitSteps(unit') = UnitSteps(unit) - 5
           /\ unit[u] = "scanning" /\ next = "compiling" => UnitSteps(unit') = UnitSteps(unit) - 3
           /\ unit[u] = "compiling" /\ next \in {"ran", "aborted"} =>
                UnitSteps(unit') = UnitSteps(unit) - 2
  <1>1. IsFiniteSet(DOMAIN unit)
    BY FiniteUnits
  <1>2. /\ unit'[u] = next /\ DOMAIN unit' = DOMAIN unit
        /\ \A v \in DOMAIN unit : v # u => unit'[v] = unit[v]
    BY DEF TypeOK
  <1>3. ASSUME NEW stage
        PROVE  /\ Count(unit, stage) \in Nat
               /\ unit[u] = stage => Count(unit', stage) = Count(unit, stage) - 1
               /\ unit'[u] = stage => Count(unit', stage) = Count(unit, stage) + 1
               /\ stage \notin {unit[u], unit'[u]} => Count(unit', stage) = Count(unit, stage)
    <2> DEFINE f == unit
               g == unit'
    <2>1. /\ IsFiniteSet(DOMAIN f) /\ DOMAIN g = DOMAIN f /\ u \in DOMAIN f
          /\ f[u] # g[u] /\ \A v \in DOMAIN f : v # u => g[v] = f[v]
      BY <1>1, <1>2
    <2> HIDE DEF f, g
    <2>2. /\ Count(f, stage) \in Nat
          /\ f[u] = stage => Count(g, stage) = Count(f, stage) - 1
          /\ g[u] = stage => Count(g, stage) = Count(f, stage) + 1
          /\ stage \notin {f[u], g[u]} => Count(g, stage) = Count(f, stage)
      BY <2>1, CountMoves
    <2> QED BY <2>2 DEF f, g
  <1>4. ASSUME unit[u] = "waiting", next = "scanning"
        PROVE  UnitSteps(unit') = UnitSteps(unit) - 2
    <2>1. /\ Count(unit', "waiting") = Count(unit, "waiting") - 1
          /\ Count(unit', "scanning") = Count(unit, "scanning") + 1
          /\ Count(unit', "compiling") = Count(unit, "compiling")
          /\ Count(unit, "waiting") \in Nat /\ Count(unit, "scanning") \in Nat
          /\ Count(unit, "compiling") \in Nat
      BY <1>2, <1>3, <1>4
    <2> QED BY <2>1 DEF UnitSteps
  <1>5. ASSUME unit[u] = "scanning", next = "failed"
        PROVE  UnitSteps(unit') = UnitSteps(unit) - 5
    <2>1. /\ Count(unit', "waiting") = Count(unit, "waiting")
          /\ Count(unit', "scanning") = Count(unit, "scanning") - 1
          /\ Count(unit', "compiling") = Count(unit, "compiling")
          /\ Count(unit, "waiting") \in Nat /\ Count(unit, "scanning") \in Nat
          /\ Count(unit, "compiling") \in Nat
      BY <1>2, <1>3, <1>5
    <2> QED BY <2>1 DEF UnitSteps
  <1>6. ASSUME unit[u] = "scanning", next = "compiling"
        PROVE  UnitSteps(unit') = UnitSteps(unit) - 3
    <2>1. /\ Count(unit', "waiting") = Count(unit, "waiting")
          /\ Count(unit', "scanning") = Count(unit, "scanning") - 1
          /\ Count(unit', "compiling") = Count(unit, "compiling") + 1
          /\ Count(unit, "waiting") \in Nat /\ Count(unit, "scanning") \in Nat
          /\ Count(unit, "compiling") \in Nat
      BY <1>2, <1>3, <1>6
    <2> QED BY <2>1 DEF UnitSteps
  <1>7. ASSUME unit[u] = "compiling", next \in {"ran", "aborted"}
        PROVE  UnitSteps(unit') = UnitSteps(unit) - 2
    <2>1. /\ Count(unit', "waiting") = Count(unit, "waiting")
          /\ Count(unit', "scanning") = Count(unit, "scanning")
          /\ Count(unit', "compiling") = Count(unit, "compiling") - 1
          /\ Count(unit, "waiting") \in Nat /\ Count(unit, "scanning") \in Nat
          /\ Count(unit, "compiling") \in Nat
      BY <1>2, <1>3, <1>7
    <2> QED BY <2>1 DEF UnitSteps
  <1> QED BY <1>4, <1>5, <1>6, <1>7

\* An extraction comes nearer to its end with every step of every process, for
\* any number of jobs and any size of the pipes.
THEOREM EveryStepAdvances ==
    ASSUME \A w \in Worlds : IsFiniteSet(DOMAIN w.deps)
    PROVE  Spec => Advances
  <1>1. TypeOK /\ [Next]_vars => StepsLeft' < StepsLeft \/ UNCHANGED vars
    <2> SUFFICES ASSUME TypeOK, Next
                 PROVE  StepsLeft' < StepsLeft
      OBVIOUS
    <2>1. TypeOK' /\ IsFiniteSet(DOMAIN world.deps) /\ IsFiniteSet(DOMAIN world.deps)'
      BY TypeStep DEF TypeOK
    <2>2. /\ StepsLeft = UnitSteps(unit) + LineSteps + ProcessSteps
          /\ UnitSteps(unit) \in Nat /\ LineSteps \in Nat /\ ProcessSteps \in Nat
      BY <2>1, PartsAre DEF Parts
    <2>3. /\ StepsLeft' = UnitSteps(unit') + LineSteps' + ProcessSteps'
          /\ UnitSteps(unit') \in Nat /\ LineSteps' \in Nat /\ ProcessSteps' \in Nat
      BY <2>1, PartsAreNext DEF Parts
    <2>4. /\ err \in Nat /\ err' \in Nat /\ Len(out) \in Nat /\ Len(messages) \in Nat
      BY <2>1, SizesAssumption DEF TypeOK
    <2>5. ASSUME NEW u \in DOMAIN unit, StartUnit(u)
          PROVE  StepsLeft' < StepsLeft
      <3>1. UnitSteps(unit') = UnitSteps(unit) - 2
        BY <2>1, <2>5, UnitAdvances DEF StartUnit, Ready
      <3>2. LineSteps' = LineSteps + 1 /\ ProcessSteps' = ProcessSteps
        BY <2>4, <2>5 DEF StartUnit, LineSteps, ProcessSteps
      <3> QED BY <2>2, <2>3, <3>1, <3>2
    <2>6. ASSUME NEW u \in DOMAIN unit, WrapperFails(u)
          PROVE  StepsLeft' < StepsLeft
      <3>1. UnitSteps(unit') = UnitSteps(unit) - 5
        BY <2>1, <2>6, UnitAdvances DEF WrapperFails
      <3>2. LineSteps' = LineSteps + 1 /\ ProcessSteps' = ProcessSteps
        BY <2>4, <2>6 DEF WrapperFails, LineSteps, ProcessSteps
      <3> QED BY <2>2, <2>3, <3>1, <3>2
    <2>7. ASSUME NEW u \in DOMAIN unit, ScanUnit(u)
          PROVE  StepsLeft' < StepsLeft
      <3>1. UnitSteps(unit') = UnitSteps(unit) - 3
        BY <2>1, <2>7, UnitAdvances DEF ScanUnit
      <3>2. LineSteps' = LineSteps + 2 /\ ProcessSteps' = ProcessSteps
        <4>1. Len(messages') = Len(messages) + 1
          BY <2>7 DEF ScanUnit, TypeOK
        <4> QED BY <2>4, <2>7, <4>1 DEF ScanUnit, LineSteps, ProcessSteps
      <3> QED BY <2>2, <2>3, <3>1, <3>2
    <2>8. ASSUME NEW u \in DOMAIN unit, RustcUnit(u)
          PROVE  StepsLeft' < StepsLeft
      <3>1. UnitSteps(unit') = UnitSteps(unit) - 2
        BY <2>1, <2>8, UnitAdvances DEF RustcUnit
      <3>2. LineSteps' = LineSteps /\ ProcessSteps' = ProcessSteps
        BY <2>8 DEF RustcUnit, LineSteps, ProcessSteps
      <3> QED BY <2>2, <2>3, <3>1, <3>2
    <2>15. ASSUME NEW u \in DOMAIN unit, RustcFails(u)
          PROVE  StepsLeft' < StepsLeft
      <3>1. UnitSteps(unit') = UnitSteps(unit) - 2
        BY <2>1, <2>15, UnitAdvances DEF RustcFails
      <3>2. LineSteps' = LineSteps + 1 /\ ProcessSteps' = ProcessSteps
        BY <2>4, <2>15 DEF RustcFails, LineSteps, ProcessSteps
      <3> QED BY <2>2, <2>3, <3>1, <3>2
    <2>9. CASE PassOn
      <3>1. Len(messages') = Len(messages) - 1 /\ Len(out') = Len(out) + 1
        BY <2>9 DEF PassOn, TypeOK
      <3>2. LineSteps' = LineSteps - 1 /\ ProcessSteps' = ProcessSteps /\ unit' = unit
        BY <2>4, <2>9, <3>1 DEF PassOn, LineSteps, ProcessSteps
      <3> QED BY <2>2, <2>3, <3>2
    <2>10. CASE CargoExit
      <3>1. LineSteps' = LineSteps /\ unit' = unit /\ cargo = "running" /\ cargo' # "running"
            /\ reader' = reader
        BY <2>10 DEF CargoExit, LineSteps
      <3>2. ProcessSteps' = ProcessSteps - 2
        BY <3>1 DEF ProcessSteps, TypeOK
      <3> QED BY <2>2, <2>3, <3>1, <3>2
    <2>11. CASE CargoAborts
      <3>1. LineSteps' = LineSteps + 1 /\ unit' = unit /\ cargo = "running" /\ cargo' # "running"
            /\ reader' = reader
        BY <2>4, <2>11 DEF CargoAborts, LineSteps
      <3>2. ProcessSteps' = ProcessSteps - 2
        BY <3>1 DEF ProcessSteps, TypeOK
      <3> QED BY <2>2, <2>3, <3>1, <3>2
    <2>12. CASE ReadStderr
      <3>1. LineSteps' = LineSteps - 1 /\ ProcessSteps' = ProcessSteps /\ unit' = unit
        BY <2>4, <2>12 DEF ReadStderr, LineSteps, ProcessSteps
      <3> QED BY <2>2, <2>3, <3>1
    <2>13. CASE StderrEnds \/ Parse
      <3>1. LineSteps' = LineSteps /\ ProcessSteps' = ProcessSteps - 1 /\ unit' = unit
        BY <2>13 DEF StderrEnds, Parse, LineSteps, ProcessSteps
      <3> QED BY <2>2, <2>3, <3>1
    <2>14. CASE ReadStdout
      <3>1. Len(out') = Len(out) - 1
        BY <2>14 DEF ReadStdout, TypeOK
      <3>2. LineSteps' = LineSteps - 1 /\ ProcessSteps' = ProcessSteps /\ unit' = unit
        BY <2>4, <2>14, <3>1 DEF ReadStdout, LineSteps, ProcessSteps
      <3> QED BY <2>2, <2>3, <3>2
    <2> QED BY <2>5, <2>6, <2>7, <2>8, <2>9, <2>10, <2>11, <2>12, <2>13, <2>14, <2>15 DEF Next
  <1> QED BY InitStarted, TypeInit, TypeStep, <1>1, PTL DEF Spec, Advances
-----------------------------------------------------------------------------
\* The refinement of ExtractPromise.  The operators of Registry and Extraction
\* mean there what they mean here.

LEMMA SameCompiled ==
    /\ \A w, L : Promise!Locks(w) = Locks(w) /\ Promise!Compiled(w, L) = Compiled(w, L)
    /\ \A w, L, p : Promise!Needs(w, L, p) = Needs(w, L, p)
  <1>1. \A dep, ver : Promise!ReqMatches(dep, ver) = ReqMatches(dep, ver)
    BY DEF Promise!ReqMatches, ReqMatches
  <1>2. \A w, p, q, d : Promise!DependsOn(w, p, q, d) = DependsOn(w, p, q, d)
    BY <1>1 DEF Promise!DependsOn, DependsOn
  <1>3. \A N, edges, S : Promise!Reachable(N, edges, S) = Reachable(N, edges, S)
    BY DEF Promise!Reachable, Reachable
  <1>4. \A w, L : Promise!BuildEdges(w, L) = BuildEdges(w, L)
    <2>1. \A L : Promise!Pairs(L) = Pairs(L)
      BY DEF Promise!Pairs, Pairs
    <2> QED BY <1>2, <2>1 DEF Promise!BuildEdges, BuildEdges
  <1>5. \A w : Promise!Locks(w) = Locks(w)
    <2> TAKE w
    <2> DEFINE Once(L) == \A p, q \in L : p[1] = q[1] /\ Major(p[2]) = Major(q[2]) => p = q
               Met(L) == \A p \in L : \A i \in DOMAIN w.deps[p] :
                   (w.deps[p][i].dev => p \in w.members) =>
                       \E q \in L : q[1] = w.deps[p][i].name /\ ReqMatches(w.deps[p][i], q[2])
               Needed(L) == \A q \in L \ w.members : \E p \in L : DependsOn(w, p, q, TRUE)
    <2>1. Locks(w) = {L \in SUBSET DOMAIN w.deps : w.members \subseteq L /\ Once(L) /\ Met(L) /\ Needed(L)}
      BY DEF Locks
    <2>2. Promise!Locks(w)
              = {L \in SUBSET DOMAIN w.deps : w.members \subseteq L /\ Once(L) /\ Met(L) /\ Needed(L)}
      <3>1. \A v : Promise!Major(v) = Major(v)
        BY DEF Promise!Major, Major
      <3> QED BY <1>1, <1>2, <3>1 DEF Promise!Locks
    <2> QED BY <2>1, <2>2
  <1> QED BY <1>3, <1>4, <1>5 DEF Promise!Compiled, Compiled, Promise!Needs, Needs

LEMMA SameUnits ==
    /\ \A w, L, p : Promise!LibUnit(w, L, p) = LibUnit(w, L, p)
    /\ \A p : Promise!BuildUnit(p) = BuildUnit(p)
    /\ \A w, L : /\ Promise!Unscannable(w, L) = Unscannable(w, L)
                 /\ Promise!Units(w, L) = Units(w, L)
    /\ \A w, L, b : Promise!Failures(w, L, b) = Failures(w, L, b)
    /\ \A w, L, u : Promise!Inputs(w, L, u) = Inputs(w, L, u)
  <1>1. \A w, L, p : Promise!LibUnit(w, L, p) = LibUnit(w, L, p)
    BY SameCompiled DEF Promise!LibUnit, LibUnit
  <1>2. \A p : Promise!BuildUnit(p) = BuildUnit(p)
    BY DEF Promise!BuildUnit, BuildUnit
  <1>3. \A w, L : Promise!Unscannable(w, L) = Unscannable(w, L)
    BY <1>1, SameCompiled DEF Promise!Unscannable, Unscannable
  <1>4. \A w, L : Promise!Units(w, L) = Units(w, L)
    BY <1>1, <1>2, SameCompiled DEF Promise!Units, Units
  <1>5. \A w, L, b : Promise!Failures(w, L, b) = Failures(w, L, b)
    BY <1>3, <1>4 DEF Promise!Failures, Failures
  <1>6. \A w, L, u : Promise!Inputs(w, L, u) = Inputs(w, L, u)
    BY <1>1, <1>2 DEF Promise!Inputs, Inputs
  <1> QED BY <1>1, <1>2, <1>3, <1>4, <1>5, <1>6

LEMMA SameOutcomes ==
    \A w, L, b : /\ Promise!Extractions(w, L, b) = Extractions(w, L, b)
                 /\ Promise!Stopped(w, L, b) = Stopped(w, L, b)
  <1>1. \A w, L, f : Promise!Reached(w, L, f) = Reached(w, L, f)
    BY SameCompiled, SameUnits DEF Promise!Reached, Reached
  <1>2. \A w, L, b, f : /\ Promise!Scanned(w, L, b, f) = Scanned(w, L, b, f)
                        /\ Promise!ScannedBuilds(w, L, b, f) = ScannedBuilds(w, L, b, f)
    BY <1>1, SameCompiled, SameUnits
       DEF Promise!Scanned, Scanned, Promise!ScannedBuilds, ScannedBuilds
  <1>3. \A w, L, b, f : Promise!Built(w, L, b, f) = Built(w, L, b, f)
    BY <1>2, SameCompiled, SameUnits DEF Promise!Built, Built
  <1>4. \A w, L, f : Promise!Incomplete(w, L, f) = Incomplete(w, L, f)
    BY SameCompiled DEF Promise!Incomplete, Incomplete
  <1>5. \A w, p : /\ Promise!CheckInfo(w, p) = CheckInfo(w, p)
                  /\ Promise!BuildCheckInfo(w, p) = BuildCheckInfo(w, p)
    BY DEF Promise!CheckInfo, CheckInfo, Promise!BuildCheckInfo, BuildCheckInfo,
           Promise!DeclaredRufs, DeclaredRufs, Promise!CondHolds, CondHolds
  <1>6. \A w, L, b, f : Promise!ScannerOutput(w, L, b, f) = ScannerOutput(w, L, b, f)
    BY <1>2, <1>5 DEF Promise!ScannerOutput, ScannerOutput
  <1>9. /\ \A w, L, f : Promise!LateFailures(w, L, f) = LateFailures(w, L, f)
        /\ \A w, late : Promise!LateOutput(w, late) = LateOutput(w, late)
    BY <1>1, <1>5 DEF Promise!LateFailures, LateFailures, Promise!LateOutput, LateOutput
  <1>10. \A w, L, b, f : Promise!Ends(w, L, b, f) = Ends(w, L, b, f)
    BY <1>3, <1>4, <1>6, <1>9 DEF Promise!Ends, Ends
  <1>7. \A w, L, b : Promise!Extractions(w, L, b) = Extractions(w, L, b)
    BY <1>10, SameUnits DEF Promise!Extractions, Extractions
  <1>8. \A w, L, b : Promise!Stopped(w, L, b) = Stopped(w, L, b)
    <2> TAKE w, L, b
    <2>1. Promise!Built(w, L, b, Promise!Unscannable(w, L)) = Built(w, L, b, Unscannable(w, L))
      BY <1>3, SameUnits
    <2> DEFINE more == Built(w, L, b, Unscannable(w, L)) \ b
    <2>2. {<<u, Promise!Inputs(w, L, u)>> : u \in more} = {<<u, Inputs(w, L, u)>> : u \in more}
      BY SameUnits
    <2> HIDE DEF more
    <2>3. /\ Promise!Stopped(w, L, b) =
               LET inputs == {<<u, Promise!Inputs(w, L, u)>> : u \in more}
               IN  {b \cup part : part \in {part \in SUBSET more :
                        \A i \in inputs : i[1] \in part => i[2] \subseteq b \cup part}}
          /\ Stopped(w, L, b) =
               LET inputs == {<<u, Inputs(w, L, u)>> : u \in more}
               IN  {b \cup part : part \in {part \in SUBSET more :
                        \A i \in inputs : i[1] \in part => i[2] \subseteq b \cup part}}
      BY <2>1 DEF Promise!Stopped, Stopped, more
    <2> QED BY <2>2, <2>3
  <1> QED BY <1>7, <1>8

\* What is fresh changes only when rustc ends, and Cargo and what is read do not
\* change any more once extract has an answer.
LEMMA AnsweredOnce ==
    ASSUME Worked, [Next]_vars
    PROVE  /\ UNCHANGED <<world, lock, before>> /\ built \subseteq built'
           /\ Answer # {} => UNCHANGED <<built, Answer>>
           /\ Answer' # Answer => built' = built
  <1>1. ASSUME NEW u \in DOMAIN unit, unit[u] \in {"scanning", "compiling"}
        PROVE  cargo = "running"
    BY <1>1 DEF Worked, PipesInv, Quiet, Active
  <1>2. reader = "parsed" => cargo # "running" /\ out = <<>>
    BY DEF Worked, PipesInv, Quiet
  <1>3. ASSUME NEW u \in DOMAIN unit,
               \/ StartUnit(u) \/ WrapperFails(u) \/ ScanUnit(u)
               \/ RustcUnit(u) \/ RustcFails(u)
        PROVE  /\ reader # "parsed" /\ reader' = reader /\ UNCHANGED setting
               /\ built \subseteq built'
    BY <1>1, <1>2, <1>3 DEF StartUnit, WrapperFails, ScanUnit, RustcUnit, RustcFails
  <1>4. CASE PassOn \/ CargoExit \/ CargoAborts \/ ReadStderr \/ StderrEnds \/ ReadStdout \/ Parse
    <2>1. UNCHANGED <<setting, built>>
      BY <1>4 DEF PassOn, CargoExit, CargoAborts, ReadStderr, StderrEnds, ReadStdout, Parse
    <2>2. reader = "parsed" => UNCHANGED <<reader, infos, cargo>>
      BY <1>2, <1>4 DEF PassOn, CargoExit, CargoAborts, ReadStderr, StderrEnds, ReadStdout, Parse
    <2> QED BY <2>1, <2>2 DEF setting, Answer
  <1>5. CASE UNCHANGED vars
    BY <1>5 DEF vars, setting, Answer
  <1>6. CASE \E u \in DOMAIN unit : \/ StartUnit(u) \/ WrapperFails(u) \/ ScanUnit(u)
                                   \/ RustcUnit(u) \/ RustcFails(u)
    BY <1>3, <1>6 DEF setting, Answer
  <1> QED BY <1>4, <1>5, <1>6 DEF Next

\* An extraction is to its callers what ExtractPromise says, for every world in
\* which no package is compiled from itself, any number of jobs and any size of
\* the pipes.
THEOREM ExtractionKeepsPromise ==
    ASSUME \A w \in Worlds : NoBuildCycles(w)
    PROVE  Spec => KeepsPromise
  <1>1. Init => Promise!Init
    BY SameCompiled, SameOutcomes DEF Init, Promise!Init, Answer
  <1>2. Worked /\ [Next]_vars /\ ExtractExact' /\ InterruptedFresh'
            => [Promise!Next]_<<world, lock, before, built, Answer>>
    <2> SUFFICES ASSUME Worked, [Next]_vars, ExtractExact', InterruptedFresh'
                 PROVE  Promise!Next \/ UNCHANGED <<world, lock, before, built, Answer>>
      OBVIOUS
    <2>1. CASE built' # built
      <3>1. Answer = {} /\ Answer' = {} /\ built \subseteq built' /\ UNCHANGED <<world, lock, before>>
        BY <2>1, AnsweredOnce
      <3>2. built' \in Stopped(world, lock, before)
        BY <3>1 DEF InterruptedFresh
      <3>3. Promise!Compile
        BY <2>1, <3>1, <3>2, SameOutcomes DEF Promise!Compile
      <3> QED BY <3>3 DEF Promise!Next
    <2>2. CASE built' = built /\ Answer' # Answer
      <3>1. Answer = {} /\ UNCHANGED <<world, lock, before>>
        BY <2>2, AnsweredOnce
      <3>2. PICK e \in Extractions(world, lock, before) : Answer' = {e} /\ e.fresh = built
        BY <2>2, <3>1 DEF ExtractExact, Answer
      <3>3. Promise!Reply
        BY <2>2, <3>1, <3>2, SameOutcomes DEF Promise!Reply
      <3> QED BY <3>3 DEF Promise!Next
    <2>3. UNCHANGED <<world, lock, before>>
      BY AnsweredOnce
    <2> QED BY <2>1, <2>2, <2>3
  <1>3. Spec => []ExtractExact /\ []InterruptedFresh
    BY ExtractionIsExact, InterruptsLeaveFresh
  <1>4. Spec => []Worked
    BY InitStarted, WorkedInit, WorkedStep, PTL DEF Spec
  <1> QED BY <1>1, <1>2, <1>3, <1>4, PTL DEF Spec, KeepsPromise, Promise!Spec
=============================================================================
