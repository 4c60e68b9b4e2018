SPECIFICATION Spec
CONSTANTS
  Crates <- MCCrates
  Versions <- MCVersions
  CrateNames <- MCCrateNames
  Cfgs <- MCCfgs
  Rufs <- MCRufs
  KnownRufs <- MCKnownRufs
  RUSTC_VER_NUM = 3
  RUF_LIFETIME <- MCRufLifetime
  BuildScript = "build_script_build"
  NotJson <- MCNotJson
  Worlds <- ExtractWorlds
  Verbosity <- MCAnyVerbosity
  NumJobs = 2
  PipeSize = 1
INVARIANTS
  InterruptedFresh
  ExtractExact
  NothingLost
  NotStuckIfFits
  StuckOnStdout
PROPERTIES
  ExtractEndsIfItFits
  Advances
  KeepsPromise
CHECK_DEADLOCK FALSE
