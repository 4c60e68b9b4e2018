SPECIFICATION SpecProcesses
CONSTANTS
  Crates <- MCCrates
  Versions <- MCVersions
  CrateNames <- MCCrateNames
  Cfgs <- MCCfgs
  Rufs <- MCRufs
  KnownRufs <- MCKnownRufs
  RUSTC_VER_NUM = 3
  RUF_LIFETIME <- MCRufLifetime
  BuildScript = "build_script_build"
  NotJson <- MCNotJson
  Worlds <- ProcessWorlds
  Verbosity <- MCVerbosity
  NumJobs = 2
  PipeSize = 1
  MaxRuns = 2
INVARIANTS
  FreshIsSound
  ReportsSound
PROPERTIES
  KeepsRuns
  LastRunEnds
CHECK_DEADLOCK FALSE
