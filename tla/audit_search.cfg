SPECIFICATION Spec
CONSTANTS
  Crates <- MCCrates
  Versions <- MCVersions
  CrateNames <- MCCrateNames
  Cfgs <- MCCfgs
  Rufs <- MCRufs
  KnownRufs <- MCKnownRufs
  RUSTC_VER_NUM = 3
  RUF_LIFETIME <- MCRufLifetime
  BuildScript = "build_script_build"
  NotJson <- MCNotJson
  Worlds <- AuditWorlds
INVARIANTS
  TypeOK
  TreeIsLock
  StrictParentsCurrent
  ReportsCurrent
  CfgsCurrent
  CulpritFixed
  FixSuitsDependents
  FixIsUsable
  LowestFoundIfRecorded
  RootNotSearched
  OneRootIfOneMember
  CfgsFoundIfTold
  FixSound
  RustcFixSound
  GivesUpRightly
PROPERTIES
  OnlyDowngrades
  SlimsDown
  ClimbsUp
  RecordedNotOverlooked
  Termination
  KeepsPromise
