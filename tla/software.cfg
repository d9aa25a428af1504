SPECIFICATION SoftwareSpec
CONSTANTS
  Slots = 1
  Counts = 4
  NUM_GPIOS = 12
  Compare <- MCCompare
  MaxHashes = 2
  Inputs <- MCInputs
  Strays <- MCStrays
  MaxStrays = 2
  Applications <- MCApplications
  AppLength = 3
  DotEvery = 2
  Pace = 2
INVARIANTS
  CountExact
  ErrorReported
  ImageLoaded
PROPERTIES
  ReportsTrue
  ClearsExpired
  OneLedLit
  BytesKept
  ProgramsRun
