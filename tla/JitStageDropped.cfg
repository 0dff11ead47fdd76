SPECIFICATION CompilerSpec
CONSTANTS
  Entries <- Names3
  Pipelines <- OneBlock
  Stages <- OneStage
  Addrs = {"a1", "a2", "a3", "a4", "a5", "a6"}
  Programs <- Cases
  Configs <- SomeBuilds
  Parts = {"jit"}
  Scopes <- AllScopes
  Binaries <- JitBinaries
  Requests = {"r1", "r2"}
  Contexts <- JitContexts
  Samples <- JitSamples
  LogicBlocks <- BlockCases
  Layouts <- LayoutCases
  Sources <- PointerCases
  Declared <- Declarations
  Written <- Definitions
  Aliases <- TypeNames
  Classes = {"Vec"}
INVARIANT ColdStagesStillRun
