CONSTANTS
    Contracts <- MCContracts
    Addresses <- MCAddresses
    AbiPaths <- MCAbiPaths
    ConfigPaths <- MCConfigPaths
    Width = 8
    MsPerSec = 10
    DefaultMaxDelay = 5
    DefaultWarnDelay = 1
    CliInputs <- CliScalars
    EnvInputs <- EnvScalars
    FsInputs <- FsScalars
SPECIFICATION Spec
\* Dispatcher::new returns: its final phases have no successor.
CHECK_DEADLOCK FALSE
INVARIANT LoadNeverPanics
