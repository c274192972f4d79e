CONSTANTS
    Assets <- MCAssets
    Hash <- MCHash
    Size <- MCSize
    MaxFilesPerBatch = 2
    MaxBatchSize = 2
    MaxRetries = 1
    Workers = {1, 2, 3, 4}
    HTTPMaxParallel = 2
    HTTPDegradedParallel = 1
    MaxFaults = 2
    MaxExpiries = 1
    Configs <- MCConfigs
    TargetLists <- MCTargetLists
    Trees <- MCTrees
    MaxFileCount = 4
    MaxFileSize = 2
    Mappings <- MCMappings
    MD5 <- MCMD5
    Large <- MCLarge
    Begins <- MCBegins
    Buckets <- MCBuckets
    MaxSyncs = 2
SPECIFICATION DeploySpec
INVARIANTS DeploymentComplete NoStragglers OneExpirySurvived SyncMirrors ReportsAddUp
