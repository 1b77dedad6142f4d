SPECIFICATION CacheSpec
CONSTANTS
    Client <- MCClient
    MaxVersion = 3
    MaxCalls = 2
INVARIANTS OwnWriteShows ForeignDataIsInvalid CallsRouted
CHECK_DEADLOCK FALSE
