SPECIFICATION StartFairSpec
CONSTANTS
    Replicas = {r1, r2}
    MaxTerms = 4
    MaxFaults = 2
    Migrations = 2
CHECK_DEADLOCK FALSE
INVARIANTS LeaseIsExclusive ReadyMeansMigrated MigrationsRunOnce
PROPERTIES DeposedStops ProjectionRuns
