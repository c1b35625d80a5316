CONSTANTS
    Lines = {"pg"}
    MaxAttempts = 2
    MaxVersion = 2
    MaxOutages = 1
    MaxFailures = 1
SPECIFICATION FairSpec
CHECK_DEADLOCK FALSE
INVARIANTS QuietMeansSynced
PROPERTIES SeenNeverGoesBack CatchesUp
