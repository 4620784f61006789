CONSTANTS
    Installations = {i1, i2}
    Processes = {p1, p2}
    NoInstallation = NoInstallation
    Worked = i1
    MaxStacks = 2
    MaxPlans = 2
    MaxKeys = 2
    MaxTemplate = 2
SPECIFICATION Spec
CHECK_DEADLOCK FALSE
INVARIANTS PublishedIsWhole OwnershipIsProven EnvFollowsStack OneRuntimeKey LossIsExplained
PROPERTIES DeletionIsApproved DestroyCompletes
