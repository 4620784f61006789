CONSTANTS
    MaxCommits = 2
    MaxEnv = 2
    Gates <- MCGates
    ProductionGates <- MCProductionGates
CHECK_DEADLOCK FALSE
SPECIFICATION FairSpec
PROPERTIES RequestedOnce HealthyRunsThePlan SecretsGoWhereConfirmed VerifiedDeployIsLive SimulatorStageIsEarned SetupCompletes
