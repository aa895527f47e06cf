\* Two jobs, step by step or as a partitura, on a floor that people edit as well.
CONSTANTS
    Jobs = {j1, j2}
    Plans <- MCPlans
    UserNodes <- MCUserNodes
    None = None
SPECIFICATION FairSpec
INVARIANTS Consistent NoReplay WriteAhead FloorBeforeNodes ResultsAreReal BaselineIsForeign
PROPERTIES JournalGrows ImplementsProvisioning DeployReturns
