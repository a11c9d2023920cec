SPECIFICATION Spec
CONSTANTS
    Builds <- MCBuilds
    PppMaxRetry = 1
INVARIANT ConnectedMeansAddresses
