\* Every pipeline of up to MaxChecks checks, every outcome of every check.
CONSTANTS
    Ids <- MCIds
    Requires <- MCRequires
    MaxChecks = 4
SPECIFICATION Spec
INVARIANTS
    TypeOK
    Cascade
    RootCause
    HealthyHidesOnlyOwnSkips
    PassedIsReported
