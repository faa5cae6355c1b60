\* Two processes, the two targets with a view, which share repositories.
SPECIFICATION TendedSpec
CONSTANTS
    orca = orca
    orca_mtp = orca_mtp
    radix = radix
    inferact = inferact
    orca_repo = orca_repo
    radix_repo = radix_repo
    qwen_repo = qwen_repo
    inferact_repo = inferact_repo
    Process = {p1, p2}
    Target <- MCViewTargets
    Repo <- MCRepos
    ModeOf <- MCModeOf
    RepoOf <- MCRepoOf
    SourceOf <- MCSourceOf
    Gated <- MCGated
    NoJob = NoJob
    MaxFailures = 1
INVARIANTS TypeOK PreparedIsServable BlockedOnlyByFault ConsentBeforeTransfer
PROPERTIES EventuallyPrepared
