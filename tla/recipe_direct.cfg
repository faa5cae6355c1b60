\* Direct targets only, as a user without any view has them.
SPECIFICATION Spec
CONSTANTS
    orca = orca
    orca_mtp = orca_mtp
    radix = radix
    inferact = inferact
    orca_repo = orca_repo
    radix_repo = radix_repo
    qwen_repo = qwen_repo
    inferact_repo = inferact_repo
    Process = {p1}
    Target <- MCDirectTargets
    Repo <- MCDirectRepos
    ModeOf <- MCModeOf
    RepoOf <- MCRepoOf
    SourceOf <- MCSourceOf
    Gated <- MCGated
    NoJob = NoJob
    MaxFailures = 0
INVARIANTS PreparedIsServable
