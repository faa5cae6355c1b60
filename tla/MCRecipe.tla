-------------------------------- MODULE MCRecipe -------------------------------
(***************************************************************************)
(* The targets of compatibility.json for TLC: `orca` is gated and direct,  *)
(* `orca_mtp` overlays the same snapshot with shards of the repository     *)
(* that `radix` serves as a hybrid with the PLE of a third one.            *)
(***************************************************************************)
EXTENDS Recipe, TLC

CONSTANTS orca, orca_mtp, radix, inferact,      \* targets
          orca_repo, radix_repo, qwen_repo, inferact_repo

MCViewTargets == {orca_mtp, radix}
MCDirectTargets == {orca, inferact}

MCRepos == {orca_repo, radix_repo, qwen_repo}
MCDirectRepos == {orca_repo, inferact_repo}

MCModeOf == [t \in Target |->
    IF t = orca_mtp THEN "mtp_overlay" ELSE IF t = radix THEN "hybrid_bf16" ELSE "direct_bf16"]
MCRepoOf == [t \in Target |->
    IF t = radix THEN radix_repo ELSE IF t = inferact THEN inferact_repo ELSE orca_repo]
MCSourceOf == [t \in Target |->
    IF t = orca_mtp THEN radix_repo ELSE IF t = radix THEN qwen_repo ELSE MCRepoOf[t]]
MCGated == Target \cap {orca, orca_mtp}
================================================================================
