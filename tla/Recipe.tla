-------------------------------- MODULE Recipe ---------------------------------
(***************************************************************************)
(* The commands of the recipe (src/recipe/cli.py) over one Hugging Face    *)
(* cache: download, prepare, audit and serve, run at any time by any       *)
(* number of processes, for targets that share repositories.               *)
(*                                                                         *)
(* download_target (src/recipe/download.py) fetches a target in steps, any *)
(* of which may fail half way; the view a target may need is built last    *)
(* (ViewBuilder has that procedure in full; here it is a lookup, the       *)
(* making of its directory, and its publication or failure).               *)
(* audit_checkpoint (src/recipe/audit.py) is what prepare, audit and serve *)
(* have in common: it refuses a checkpoint with a hole in it, and one      *)
(* whose files are not under roots that its caller approves.               *)
(***************************************************************************)
EXTENDS Naturals, FiniteSets

CONSTANTS
    Process,       \* invocations of the command line
    Target,        \* target aliases of the manifest
    Repo,          \* repositories, each at its pinned revision
    ModeOf,        \* target -> "direct_bf16", "hybrid_bf16" or "mtp_overlay"
    RepoOf,        \* target -> the repository of the target itself
    SourceOf,      \* target -> the repository of its PLE or MTP source
    Gated,         \* the targets with requires_auth
    NoJob,         \* what a process runs that runs nothing
    MaxFailures    \* bound on failed transfers and broken builds

(* What is fetched from a repository: config.json, the index, the shards   *)
(* that hold what a view takes from it as a source, and all the rest.      *)
File == {"config", "index", "source_shards", "rest"}

Root == {"cache", "recipe-views"}

Command == {"download", "prepare", "audit", "serve"}
Job == [command : Command, target : Target]

ASSUME TargetsAssumption ==
    /\ ModeOf \in [Target -> {"direct_bf16", "hybrid_bf16", "mtp_overlay"}]
    /\ RepoOf \in [Target -> Repo]
    /\ SourceOf \in [Target -> Repo]
    /\ Gated \subseteq Target
ASSUME FailuresAssumption == MaxFailures \in Nat
ASSUME JobAssumption == NoJob \notin Job

VARIABLES
    roots,         \* the directories of Root that exist
    files,         \* repository -> what its snapshot holds
    building,      \* the targets whose view has a building directory
    ready,         \* the targets whose view is published
    granted,       \* the repositories whose conditions were accepted
    space,         \* the disk has minimum_free_bytes left
    pc,            \* where each process is
    job,           \* the command it runs and the target it runs it for
    prepared,      \* the targets some prepare command has reported ready
    broken,        \* the targets whose build died or met an I/O error, not cleaned up
    failures       \* failures so far

disk == <<roots, files, building, ready>>
world == <<granted, space>>
vars == <<disk, world, pc, job, prepared, broken, failures>>

Ended == {"done", "failed"}
Location == {"idle", "space", "probe", "target", "index", "shards", "build", "mkdir",
             "publish", "audit", "serve"}

HasView(t) == ModeOf[t] # "direct_bf16"

(* What a view links to or copies from its source.                         *)
SourceFiles == {"index", "source_shards"}
--------------------------------------------------------------------------------
(* Faulty: the view's own directory is not approved.                       *)
ApprovedRootsCache(t) == {"cache"}

(* _approved_roots: the roots the prepare and audit commands approve.      *)
ApprovedRoots(t) == IF HasView(t) THEN Root ELSE {"cache"}

(* Faulty: serve approves the cache and nothing else.                      *)
ServeRootsCache(t) == {"cache"}

(* The roots the serve command approves, whatever the target's mode.       *)
ServeRoots(t) == Root

(* Where the files behind the index of a target really are: the overlay's  *)
(* compact shard is in the view, everything else in the cache.             *)
Holding(t) == IF ModeOf[t] = "mtp_overlay" THEN Root ELSE {"cache"}

(* local_target_path exists.                                               *)
ModelDir(t) == IF HasView(t) THEN t \in ready ELSE files[RepoOf[t]] # {}

(* Every shard the index names can be opened and has its header.           *)
NoHoles(t) ==
    /\ files[RepoOf[t]] = File
    /\ ModeOf[t] = "hybrid_bf16" => SourceFiles \subseteq files[SourceOf[t]]

(* audit_checkpoint: every approved root must exist, whether or not the    *)
(* checkpoint has anything there.                                          *)
Accepts(t, approved) ==
    /\ ModelDir(t)
    /\ approved \subseteq roots
    /\ NoHoles(t)
    /\ Holding(t) \subseteq approved
--------------------------------------------------------------------------------
Init ==
    /\ roots = {}
    /\ files = [r \in Repo |-> {}]
    /\ building = {}
    /\ ready = {}
    /\ granted \in SUBSET {RepoOf[t] : t \in Gated}
    /\ space \in BOOLEAN
    /\ pc = [p \in Process |-> "idle"]
    /\ job = [p \in Process |-> NoJob]
    /\ prepared = {}
    /\ broken = {}
    /\ failures = 0

(* A process goes on, or exits and is as good as new.                      *)
Goto(p, label) ==
    /\ pc' = [pc EXCEPT ![p] = IF label \in Ended THEN "idle" ELSE label]
    /\ job' = IF label \in Ended THEN [job EXCEPT ![p] = NoJob] ELSE job

(* main: parse the command and dispatch.                                   *)
Run(p, c, t) ==
    /\ pc[p] = "idle"
    /\ job' = [job EXCEPT ![p] = [command |-> c, target |-> t]]
    /\ pc' = [pc EXCEPT ![p] = CASE c \in {"download", "prepare"} -> "space"
                                 [] c = "audit" -> "audit"
                                 [] c = "serve" -> "serve"]
    /\ UNCHANGED <<disk, world, prepared, broken, failures>>

(* The cache directory is made, and enough free space asked for, on every  *)
(* run: also when nothing is left to fetch.                                *)
RequireSpace(p) ==
    /\ pc[p] = "space"
    /\ roots' = roots \cup {"cache"}
    /\ Goto(p, IF ~space THEN "failed"
               ELSE IF job[p].target \in Gated THEN "probe" ELSE "target")
    /\ UNCHANGED <<files, building, ready, world, prepared, broken, failures>>

(* One `hf download` of the wanted files.  When it fails it leaves some of *)
(* them behind and the command ends.  What arrives takes disk space.       *)
Fetch(p, repo, wanted, next) ==
    /\ \E got \in SUBSET wanted :
         /\ files' = [files EXCEPT ![repo] = @ \cup got]
         /\ IF got = wanted
            THEN Goto(p, next) /\ UNCHANGED failures
            ELSE /\ failures < MaxFailures
                 /\ failures' = failures + 1
                 /\ Goto(p, "failed")
    /\ space' \in IF files' = files THEN {space} ELSE {space, FALSE}
    /\ UNCHANGED <<roots, building, ready, granted, prepared, broken>>

(* Faulty: the transfer is tried without asking whether it is allowed.     *)
ProbeIgnored(p) ==
    /\ pc[p] = "probe"
    /\ Goto(p, "target")
    /\ UNCHANGED <<disk, world, prepared, broken, failures>>

(* A gated repository is asked for its config.json first.                  *)
Probe(p) ==
    /\ pc[p] = "probe"
    /\ IF RepoOf[job[p].target] \in granted
       THEN Fetch(p, RepoOf[job[p].target], {"config"}, "target")
       ELSE Goto(p, "failed") /\ UNCHANGED <<disk, world, prepared, broken, failures>>

(* prepare audits what download_target returns; download does not.         *)
Returned(p) == IF job[p].command = "prepare" THEN "audit" ELSE "done"

(* The whole of the target's own repository.                               *)
FetchTarget(p) ==
    /\ pc[p] = "target"
    /\ Fetch(p, RepoOf[job[p].target], File, IF HasView(job[p].target) THEN "index" ELSE Returned(p))

(* The source's index alone, which says what shards to ask for.            *)
FetchIndex(p) ==
    /\ pc[p] = "index"
    /\ Fetch(p, SourceOf[job[p].target], {"index"}, "shards")

(* Faulty: the source's shards are fetched with check=False.               *)
FetchShardsUnchecked(p) ==
    /\ pc[p] = "shards"
    /\ \E got \in SUBSET {"source_shards"} :
         files' = [files EXCEPT ![SourceOf[job[p].target]] = @ \cup got]
    /\ Goto(p, "build")
    /\ UNCHANGED <<roots, building, ready, world, prepared, broken, failures>>

(* The shards that the index names for this target.                        *)
FetchShards(p) ==
    /\ pc[p] = "shards"
    /\ Fetch(p, SourceOf[job[p].target], {"source_shards"}, "build")

(* An overlay hashes the source shards first, so it gets no further        *)
(* without them.  A published view is used again.                          *)
LookUp(p) ==
    /\ pc[p] = "build"
    /\ LET t == job[p].target
           unhashed == ModeOf[t] = "mtp_overlay" /\ ~(SourceFiles \subseteq files[SourceOf[t]])
       IN  Goto(p, IF unhashed THEN "failed" ELSE IF t \in ready THEN Returned(p) ELSE "mkdir")
    /\ UNCHANGED <<disk, world, prepared, broken, failures>>

(* Faulty: the building directory is named after the repository.           *)
MakeDirectoryByRepo(p) ==
    /\ pc[p] = "mkdir"
    /\ roots' = roots \cup {"recipe-views"}
    /\ building' = building \cup {RepoOf[job[p].target]}
    /\ Goto(p, "publish")
    /\ UNCHANGED <<files, ready, world, prepared, broken, failures>>

(* recipe-views is made, and a building directory unless there is one.  By *)
(* now another process may have published the view it looked up.           *)
MakeDirectory(p) ==
    /\ pc[p] = "mkdir"
    /\ roots' = roots \cup {"recipe-views"}
    /\ building' = building \cup {job[p].target}
    /\ Goto(p, IF job[p].target \in building THEN "failed" ELSE "publish")
    /\ UNCHANGED <<files, ready, world, prepared, broken, failures>>

(* The view is written, audited and renamed, unless one has appeared.  A   *)
(* build that does not come to the rename leaves its directory.            *)
Publish(p) ==
    /\ pc[p] = "publish"
    /\ LET t == job[p].target IN
         IF t \notin ready /\ NoHoles(t)
         THEN /\ ready' = ready \cup {t}
              /\ building' = building \ {t}
              /\ Goto(p, Returned(p))
         ELSE Goto(p, "failed") /\ UNCHANGED <<ready, building>>
    /\ UNCHANGED <<roots, files, world, prepared, broken, failures>>

(* audit_checkpoint with the roots of prepare and audit.                   *)
Audit(p) ==
    /\ pc[p] = "audit"
    /\ LET ok == Accepts(job[p].target, ApprovedRoots(job[p].target)) IN
         /\ Goto(p, IF ok THEN "done" ELSE "failed")
         /\ prepared' = IF ok /\ job[p].command = "prepare" THEN prepared \cup {job[p].target}
                        ELSE prepared
    /\ UNCHANGED <<disk, world, broken, failures>>

(* audit_checkpoint with the roots of serve; ServeContainer goes on there. *)
Serve(p) ==
    /\ pc[p] = "serve"
    /\ Goto(p, IF Accepts(job[p].target, ServeRoots(job[p].target)) THEN "done" ELSE "failed")
    /\ UNCHANGED <<disk, world, prepared, broken, failures>>
--------------------------------------------------------------------------------
(* A build dies, or stops on a link, a write or a rename that fails, and   *)
(* leaves its building directory either way.                               *)
Breaks(p) ==
    /\ pc[p] = "publish"
    /\ failures < MaxFailures
    /\ failures' = failures + 1
    /\ broken' = broken \cup {job[p].target}
    /\ Goto(p, "failed")
    /\ UNCHANGED <<disk, world, prepared>>

(* An operator deletes a building directory nobody is working in.          *)
RemoveStale(t) ==
    /\ t \in building
    /\ \A p \in Process : ~(pc[p] = "publish" /\ job[p].target = t)
    /\ building' = building \ {t}
    /\ broken' = broken \ {t}
    /\ UNCHANGED <<roots, files, ready, world, pc, job, prepared, failures>>

(* The user accepts the conditions of a gated repository.                  *)
Grant(r) ==
    /\ r \in {RepoOf[t] : t \in Gated} \ granted
    /\ granted' = granted \cup {r}
    /\ UNCHANGED <<disk, space, pc, job, prepared, broken, failures>>

(* The user frees disk space.                                              *)
FreeSpace ==
    /\ ~space
    /\ space' = TRUE
    /\ UNCHANGED <<disk, granted, pc, job, prepared, broken, failures>>
--------------------------------------------------------------------------------
Proceed(p) ==
    \/ RequireSpace(p) \/ Probe(p) \/ FetchTarget(p) \/ FetchIndex(p) \/ FetchShards(p)
    \/ LookUp(p) \/ MakeDirectory(p) \/ Publish(p) \/ Audit(p) \/ Serve(p)

Next ==
    \/ \E p \in Process, c \in Command, t \in Target : Run(p, c, t)
    \/ \E p \in Process : Proceed(p) \/ Breaks(p)
    \/ \E t \in Target : RemoveStale(t)
    \/ \E r \in Repo : Grant(r)
    \/ FreeSpace

Spec == Init /\ [][Next]_vars

(* The user does what the messages of the recipe ask for, keeps preparing  *)
(* each target, and removes a building directory nobody works in.          *)
TendedSpec ==
    /\ Spec
    /\ \A p \in Process : WF_vars(Proceed(p))
    /\ \A t \in Target : SF_vars(\E p \in Process : Run(p, "prepare", t))
    /\ \A t \in Target : SF_vars(RemoveStale(t))
    /\ WF_vars(\E r \in Repo : Grant(r))
    /\ WF_vars(FreeSpace)
--------------------------------------------------------------------------------
(* Types and ranges of the state.                                          *)
TypeOK ==
    /\ roots \subseteq Root
    /\ files \in [Repo -> SUBSET File]
    /\ building \subseteq Target
    /\ ready \subseteq Target
    /\ granted \subseteq Repo
    /\ space \in BOOLEAN
    /\ pc \in [Process -> Location]
    /\ job \in [Process -> Job \cup {NoJob}]
    /\ prepared \subseteq Target
    /\ broken \subseteq Target
    /\ failures \in 0..MaxFailures

(* serve accepts whatever prepare has reported ready: the two audits of    *)
(* one checkpoint by two commands agree.                                   *)
PreparedIsServable == \A t \in prepared : Accepts(t, ServeRoots(t))

(* Processes that contend for a view, and transfers that stop half way,    *)
(* never block it: a building directory that nobody works in, without a    *)
(* view beside it, is what a build left that died or met an I/O error.     *)
(* The loser of a race may leave one too, but only beside the view it lost *)
(* to, where the lookup never comes to it.                                 *)
BlockedOnlyByFault ==
    \A t \in building \ ready :
        t \in broken \/ \E p \in Process : pc[p] = "publish" /\ job[p].target = t

(* docs/HOW-IT-WORKS.md: "Gated Hugging Face access is checked with a      *)
(* small file before the full transfer."  No process comes to the full     *)
(* transfer of a gated target whose conditions were not accepted.          *)
ConsentBeforeTransfer ==
    \A p \in Process : pc[p] = "target" /\ job[p].target \in Gated => RepoOf[job[p].target] \in granted

(* Once transfers stop failing, a tended recipe prepares every target.     *)
EventuallyPrepared == \A t \in Target : <>(t \in prepared)
================================================================================
