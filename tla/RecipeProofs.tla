----------------------------- MODULE RecipeProofs ------------------------------
(***************************************************************************)
(* The safety properties of Recipe for any number of processes, targets    *)
(* and failures.                                                           *)
(***************************************************************************)
EXTENDS Recipe, TLAPS

(* The repositories of a target.                                           *)
LEMMA Repos == \A t \in Target : RepoOf[t] \in Repo /\ SourceOf[t] \in Repo
BY TargetsAssumption

(* A process that is not idle has a job.                                   *)
Busy == \A p \in Process : pc[p] # "idle" => job[p] \in Job

LEMMA GotoType ==
    ASSUME TypeOK, Busy, NEW p \in Process, NEW l \in Location \cup Ended, Goto(p, l),
           pc[p] # "idle"
    PROVE  /\ pc' \in [Process -> Location]
           /\ job' \in [Process -> Job \cup {NoJob}]
           /\ Busy'
           /\ pc'[p] = IF l \in Ended THEN "idle" ELSE l
           /\ l \notin Ended => job'[p] = job[p]
           /\ \A q \in Process \ {p} : pc'[q] = pc[q] /\ job'[q] = job[q]
<1>1. pc' = [pc EXCEPT ![p] = IF l \in Ended THEN "idle" ELSE l]
  BY DEF Goto
<1>2. job' = IF l \in Ended THEN [job EXCEPT ![p] = NoJob] ELSE job
  BY DEF Goto
<1>3. pc \in [Process -> Location] /\ job \in [Process -> Job \cup {NoJob}]
  BY DEF TypeOK
<1>4. (IF l \in Ended THEN "idle" ELSE l) \in Location
  BY DEF Location
<1>5. pc' \in [Process -> Location] /\ pc'[p] = (IF l \in Ended THEN "idle" ELSE l)
  BY <1>1, <1>3, <1>4
<1>6. job' \in [Process -> Job \cup {NoJob}] /\ (l \notin Ended => job'[p] = job[p])
  BY <1>2, <1>3
<1>7. \A q \in Process \ {p} : pc'[q] = pc[q] /\ job'[q] = job[q]
  BY <1>1, <1>2, <1>3
<1>8. Busy'
  BY <1>5, <1>6, <1>7 DEF Busy
<1> QED
  BY <1>5, <1>6, <1>7, <1>8

(* A transfer leaves files, and the process goes on or ends.               *)
LEMMA FetchType ==
    ASSUME TypeOK, Busy, NEW p \in Process, NEW repo \in Repo, NEW wanted \in SUBSET File,
           NEW next \in Location \cup Ended, Fetch(p, repo, wanted, next), pc[p] # "idle"
    PROVE  /\ TypeOK' /\ Busy'
           /\ \A r \in Repo : files[r] \subseteq files'[r]
           /\ pc'[p] \notin {"idle"} \cup Ended =>
                 pc'[p] = next /\ job'[p] = job[p] /\ wanted \subseteq files'[repo]
           /\ \A q \in Process \ {p} : pc'[q] = pc[q] /\ job'[q] = job[q]
           /\ UNCHANGED <<roots, building, ready, granted, prepared, broken>>
<1>1. PICK got \in SUBSET wanted :
        /\ files' = [files EXCEPT ![repo] = @ \cup got]
        /\ IF got = wanted
           THEN Goto(p, next) /\ UNCHANGED failures
           ELSE /\ failures < MaxFailures
                /\ failures' = failures + 1
                /\ Goto(p, "failed")
  BY DEF Fetch
<1>2. files' \in [Repo -> SUBSET File] /\ \A r \in Repo : files[r] \subseteq files'[r]
  BY <1>1 DEF TypeOK
<1>3. UNCHANGED <<roots, building, ready, granted, prepared, broken>> /\ space' \in BOOLEAN
  BY DEF Fetch, TypeOK
<1>4. "failed" \in Ended
  BY DEF Ended
<1>5. CASE got = wanted
  <2>1. /\ pc' \in [Process -> Location] /\ job' \in [Process -> Job \cup {NoJob}] /\ Busy'
        /\ pc'[p] = (IF next \in Ended THEN "idle" ELSE next)
        /\ next \notin Ended => job'[p] = job[p]
        /\ \A q \in Process \ {p} : pc'[q] = pc[q] /\ job'[q] = job[q]
    BY <1>1, <1>5, GotoType
  <2>2. wanted \subseteq files'[repo]
    BY <1>1, <1>5 DEF TypeOK
  <2>3. failures' = failures
    BY <1>1, <1>5
  <2>4. TypeOK'
    BY <1>2, <1>3, <2>1, <2>3 DEF TypeOK
  <2> QED
    BY <1>2, <1>3, <2>1, <2>2, <2>4
<1>6. CASE got # wanted
  <2>1. /\ pc' \in [Process -> Location] /\ job' \in [Process -> Job \cup {NoJob}] /\ Busy'
        /\ pc'[p] = "idle"
        /\ \A q \in Process \ {p} : pc'[q] = pc[q] /\ job'[q] = job[q]
    BY <1>1, <1>4, <1>6, GotoType
  <2>2. failures' \in 0 .. MaxFailures
    BY <1>1, <1>6, FailuresAssumption DEF TypeOK
  <2>3. TypeOK'
    BY <1>2, <1>3, <2>1, <2>2 DEF TypeOK
  <2> QED
    BY <1>2, <1>3, <2>1, <2>3
<1> QED
  BY <1>5, <1>6

LEMMA BusyTarget ==
    ASSUME Busy, NEW p \in Process, pc[p] # "idle"
    PROVE  /\ job[p].target \in Target /\ job[p].command \in Command
           /\ RepoOf[job[p].target] \in Repo /\ SourceOf[job[p].target] \in Repo
           /\ Returned(p) \in Location \cup Ended
BY Repos DEF Busy, Job, Returned, Location, Ended

LEMMA TypeInit == Init => TypeOK /\ Busy
<1> SUFFICES ASSUME Init PROVE TypeOK /\ Busy
  OBVIOUS
<1>1. granted \subseteq Repo
  BY TargetsAssumption DEF Init
<1> QED
  BY <1>1, FailuresAssumption DEF Init, TypeOK, Busy, Location

(* What every step of a process is made of: it moves itself alone.         *)
LEMMA TypeStep == TypeOK /\ Busy /\ [Next]_vars => TypeOK' /\ Busy'
<1> SUFFICES ASSUME TypeOK, Busy, [Next]_vars PROVE TypeOK' /\ Busy'
  OBVIOUS
<1>1. ASSUME NEW p \in Process, NEW c \in Command, NEW t \in Target, Run(p, c, t)
      PROVE  TypeOK' /\ Busy'
  <2>1. [command |-> c, target |-> t] \in Job
    BY DEF Job
  <2>2. /\ job' = [job EXCEPT ![p] = [command |-> c, target |-> t]]
        /\ pc' = [pc EXCEPT ![p] = CASE c \in {"download", "prepare"} -> "space"
                                     [] c = "audit" -> "audit"
                                     [] c = "serve" -> "serve"]
        /\ UNCHANGED <<disk, world, prepared, broken, failures>>
    BY <1>1 DEF Run
  <2>3. pc'[p] \in Location /\ pc' \in [Process -> Location]
    BY <2>2 DEF TypeOK, Command, Location
  <2>4. job' \in [Process -> Job \cup {NoJob}]
    BY <2>1, <2>2 DEF TypeOK
  <2>5. Busy'
    BY <2>1, <2>2 DEF Busy, TypeOK
  <2> QED
    BY <2>2, <2>3, <2>4, <2>5 DEF TypeOK, disk, world
<1>2. ASSUME NEW p \in Process, RequireSpace(p)
      PROVE  TypeOK' /\ Busy'
  <2>1. PICK l \in {"failed", "probe", "target"} : Goto(p, l)
    BY <1>2 DEF RequireSpace
  <2>2. pc' \in [Process -> Location] /\ job' \in [Process -> Job \cup {NoJob}] /\ Busy'
    BY <1>2, <2>1, GotoType DEF RequireSpace, Location, Ended
  <2> QED
    BY <1>2, <2>2 DEF RequireSpace, TypeOK, Root, world
<1>3. ASSUME NEW p \in Process, Probe(p)
      PROVE  TypeOK' /\ Busy'
  <2>1. pc[p] # "idle"
    BY <1>3 DEF Probe
  <2>2. CASE RepoOf[job[p].target] \in granted
    BY <1>3, <2>1, <2>2, BusyTarget, FetchType DEF Probe, File, Location
  <2>3. CASE RepoOf[job[p].target] \notin granted
    <3>1. Goto(p, "failed") /\ UNCHANGED <<disk, world, prepared, broken, failures>>
      BY <1>3, <2>3 DEF Probe
    <3>2. pc' \in [Process -> Location] /\ job' \in [Process -> Job \cup {NoJob}] /\ Busy'
      BY <2>1, <3>1, GotoType DEF Ended
    <3> QED
      BY <3>1, <3>2 DEF TypeOK, disk, world
  <2> QED
    BY <2>2, <2>3
<1>4. ASSUME NEW p \in Process, FetchTarget(p)
      PROVE  TypeOK' /\ Busy'
  <2>1. pc[p] # "idle"
    BY <1>4 DEF FetchTarget
  <2> QED
    BY <1>4, <2>1, BusyTarget, FetchType DEF FetchTarget, Location
<1>5. ASSUME NEW p \in Process, FetchIndex(p) \/ FetchShards(p)
      PROVE  TypeOK' /\ Busy'
  <2>1. pc[p] # "idle"
    BY <1>5 DEF FetchIndex, FetchShards
  <2> QED
    BY <1>5, <2>1, BusyTarget, FetchType DEF FetchIndex, FetchShards, File, Location
<1>6. ASSUME NEW p \in Process, LookUp(p) \/ MakeDirectory(p)
      PROVE  TypeOK' /\ Busy'
  <2>1. pc[p] # "idle"
    BY <1>6 DEF LookUp, MakeDirectory
  <2>2. \E l \in {"failed", Returned(p), "mkdir", "publish"} : Goto(p, l)
    <3>1. CASE LookUp(p)
      BY <3>1 DEF LookUp
    <3>2. CASE MakeDirectory(p)
      BY <3>2 DEF MakeDirectory
    <3> QED
      BY <1>6, <3>1, <3>2
  <2>3. roots' \subseteq Root /\ building' \subseteq Target
    BY <1>6, <2>1, BusyTarget DEF LookUp, MakeDirectory, disk, TypeOK, Root
  <2>4. pc' \in [Process -> Location] /\ job' \in [Process -> Job \cup {NoJob}] /\ Busy'
    BY <2>1, <2>2, BusyTarget, GotoType DEF Location, Ended
  <2> QED
    BY <1>6, <2>3, <2>4 DEF LookUp, MakeDirectory, disk, TypeOK, world
<1>7. ASSUME NEW p \in Process, Publish(p)
      PROVE  TypeOK' /\ Busy'
  <2>1. pc[p] # "idle"
    BY <1>7 DEF Publish
  <2>2. \E l \in {"failed", Returned(p)} : Goto(p, l)
    BY <1>7 DEF Publish
  <2>3. ready' \subseteq Target /\ building' \subseteq Target
    BY <1>7, <2>1, BusyTarget DEF Publish, TypeOK
  <2>4. pc' \in [Process -> Location] /\ job' \in [Process -> Job \cup {NoJob}] /\ Busy'
    BY <2>1, <2>2, BusyTarget, GotoType DEF Location, Ended
  <2> QED
    BY <1>7, <2>3, <2>4 DEF Publish, TypeOK, world
<1>8. ASSUME NEW p \in Process, Audit(p)
      PROVE  TypeOK' /\ Busy'
  <2>1. pc[p] # "idle"
    BY <1>8 DEF Audit
  <2>2. \E l \in Ended : Goto(p, l)
    BY <1>8 DEF Audit, Ended
  <2>3. prepared' \subseteq Target
    BY <1>8, <2>1, BusyTarget DEF Audit, TypeOK
  <2>4. pc' \in [Process -> Location] /\ job' \in [Process -> Job \cup {NoJob}] /\ Busy'
    BY <2>1, <2>2, GotoType
  <2> QED
    BY <1>8, <2>3, <2>4 DEF Audit, TypeOK, disk, world
<1>9. ASSUME NEW p \in Process, Serve(p)
      PROVE  TypeOK' /\ Busy'
  <2>1. pc[p] # "idle"
    BY <1>9 DEF Serve
  <2>2. \E l \in Ended : Goto(p, l)
    BY <1>9 DEF Serve, Ended
  <2>3. pc' \in [Process -> Location] /\ job' \in [Process -> Job \cup {NoJob}] /\ Busy'
    BY <2>1, <2>2, GotoType
  <2> QED
    BY <1>9, <2>3 DEF Serve, TypeOK, disk, world
<1>10. ASSUME NEW p \in Process, Breaks(p)
      PROVE  TypeOK' /\ Busy'
  <2>1. pc[p] # "idle"
    BY <1>10 DEF Breaks
  <2>2. Goto(p, "failed") /\ "failed" \in Ended
    BY <1>10 DEF Breaks, Ended
  <2>3. broken' \subseteq Target /\ failures' \in 0 .. MaxFailures
    BY <1>10, <2>1, BusyTarget, FailuresAssumption DEF Breaks, TypeOK
  <2>4. pc' \in [Process -> Location] /\ job' \in [Process -> Job \cup {NoJob}] /\ Busy'
    BY <2>1, <2>2, GotoType
  <2> QED
    BY <1>10, <2>3, <2>4 DEF Breaks, TypeOK, disk, world
<1>11. ASSUME NEW t \in Target, RemoveStale(t)
      PROVE  TypeOK' /\ Busy'
  BY <1>11 DEF RemoveStale, TypeOK, Busy, world
<1>12. ASSUME NEW r \in Repo, Grant(r)
      PROVE  TypeOK' /\ Busy'
  BY <1>12 DEF Grant, TypeOK, Busy, disk
<1>13. CASE FreeSpace
  BY <1>13 DEF FreeSpace, TypeOK, Busy, disk
<1>14. CASE UNCHANGED vars
  BY <1>14 DEF vars, TypeOK, Busy, disk, world
<1> QED
  BY <1>1, <1>2, <1>3, <1>4, <1>5, <1>6, <1>7, <1>8, <1>9, <1>10, <1>11, <1>12,
     <1>13, <1>14 DEF Next, Proceed

(* Types and ranges of the state (TypeOK).                                 *)
THEOREM RecipeTypeCorrect == Spec => []TypeOK
BY TypeInit, TypeStep, PTL DEF Spec

LEMMA BusyHolds == Spec => [](TypeOK /\ Busy)
BY TypeInit, TypeStep, PTL DEF Spec
--------------------------------------------------------------------------------
(* Nothing that is in the cache, is published or is consented to goes away.*)
Grows ==
    /\ roots \subseteq roots'
    /\ \A r \in Repo : files[r] \subseteq files'[r]
    /\ ready \subseteq ready'
    /\ granted \subseteq granted'

LEMMA Growth == TypeOK /\ Busy /\ [Next]_vars => Grows
<1> SUFFICES ASSUME TypeOK, Busy, [Next]_vars PROVE Grows
  OBVIOUS
<1>1. ASSUME NEW p \in Process, Probe(p) \/ FetchTarget(p) \/ FetchIndex(p) \/ FetchShards(p)
      PROVE  Grows
  <2>1. pc[p] # "idle"
    BY <1>1 DEF Probe, FetchTarget, FetchIndex, FetchShards
  <2>2. CASE Probe(p) /\ RepoOf[job[p].target] \notin granted
    BY <2>2 DEF Probe, disk, world, Grows
  <2>3. CASE \/ Probe(p) /\ RepoOf[job[p].target] \in granted
             \/ FetchTarget(p) \/ FetchIndex(p) \/ FetchShards(p)
    <3>1. \E repo \in Repo, wanted \in SUBSET File, l \in Location \cup Ended :
            Fetch(p, repo, wanted, l)
      BY <2>1, <2>3, BusyTarget
         DEF Probe, FetchTarget, FetchIndex, FetchShards, File, Location
    <3> QED
      BY <2>1, <3>1, FetchType DEF Grows
  <2> QED
    BY <1>1, <2>2, <2>3
<1>2. ASSUME NEW p \in Process, LookUp(p) \/ MakeDirectory(p) \/ Publish(p)
      PROVE  Grows
  <2>1. UNCHANGED <<files, granted>>
    BY <1>2 DEF LookUp, MakeDirectory, Publish, world, disk
  <2>2. roots \subseteq roots'
    BY <1>2 DEF LookUp, MakeDirectory, Publish, disk
  <2>3. ready \subseteq ready'
    BY <1>2 DEF LookUp, MakeDirectory, Publish, disk
  <2> QED
    BY <2>1, <2>2, <2>3 DEF Grows
<1>3. ASSUME NEW p \in Process, RequireSpace(p) \/ Audit(p) \/ Serve(p) \/ Breaks(p)
      PROVE  Grows
  BY <1>3 DEF RequireSpace, Audit, Serve, Breaks, disk, world, Grows
<1>4. ASSUME NEW p \in Process, NEW c \in Command, NEW t \in Target, Run(p, c, t)
      PROVE  Grows
  BY <1>4 DEF Run, disk, world, Grows
<1>5. CASE \/ \E t \in Target : RemoveStale(t)
           \/ \E r \in Repo : Grant(r)
           \/ FreeSpace \/ UNCHANGED vars
  BY <1>5 DEF RemoveStale, Grant, FreeSpace, vars, disk, world, Grows
<1> QED
  BY <1>1, <1>2, <1>3, <1>4, <1>5 DEF Next, Proceed

LEMMA NoHolesStays ==
    ASSUME TypeOK, TypeOK', Grows, NEW t \in Target, NoHoles(t)
    PROVE  NoHoles(t)'
<1>1. RepoOf[t] \in Repo /\ SourceOf[t] \in Repo
  BY Repos
<1>2. files'[RepoOf[t]] = File
  <2>1. files[RepoOf[t]] = File
    BY DEF NoHoles
  <2>2. files[RepoOf[t]] \subseteq files'[RepoOf[t]]
    BY <1>1 DEF Grows
  <2>3. files'[RepoOf[t]] \subseteq File
    <3>1. files' \in [Repo -> SUBSET File]
      BY DEF TypeOK
    <3> QED
      BY <1>1, <3>1
  <2> QED
    BY <2>1, <2>2, <2>3
<1>3. ModeOf[t] = "hybrid_bf16" => SourceFiles \subseteq files'[SourceOf[t]]
  BY <1>1 DEF NoHoles, Grows
<1> QED
  BY <1>2, <1>3 DEF NoHoles

LEMMA AcceptsStays ==
    ASSUME TypeOK, TypeOK', Grows, NEW t \in Target, NEW approved, Accepts(t, approved)
    PROVE  Accepts(t, approved)'
<1>1. ModelDir(t)'
  <2>1. RepoOf[t] \in Repo
    BY Repos
  <2> QED
    BY <2>1 DEF Accepts, ModelDir, Grows, HasView
<1>2. NoHoles(t)'
  BY NoHolesStays DEF Accepts
<1>3. approved \subseteq roots' /\ Holding(t) \subseteq approved
  BY DEF Accepts, Grows
<1> QED
  BY <1>1, <1>2, <1>3 DEF Accepts, Holding

(* Where every target has a view, serve accepts what prepare reported      *)
(* ready, ever after (PreparedIsServable).  The run recipe_direct shows    *)
(* what a target without a view does.                                      *)
THEOREM PreparedStaysServable ==
    ASSUME \A t \in Target : HasView(t)
    PROVE  Spec => []PreparedIsServable
<1>1. Init => PreparedIsServable
  BY DEF Init, PreparedIsServable
<1>2. TypeOK /\ Busy /\ PreparedIsServable /\ [Next]_vars => PreparedIsServable'
  <2> SUFFICES ASSUME TypeOK, Busy, PreparedIsServable, [Next]_vars,
                      NEW t \in prepared'
               PROVE  Accepts(t, ServeRoots(t))'
    BY DEF PreparedIsServable, ServeRoots
  <2>1. TypeOK' /\ Grows
    BY TypeStep, Growth
  <2>2. t \in Target
    BY <2>1 DEF TypeOK
  <2>3. CASE t \in prepared
    <3>1. Accepts(t, Root)
      BY <2>3 DEF PreparedIsServable, ServeRoots
    <3>2. Accepts(t, Root)'
      BY <2>1, <2>2, <3>1, AcceptsStays
    <3> QED
      BY <3>2 DEF ServeRoots
  <2>4. CASE t \notin prepared
    <3>1. PICK p \in Process : Audit(p)
      BY <2>4 DEF Next, vars, Proceed, Run, RequireSpace, Probe, Fetch, FetchTarget,
         FetchIndex, FetchShards, LookUp, MakeDirectory, Publish, Serve, Breaks,
         RemoveStale, Grant, FreeSpace
    <3>2. Accepts(t, ApprovedRoots(t))
      BY <2>4, <3>1 DEF Audit
    <3>3. Accepts(t, Root)
      BY <2>2, <3>2 DEF ApprovedRoots
    <3>4. Accepts(t, Root)'
      BY <2>1, <2>2, <3>3, AcceptsStays
    <3> QED
      BY <3>4 DEF ServeRoots
  <2> QED
    BY <2>3, <2>4
<1> QED
  BY <1>1, <1>2, BusyHolds, PTL DEF Spec
--------------------------------------------------------------------------------
(* A step of a process moves that process alone, and it keeps its job for  *)
(* as long as it runs.                                                     *)
LEMMA MovesOne ==
    ASSUME TypeOK, Busy, NEW p \in Process, Proceed(p) \/ Breaks(p)
    PROVE  /\ pc[p] # "idle"
           /\ pc'[p] # "idle" => job'[p] = job[p]
           /\ \A q \in Process \ {p} : pc'[q] = pc[q] /\ job'[q] = job[q]
<1>1. pc[p] # "idle"
  BY DEF Proceed, RequireSpace, Probe, FetchTarget, FetchIndex, FetchShards, LookUp,
     MakeDirectory, Publish, Audit, Serve, Breaks
<1>2. \E l : Goto(p, l)
  BY DEF Proceed, RequireSpace, Probe, Fetch, FetchTarget, FetchIndex, FetchShards,
     LookUp, MakeDirectory, Publish, Audit, Serve, Breaks
<1>3. pc \in [Process -> Location] /\ job \in [Process -> Job \cup {NoJob}]
  BY DEF TypeOK
<1> QED
  BY <1>1, <1>2, <1>3 DEF Goto

(* How a process comes to each of the labels the properties are about.     *)
LEMMA Arrivals ==
    ASSUME TypeOK, Busy, NEW p \in Process, Proceed(p) \/ Breaks(p)
    PROVE  /\ pc'[p] = "target" => RequireSpace(p) \/ Probe(p)
           /\ pc'[p] = "index" => FetchTarget(p)
           /\ pc'[p] = "shards" => FetchIndex(p)
           /\ pc'[p] = "build" => FetchShards(p)
           /\ pc'[p] = "mkdir" => LookUp(p)
           /\ pc'[p] = "publish" => MakeDirectory(p)
<1>1. pc \in [Process -> Location] /\ pc[p] # "idle"
  BY MovesOne DEF TypeOK
<1>2. CASE RequireSpace(p)
  <2>1. PICK l \in {"failed", "probe", "target"} : Goto(p, l)
    BY <1>2 DEF RequireSpace
  <2> QED
    BY <1>1, <1>2, <2>1 DEF Goto, Ended
<1>3. CASE Probe(p)
  <2>1. \E l \in {"failed", "target"} : Goto(p, l)
    BY <1>3 DEF Probe, Fetch
  <2> QED
    BY <1>1, <1>3, <2>1 DEF Goto, Ended
<1>4. CASE FetchTarget(p)
  <2>1. \E l \in {"failed", "index", "audit", "done"} : Goto(p, l)
    BY <1>4 DEF FetchTarget, Fetch, Returned
  <2> QED
    BY <1>1, <1>4, <2>1 DEF Goto, Ended
<1>5. CASE FetchIndex(p)
  <2>1. \E l \in {"failed", "shards"} : Goto(p, l)
    BY <1>5 DEF FetchIndex, Fetch
  <2> QED
    BY <1>1, <1>5, <2>1 DEF Goto, Ended
<1>6. CASE FetchShards(p)
  <2>1. \E l \in {"failed", "build"} : Goto(p, l)
    BY <1>6 DEF FetchShards, Fetch
  <2> QED
    BY <1>1, <1>6, <2>1 DEF Goto, Ended
<1>7. CASE LookUp(p)
  <2>1. \E l \in {"failed", "mkdir", "audit", "done"} : Goto(p, l)
    BY <1>7 DEF LookUp, Returned
  <2> QED
    BY <1>1, <1>7, <2>1 DEF Goto, Ended
<1>8. CASE Publish(p)
  <2>1. \E l \in {"failed", "audit", "done"} : Goto(p, l)
    BY <1>8 DEF Publish, Returned
  <2> QED
    BY <1>1, <1>8, <2>1 DEF Goto, Ended
<1>10. CASE MakeDirectory(p)
  <2>1. \E l \in {"failed", "publish"} : Goto(p, l)
    BY <1>10 DEF MakeDirectory
  <2> QED
    BY <1>1, <1>10, <2>1 DEF Goto, Ended
<1>9. CASE Audit(p) \/ Serve(p) \/ Breaks(p)
  <2>1. \E l \in {"failed", "done"} : Goto(p, l)
    BY <1>9 DEF Audit, Serve, Breaks
  <2> QED
    BY <1>1, <1>9, <2>1 DEF Goto, Ended
<1> QED
  BY <1>2, <1>3, <1>4, <1>5, <1>6, <1>7, <1>8, <1>9, <1>10 DEF Proceed

(* A command starts at one of three labels, which say nothing yet.         *)
LEMMA Starts ==
    ASSUME TypeOK, NEW p \in Process, NEW c \in Command, NEW t \in Target, Run(p, c, t)
    PROVE  /\ pc[p] = "idle" /\ pc'[p] \in {"space", "audit", "serve"}
           /\ \A q \in Process \ {p} : pc'[q] = pc[q] /\ job'[q] = job[q]
           /\ UNCHANGED <<disk, world, prepared, broken>>
BY DEF Run, TypeOK, Command
--------------------------------------------------------------------------------
(* No process comes to the full transfer of a gated target whose           *)
(* conditions were not accepted (ConsentBeforeTransfer), for any number of *)
(* targets, processes and failures.                                        *)
THEOREM ConsentIsAsked == Spec => []ConsentBeforeTransfer
<1>1. Init => ConsentBeforeTransfer
  BY DEF Init, ConsentBeforeTransfer
<1>2. TypeOK /\ Busy /\ ConsentBeforeTransfer /\ [Next]_vars => ConsentBeforeTransfer'
  <2> SUFFICES ASSUME TypeOK, Busy, ConsentBeforeTransfer, [Next]_vars,
                      NEW q \in Process, pc'[q] = "target", job'[q].target \in Gated
               PROVE  RepoOf[job'[q].target] \in granted'
    BY DEF ConsentBeforeTransfer
  <2>1. granted \subseteq granted'
    BY Growth DEF Grows
  <2>2. CASE pc'[q] = pc[q] /\ job'[q] = job[q]
    BY <2>1, <2>2 DEF ConsentBeforeTransfer
  <2>3. ASSUME NEW p \in Process, Proceed(p) \/ Breaks(p)
        PROVE  RepoOf[job'[q].target] \in granted'
    <3>1. CASE q # p
      BY <2>2, <2>3, <3>1, MovesOne
    <3>2. CASE q = p
      <4>1. job'[p] = job[p] /\ (RequireSpace(p) \/ Probe(p))
        BY <2>3, <3>2, MovesOne, Arrivals
      <4>2. ~RequireSpace(p)
        <5> SUFFICES ASSUME RequireSpace(p) PROVE FALSE
          OBVIOUS
        <5>1. PICK l \in {"failed", "probe"} : Goto(p, l)
          BY <3>2, <4>1 DEF RequireSpace
        <5> QED
          BY <3>2, <5>1 DEF Goto, TypeOK, Ended
      <4>3. CASE RepoOf[job[p].target] \in granted
        BY <2>1, <3>2, <4>1, <4>3
      <4>4. CASE RepoOf[job[p].target] \notin granted
        <5>1. Goto(p, "failed")
          BY <4>1, <4>2, <4>4 DEF Probe
        <5> QED
          BY <3>2, <5>1 DEF Goto, TypeOK, Ended
      <4> QED
        BY <4>3, <4>4
    <3> QED
      BY <3>1, <3>2
  <2>4. ASSUME NEW p \in Process, NEW c \in Command, NEW t \in Target, Run(p, c, t)
        PROVE  RepoOf[job'[q].target] \in granted'
    BY <2>2, <2>4, Starts
  <2>5. CASE \/ \E t \in Target : RemoveStale(t)
             \/ \E r \in Repo : Grant(r)
             \/ FreeSpace \/ UNCHANGED vars
    BY <2>2, <2>5 DEF RemoveStale, Grant, FreeSpace, vars
  <2> QED
    BY <2>3, <2>4, <2>5 DEF Next
<1> QED
  BY <1>1, <1>2, BusyHolds, PTL DEF Spec
--------------------------------------------------------------------------------
(* What a command has fetched by the time it comes to a label.  Without    *)
(* it a build could find a hole, fail, and leave its directory.            *)
Fetched(p) ==
    LET t == job[p].target IN
        /\ pc[p] \in {"index", "shards", "build", "mkdir", "publish"} => files[RepoOf[t]] = File
        /\ pc[p] \in {"shards", "build", "mkdir", "publish"} => "index" \in files[SourceOf[t]]
        /\ pc[p] \in {"build", "mkdir", "publish"} => "source_shards" \in files[SourceOf[t]]

(* A building directory that a process builds in is there, and is its own. *)
Owns(p) == pc[p] = "publish" => job[p].target \in building

OneOwner ==
    \A p, q \in Process :
        pc[p] = "publish" /\ pc[q] = "publish" /\ job[p].target = job[q].target => p = q

BuildInv ==
    /\ \A p \in Process : Fetched(p) /\ Owns(p)
    /\ OneOwner
    /\ BlockedOnlyByFault

LEMMA FetchedStays ==
    ASSUME TypeOK, TypeOK', Busy, Grows, NEW q \in Process, Fetched(q),
           pc'[q] = pc[q] /\ job'[q] = job[q]
    PROVE  Fetched(q)'
<1>1. CASE pc[q] = "idle"
  BY <1>1 DEF Fetched
<1>2. CASE pc[q] # "idle"
  <2> DEFINE r == RepoOf[job[q].target]
             s == SourceOf[job[q].target]
  <2>1. r \in Repo /\ s \in Repo
    BY <1>2, BusyTarget
  <2>2. files[r] \subseteq files'[r] /\ files[s] \subseteq files'[s]
    BY <2>1 DEF Grows
  <2>3. files' \in [Repo -> SUBSET File]
    BY DEF TypeOK
  <2>4. files'[r] \subseteq File
    BY <2>1, <2>3
  <2>5. files[r] = File => files'[r] = File
    BY <2>2, <2>4
  <2> QED
    BY <2>2, <2>5 DEF Fetched
<1> QED
  BY <1>1, <1>2

(* The process that moves has fetched what its new label asks for.         *)
LEMMA FetchedMoves ==
    ASSUME TypeOK, TypeOK', Busy, Grows, NEW p \in Process, Fetched(p),
           Proceed(p) \/ Breaks(p)
    PROVE  Fetched(p)'
<1> SUFFICES ASSUME pc'[p] \in {"index", "shards", "build", "mkdir", "publish"}
             PROVE  Fetched(p)'
  BY DEF Fetched
<1>1. pc[p] # "idle" /\ job'[p] = job[p]
  BY MovesOne
<1> DEFINE r == RepoOf[job[p].target]
           s == SourceOf[job[p].target]
<1>2. r \in Repo /\ s \in Repo
  BY <1>1, BusyTarget
<1>3. files[r] \subseteq files'[r] /\ files[s] \subseteq files'[s]
  BY <1>2 DEF Grows
<1>4. files'[r] \subseteq File
  <2>1. files' \in [Repo -> SUBSET File]
    BY DEF TypeOK
  <2> QED
    BY <1>2, <2>1
<1>5. CASE pc'[p] = "index"
  <2>1. FetchTarget(p)
    BY <1>5, Arrivals
  <2>2. Fetch(p, r, File, IF HasView(job[p].target) THEN "index" ELSE Returned(p))
    BY <2>1 DEF FetchTarget
  <2>3. (IF HasView(job[p].target) THEN "index" ELSE Returned(p)) \in Location \cup Ended
    BY <1>1, BusyTarget DEF Location
  <2>4. File \subseteq files'[r]
    BY <1>1, <1>2, <1>5, <2>2, <2>3, FetchType DEF Ended
  <2> QED
    BY <1>1, <1>4, <1>5, <2>4 DEF Fetched
<1>6. CASE pc'[p] = "shards"
  <2>1. pc[p] = "index" /\ Fetch(p, s, {"index"}, "shards")
    BY <1>6, Arrivals DEF FetchIndex
  <2>2. {"index"} \subseteq files'[s]
    BY <1>1, <1>2, <1>6, <2>1, FetchType DEF Ended, File, Location
  <2>3. files[r] = File
    BY <2>1 DEF Fetched
  <2> QED
    BY <1>1, <1>3, <1>4, <1>6, <2>2, <2>3 DEF Fetched
<1>7. CASE pc'[p] = "build"
  <2>1. pc[p] = "shards" /\ Fetch(p, s, {"source_shards"}, "build")
    BY <1>7, Arrivals DEF FetchShards
  <2>2. {"source_shards"} \subseteq files'[s]
    BY <1>1, <1>2, <1>7, <2>1, FetchType DEF Ended, File, Location
  <2>3. files[r] = File /\ "index" \in files[s]
    BY <2>1 DEF Fetched
  <2> QED
    BY <1>1, <1>3, <1>4, <1>7, <2>2, <2>3 DEF Fetched
<1>8. CASE pc'[p] \in {"mkdir", "publish"}
  <2>1. pc[p] \in {"build", "mkdir"}
    BY <1>8, Arrivals DEF LookUp, MakeDirectory
  <2>2. files[r] = File /\ "index" \in files[s] /\ "source_shards" \in files[s]
    BY <2>1 DEF Fetched
  <2> QED
    BY <1>1, <1>3, <1>4, <1>8, <2>2 DEF Fetched
<1> QED
  BY <1>5, <1>6, <1>7, <1>8

(* A build whose files are there is published, unless the view is there.   *)
LEMMA PublishSucceeds ==
    ASSUME TypeOK, Busy, BuildInv, NEW p \in Process, Publish(p)
    PROVE  \/ /\ ready' = ready \cup {job[p].target}
              /\ building' = building \ {job[p].target}
           \/ job[p].target \in ready /\ UNCHANGED <<ready, building>>
<1>1. pc[p] = "publish"
  BY DEF Publish
<1>2. NoHoles(job[p].target)
  BY <1>1 DEF BuildInv, Fetched, NoHoles, SourceFiles
<1> QED
  BY <1>2 DEF Publish

(* Steps that make, publish or abandon a building directory.               *)
LEMMA BuildersMove ==
    ASSUME TypeOK, Busy, BuildInv, NEW p \in Process,
           MakeDirectory(p) \/ Publish(p) \/ Breaks(p)
    PROVE  (\A q \in Process : Owns(q)') /\ OneOwner' /\ BlockedOnlyByFault'
<1> DEFINE t == job[p].target
<1>1. /\ pc[p] # "idle" /\ (pc'[p] # "idle" => job'[p] = job[p])
      /\ \A q \in Process \ {p} : pc'[q] = pc[q] /\ job'[q] = job[q]
  BY MovesOne DEF Proceed
<1>2. CASE MakeDirectory(p)
  <2>1. ready' = ready /\ broken' = broken /\ pc[p] = "mkdir" /\ building' = building \cup {t}
    BY <1>2 DEF MakeDirectory
  <2>2. CASE t \notin building
    <3>1. pc'[p] = "publish" /\ job'[p] = job[p]
      BY <1>2, <2>2 DEF MakeDirectory, Goto, TypeOK, Ended
    <3>2. \A q \in Process : pc[q] = "publish" => job[q].target # t
      BY <2>2 DEF BuildInv, Owns
    <3>3. \A q \in Process : Owns(q)'
      BY <1>1, <2>1, <3>1 DEF BuildInv, Owns
    <3>4. OneOwner'
      BY <1>1, <3>1, <3>2 DEF BuildInv, OneOwner
    <3>5. BlockedOnlyByFault'
      BY <1>1, <2>1, <3>1 DEF BuildInv, BlockedOnlyByFault
    <3> QED
      BY <3>3, <3>4, <3>5
  <2>3. CASE t \in building
    <3>1. building' = building /\ pc'[p] # "publish"
      BY <1>2, <2>1, <2>3 DEF MakeDirectory, Goto, TypeOK, Ended
    <3>2. \A q \in Process : pc'[q] = "publish" => pc[q] = "publish" /\ job'[q] = job[q]
      BY <1>1, <3>1
    <3>3. \A q \in Process : pc[q] = "publish" => pc'[q] = "publish" /\ job'[q] = job[q]
      BY <1>1, <2>1
    <3> QED
      BY <2>1, <3>1, <3>2, <3>3 DEF BuildInv, Owns, OneOwner, BlockedOnlyByFault
  <2> QED
    BY <2>2, <2>3
<1>3. CASE Publish(p)
  <2>1. broken' = broken /\ pc[p] = "publish"
    BY <1>3 DEF Publish
  <2>2. pc'[p] # "publish"
    BY <1>3, <2>1, Arrivals DEF Proceed, MakeDirectory
  <2>3. \A q \in Process : pc'[q] = "publish" =>
           q # p /\ pc[q] = "publish" /\ job'[q] = job[q]
    BY <1>1, <2>2
  <2>4. \A q \in Process \ {p} : pc[q] = "publish" => job[q].target # t
    BY <2>1 DEF BuildInv, OneOwner
  <2>5. /\ ready \cup {t} = ready'
        /\ building \ {t} \subseteq building' /\ building' \subseteq building
    BY <1>3, PublishSucceeds
  <2>6. \A q \in Process : Owns(q)'
    BY <2>3, <2>4, <2>5 DEF BuildInv, Owns
  <2>7. OneOwner'
    BY <2>3 DEF BuildInv, OneOwner
  <2>8. BlockedOnlyByFault'
    <3> SUFFICES ASSUME NEW u \in building' \ ready', u \notin broken'
                 PROVE  \E q \in Process : pc'[q] = "publish" /\ job'[q].target = u
      BY DEF BlockedOnlyByFault
    <3>1. u \in building \ ready /\ u # t /\ u \notin broken
      BY <2>1, <2>5
    <3>2. PICK q \in Process : pc[q] = "publish" /\ job[q].target = u
      BY <3>1 DEF BuildInv, BlockedOnlyByFault
    <3> QED
      BY <1>1, <3>1, <3>2
  <2> QED
    BY <2>6, <2>7, <2>8
<1>4. CASE Breaks(p)
  <2>1. building' = building /\ ready' = ready /\ broken' = broken \cup {t}
    BY <1>4 DEF Breaks, disk
  <2>2. pc[p] = "publish" /\ pc'[p] # "publish"
    BY <1>4, Arrivals DEF Breaks, MakeDirectory
  <2>3. \A q \in Process : pc'[q] = "publish" => pc[q] = "publish" /\ job'[q] = job[q]
    BY <1>1, <2>2
  <2>4. BlockedOnlyByFault'
    <3> SUFFICES ASSUME NEW u \in building \ ready, u # t, u \notin broken
                 PROVE  \E q \in Process : pc'[q] = "publish" /\ job'[q].target = u
      BY <2>1 DEF BlockedOnlyByFault
    <3>1. PICK q \in Process : pc[q] = "publish" /\ job[q].target = u
      BY DEF BuildInv, BlockedOnlyByFault
    <3> QED
      BY <1>1, <3>1
  <2> QED
    BY <2>1, <2>3, <2>4 DEF BuildInv, Owns, OneOwner
<1> QED
  BY <1>2, <1>3, <1>4

(* A step that leaves the directories alone, and the builders where they   *)
(* are.                                                                    *)
LEMMA BuildersStay ==
    ASSUME BuildInv, UNCHANGED <<building, ready, broken>>,
           \A q \in Process : \/ pc'[q] = pc[q] /\ job'[q] = job[q]
                              \/ pc[q] # "publish" /\ pc'[q] # "publish"
    PROVE  (\A q \in Process : Owns(q)') /\ OneOwner' /\ BlockedOnlyByFault'
<1>1. \A q \in Process : pc'[q] = "publish" => pc[q] = "publish" /\ job'[q] = job[q]
  OBVIOUS
<1>2. \A q \in Process : pc[q] = "publish" => pc'[q] = "publish" /\ job'[q] = job[q]
  OBVIOUS
<1> QED
  BY <1>1, <1>2 DEF BuildInv, Owns, OneOwner, BlockedOnlyByFault

LEMMA BuildStep ==
    ASSUME TypeOK, Busy, BuildInv, [Next]_vars
    PROVE  BuildInv'
<1>1. TypeOK' /\ Grows
  BY TypeStep, Growth
<1>2. ASSUME NEW p \in Process, Proceed(p) \/ Breaks(p)
      PROVE  BuildInv'
  <2>1. \A q \in Process : Fetched(q)'
    <3>1. Fetched(p)'
      BY <1>1, <1>2, FetchedMoves DEF BuildInv
    <3>2. ASSUME NEW q \in Process \ {p} PROVE Fetched(q)'
      BY <1>1, <1>2, MovesOne, FetchedStays DEF BuildInv
    <3> QED
      BY <3>1, <3>2
  <2>2. CASE MakeDirectory(p) \/ Publish(p) \/ Breaks(p)
    BY <2>1, <2>2, BuildersMove DEF BuildInv
  <2>3. CASE ~(MakeDirectory(p) \/ Publish(p) \/ Breaks(p))
    <3>1. pc[p] # "publish"
      BY <1>2, <2>3 DEF Proceed, RequireSpace, Probe, FetchTarget, FetchIndex,
         FetchShards, LookUp, Audit, Serve
    <3>2. pc'[p] # "publish"
      BY <1>2, <2>3, Arrivals
    <3>3. UNCHANGED <<building, ready, broken>>
      BY <1>2, <2>3 DEF Proceed, RequireSpace, Probe, Fetch, FetchTarget, FetchIndex,
         FetchShards, LookUp, Audit, Serve, disk
    <3>4. \A q \in Process \ {p} : pc'[q] = pc[q] /\ job'[q] = job[q]
      BY <1>2, MovesOne
    <3>5. \A q \in Process : \/ pc'[q] = pc[q] /\ job'[q] = job[q]
                             \/ pc[q] # "publish" /\ pc'[q] # "publish"
      BY <3>1, <3>2, <3>4
    <3> QED
      BY <2>1, <3>3, <3>5, BuildersStay DEF BuildInv
  <2> QED
    BY <2>2, <2>3
<1>3. ASSUME NEW p \in Process, NEW c \in Command, NEW t \in Target, Run(p, c, t)
      PROVE  BuildInv'
  <2>1. /\ pc[p] = "idle" /\ pc'[p] \in {"space", "audit", "serve"}
        /\ \A q \in Process \ {p} : pc'[q] = pc[q] /\ job'[q] = job[q]
        /\ UNCHANGED <<building, ready, broken>>
    BY <1>3, Starts DEF disk
  <2>2. \A q \in Process : Fetched(q)'
    <3>1. Fetched(p)'
      BY <2>1 DEF Fetched
    <3>2. ASSUME NEW q \in Process \ {p} PROVE Fetched(q)'
      BY <1>1, <2>1, FetchedStays DEF BuildInv
    <3> QED
      BY <3>1, <3>2
  <2> QED
    BY <2>1, <2>2, BuildersStay DEF BuildInv
<1>4. ASSUME NEW t \in Target, RemoveStale(t)
      PROVE  BuildInv'
  <2>1. /\ building' = building \ {t} /\ broken' = broken \ {t} /\ ready' = ready
        /\ pc' = pc /\ job' = job
        /\ \A p \in Process : ~(pc[p] = "publish" /\ job[p].target = t)
    BY <1>4 DEF RemoveStale
  <2>2. \A q \in Process : Fetched(q)'
    BY <1>1, <2>1, FetchedStays DEF BuildInv
  <2>3. BlockedOnlyByFault' /\ (\A q \in Process : Owns(q)') /\ OneOwner'
    BY <2>1 DEF BuildInv, BlockedOnlyByFault, Owns, OneOwner
  <2> QED
    BY <2>2, <2>3 DEF BuildInv
<1>5. CASE (\E r \in Repo : Grant(r)) \/ FreeSpace \/ UNCHANGED vars
  <2>1. UNCHANGED <<building, ready, broken, pc, job>>
    BY <1>5 DEF Grant, FreeSpace, vars, disk
  <2>2. \A q \in Process : Fetched(q)'
    BY <1>1, <2>1, FetchedStays DEF BuildInv
  <2> QED
    BY <2>1, <2>2, BuildersStay DEF BuildInv
<1> QED
  BY <1>2, <1>3, <1>4, <1>5 DEF Next

(* Contention never blocks a view: a building directory that nobody works  *)
(* in, without a view beside it, was left by a build that died or met an   *)
(* I/O error (BlockedOnlyByFault), for any number of processes and targets.*)
THEOREM ContentionNeverBlocks == Spec => []BlockedOnlyByFault
<1>1. Init => BuildInv
  BY DEF Init, BuildInv, Fetched, Owns, OneOwner, BlockedOnlyByFault
<1>2. TypeOK /\ Busy /\ BuildInv /\ [Next]_vars => BuildInv'
  BY BuildStep
<1>3. BuildInv => BlockedOnlyByFault
  BY DEF BuildInv
<1> QED
  BY <1>1, <1>2, <1>3, BusyHolds, PTL DEF Spec
================================================================================
