------------------------------ MODULE ViewBuilder ------------------------------
(***************************************************************************)
(* build_hybrid_view (src/recipe/hybrid.py) and build_mtp_overlay          *)
(* (src/recipe/mtp.py): any number of `prepare` processes build the same   *)
(* local checkpoint view over one shared file system, and may die or fail  *)
(* at any step.                                                            *)
(*                                                                         *)
(* A view is written into `.<fingerprint>.building`, audited there, and    *)
(* renamed to its final path.  Nothing is locked: the only exclusion is    *)
(* that mkdir of the building directory fails when it exists, and the      *)
(* rename that publishes the view also frees that name for the next one.   *)
(*                                                                         *)
(* A directory is a function from the parts of a view to what they hold;   *)
(* a part is a file or a family of files the code writes, reads and        *)
(* digests together.                                                       *)
(***************************************************************************)
EXTENDS Naturals, Sequences

CONSTANTS
    Builder,          \* the processes running `prepare`
    Mode,             \* the target's mode: "hybrid_bf16" or "mtp_overlay"
    Absent,           \* a directory that does not exist
    SourceStable,     \* TRUE: the source snapshot never changes under a live build
    OperatorRepairs,  \* TRUE: an operator deletes what the code refuses to touch
    MaxFaults         \* bound on crashes, I/O errors, decay and source changes

(* The parts in the order they are written.                                *)
(*   serving  tokenizer and processor files copied from the target, those  *)
(*            that its snapshot has: one that it lacks is skipped            *)
(*   config   config.json (the overlay's own one in mtp_overlay mode)      *)
(*   links    relative symlinks to the upstream shards                     *)
(*   compact  mtp-bf16.safetensors, copied out of the MTP source shards    *)
(*   index    model.safetensors.index.json                                 *)
(*   recipe   recipe-metadata.json, with the digests of the others         *)
Order == IF Mode = "mtp_overlay"
         THEN <<"serving", "config", "links", "compact", "index", "recipe">>
         ELSE <<"serving", "config", "links", "index", "recipe">>

Parts == {Order[i] : i \in 1..Len(Order)}

(* partial  missing or cut short                                           *)
(* pinned   the bytes the manifest pins                                    *)
(* foreign  well-formed bytes of a changed source; every digest agrees     *)
(* damaged  changed after it was written; its digest or format is wrong    *)
Content == {"partial", "pinned", "foreign", "damaged"}

(* The parts audit_checkpoint reads: never the tokenizer files.            *)
Audited == Parts \ {"serving"}

(* The parts read before an existing view is handed out: hybrid.py looks   *)
(* at the recipe metadata and the index digest, mtp.py at every digest and *)
(* then audits.                                                            *)
Checked == IF Mode = "mtp_overlay" THEN Audited ELSE {"index", "recipe"}

ASSUME BuilderAssumption == Mode \in {"hybrid_bf16", "mtp_overlay"}
ASSUME AbsentAssumption == Absent \notin [Parts -> Content]
ASSUME SwitchAssumption == SourceStable \in BOOLEAN /\ OperatorRepairs \in BOOLEAN
ASSUME FaultsAssumption == MaxFaults \in Nat

VARIABLES
    final,            \* output_root/<target>/<fingerprint>
    temp,             \* output_root/<target>/.<fingerprint>.building
    source,           \* the source snapshot: "pinned", "altered" or "malformed"
    pc,               \* where each process is
    done,             \* how many parts each process has written
    faults            \* faults so far

vars == <<final, temp, source, pc, done, faults>>

Directory == {Absent} \cup [Parts -> Content]

Ended == {"idle", "returned", "failed"}
Building == {"write", "audit", "recheck", "rename"}
Location == Ended \cup Building \cup {"lookup", "verify", "checktemp", "mkdir"}

Sound(dir, parts) == \A p \in parts : dir[p] \in {"pinned", "foreign"}
--------------------------------------------------------------------------------
Init ==
    /\ final = Absent
    /\ temp = Absent
    /\ source = "pinned"
    /\ pc = [b \in Builder |-> "idle"]
    /\ done = [b \in Builder |-> 0]
    /\ faults = 0

Goto(b, label) == pc' = [pc EXCEPT ![b] = label]

(* Faulty: the source shards are not hashed before the build.              *)
StartUnverified(b) ==
    /\ pc[b] \in Ended
    /\ Goto(b, "lookup")
    /\ UNCHANGED <<final, temp, source, done, faults>>

(* A process starts, or is run again.  mtp.py hashes the source shards     *)
(* before it looks at anything else; hybrid.py trusts the snapshot's name. *)
Start(b) ==
    /\ pc[b] \in Ended
    /\ Goto(b, IF Mode = "mtp_overlay" /\ source # "pinned" THEN "failed" ELSE "lookup")
    /\ UNCHANGED <<final, temp, source, done, faults>>

(* if _path_exists(final)                                                  *)
Lookup(b) ==
    /\ pc[b] = "lookup"
    /\ Goto(b, IF final # Absent THEN "verify" ELSE "checktemp")
    /\ UNCHANGED <<final, temp, source, done, faults>>

(* Faulty: an existing view is handed out because it exists.               *)
VerifyPresence(b) ==
    /\ pc[b] = "verify"
    /\ Goto(b, IF final # Absent THEN "returned" ELSE "failed")
    /\ UNCHANGED <<final, temp, source, done, faults>>

(* An existing view is handed out only when the checks of this mode pass.  *)
Verify(b) ==
    /\ pc[b] = "verify"
    /\ Goto(b, IF final # Absent /\ Sound(final, Checked) THEN "returned" ELSE "failed")
    /\ UNCHANGED <<final, temp, source, done, faults>>

(* if _path_exists(temporary): refuse the stale directory.                 *)
CheckTemp(b) ==
    /\ pc[b] = "checktemp"
    /\ Goto(b, IF temp # Absent THEN "failed" ELSE "mkdir")
    /\ UNCHANGED <<final, temp, source, done, faults>>

(* Faulty: mkdir(exist_ok=True).                                           *)
MkdirExistOk(b) ==
    /\ pc[b] = "mkdir"
    /\ temp' = IF temp # Absent THEN temp ELSE [p \in Parts |-> "partial"]
    /\ done' = [done EXCEPT ![b] = 0]
    /\ Goto(b, "write")
    /\ UNCHANGED <<final, source, faults>>

(* Faulty: a directory found in the way is emptied and taken over.         *)
MkdirEmptied(b) ==
    /\ pc[b] = "mkdir"
    /\ temp' = [p \in Parts |-> "partial"]
    /\ done' = [done EXCEPT ![b] = 0]
    /\ Goto(b, "write")
    /\ UNCHANGED <<final, source, faults>>

(* temporary.mkdir() fails when another process was faster.                *)
Mkdir(b) ==
    /\ pc[b] = "mkdir"
    /\ IF temp # Absent
       THEN Goto(b, "failed") /\ UNCHANGED <<temp, done>>
       ELSE /\ temp' = [p \in Parts |-> "partial"]
            /\ done' = [done EXCEPT ![b] = 0]
            /\ Goto(b, "write")
    /\ UNCHANGED <<final, source, faults>>

(* Faulty: the loop over the parts advances twice.                         *)
WriteSkips(b) ==
    /\ pc[b] = "write"
    /\ temp' = [temp EXCEPT ![Order[done[b] + 1]] = "pinned"]
    /\ done' = [done EXCEPT ![b] = @ + 2]
    /\ Goto(b, IF done[b] + 1 = Len(Order) THEN "audit" ELSE "write")
    /\ UNCHANGED <<final, source, faults>>

(* Faulty: an OSError while a tokenizer file is copied is swallowed.       *)
WriteContinues(b) ==
    /\ pc[b] = "write"
    /\ temp # Absent
    /\ LET p == Order[done[b] + 1] IN
         temp' = [temp EXCEPT ![p] = IF p = "serving" THEN "partial" ELSE "pinned"]
    /\ done' = [done EXCEPT ![b] = @ + 1]
    /\ Goto(b, IF done[b] + 1 = Len(Order) THEN "audit" ELSE "write")
    /\ UNCHANGED <<final, source, faults>>

(* The next part is written.  Only the compact shard takes tensor bytes    *)
(* from the source, as they are now; write_subset refuses a malformed one, *)
(* and any write fails when the directory is gone.                         *)
Write(b) ==
    /\ pc[b] = "write"
    /\ done[b] < Len(Order)
    /\ LET p == Order[done[b] + 1] IN
         IF temp = Absent \/ (p = "compact" /\ source = "malformed")
         THEN Goto(b, "failed") /\ UNCHANGED <<temp, done>>
         ELSE /\ temp' = [temp EXCEPT ![p] =
                            IF p = "compact" /\ source = "altered" THEN "foreign" ELSE "pinned"]
              /\ done' = [done EXCEPT ![b] = @ + 1]
              /\ Goto(b, IF done[b] + 1 = Len(Order) THEN "audit" ELSE "write")
    /\ UNCHANGED <<final, source, faults>>

(* Faulty: the audit compares names and digests and reads no header.       *)
AuditShallow(b) ==
    /\ pc[b] = "audit"
    /\ Goto(b, IF temp # Absent /\ Sound(temp, Audited) THEN "recheck" ELSE "failed")
    /\ UNCHANGED <<final, temp, source, done, faults>>

(* audit_checkpoint on the building directory.  A hybrid view's links lead *)
(* to the source, whose headers are read through them.                     *)
Audit(b) ==
    /\ pc[b] = "audit"
    /\ Goto(b, IF /\ temp # Absent
                  /\ Sound(temp, Audited)
                  /\ Mode = "hybrid_bf16" => source # "malformed"
               THEN "recheck" ELSE "failed")
    /\ UNCHANGED <<final, temp, source, done, faults>>

(* Faulty: a view that appeared during the build is discarded.             *)
RecheckDiscards(b) ==
    /\ pc[b] = "recheck"
    /\ final' = Absent
    /\ Goto(b, "rename")
    /\ UNCHANGED <<temp, source, done, faults>>

(* Faulty: the test before the rename looks at the building directory.     *)
RecheckTemporary(b) ==
    /\ pc[b] = "recheck"
    /\ Goto(b, IF temp # Absent THEN "failed" ELSE "rename")
    /\ UNCHANGED <<final, temp, source, done, faults>>

(* if _path_exists(final): the view appeared during the build.             *)
Recheck(b) ==
    /\ pc[b] = "recheck"
    /\ Goto(b, IF final # Absent THEN "failed" ELSE "rename")
    /\ UNCHANGED <<final, temp, source, done, faults>>

(* temporary.replace(final): rename(2) does not replace a directory that   *)
(* holds files, and fails when there is nothing to rename.                 *)
Rename(b) ==
    /\ pc[b] = "rename"
    /\ IF final = Absent /\ temp # Absent
       THEN final' = temp /\ temp' = Absent /\ Goto(b, "returned")
       ELSE Goto(b, "failed") /\ UNCHANGED <<final, temp>>
    /\ UNCHANGED <<source, done, faults>>
--------------------------------------------------------------------------------
(* The environment.                                                        *)

(* A process is killed, or an operation of the file system fails: the      *)
(* building directory is left as it is, for nothing in the code removes it.*)
Abort(b) ==
    /\ faults < MaxFaults
    /\ pc[b] \notin Ended
    /\ Goto(b, "failed")
    /\ faults' = faults + 1
    /\ UNCHANGED <<final, temp, source, done>>

(* A published part rots or is edited in place.                            *)
Damage(p) ==
    /\ faults < MaxFaults
    /\ final # Absent
    /\ final' = [final EXCEPT ![p] = "damaged"]
    /\ faults' = faults + 1
    /\ UNCHANGED <<temp, source, pc, done>>

(* The source snapshot changes in the cache.                               *)
AlterSource ==
    /\ faults < MaxFaults
    /\ SourceStable => \A b \in Builder : pc[b] \in Ended
    /\ source' \in {"altered", "malformed"}
    /\ faults' = faults + 1
    /\ UNCHANGED <<final, temp, pc, done>>

(* The pinned source is downloaded again.                                  *)
RestoreSource ==
    /\ source # "pinned"
    /\ SourceStable => \A b \in Builder : pc[b] \in Ended
    /\ source' = "pinned"
    /\ UNCHANGED <<final, temp, pc, done, faults>>

(* An operator deletes a building directory no process is working in.      *)
RemoveTemp ==
    /\ OperatorRepairs
    /\ temp # Absent
    /\ \A b \in Builder : pc[b] \notin Building
    /\ temp' = Absent
    /\ UNCHANGED <<final, source, pc, done, faults>>

(* An operator deletes a view the code refuses.                            *)
RemoveFinal ==
    /\ OperatorRepairs
    /\ final # Absent
    /\ ~Sound(final, Checked)
    /\ final' = Absent
    /\ UNCHANGED <<temp, source, pc, done, faults>>
--------------------------------------------------------------------------------
(* A step the code takes for b once it has been started.                   *)
Proceed(b) ==
    \/ Lookup(b) \/ Verify(b) \/ CheckTemp(b) \/ Mkdir(b)
    \/ Write(b) \/ Audit(b) \/ Recheck(b) \/ Rename(b)

BuilderStep(b) == Start(b) \/ Proceed(b)

Environment ==
    \/ \E b \in Builder : Abort(b)
    \/ \E p \in Parts : Damage(p)
    \/ AlterSource
    \/ RestoreSource
    \/ RemoveTemp
    \/ RemoveFinal

Next == (\E b \in Builder : BuilderStep(b)) \/ Environment

Spec == Init /\ [][Next]_vars

(* A running process keeps running; nothing makes an operator act.         *)
FairSpec == Spec /\ \A b \in Builder : WF_vars(Proceed(b))

(* Preparation is run again and again, and whoever runs it also fetches    *)
(* the source again and, where OperatorRepairs, deletes what was refused.  *)
TendedSpec ==
    /\ FairSpec
    /\ \A b \in Builder : WF_vars(Start(b))
    /\ SF_vars(RestoreSource)
    /\ SF_vars(RemoveTemp)
    /\ WF_vars(RemoveFinal)
--------------------------------------------------------------------------------
(* Types and ranges of the state.                                          *)
TypeOK ==
    /\ final \in Directory
    /\ temp \in Directory
    /\ source \in {"pinned", "altered", "malformed"}
    /\ pc \in [Builder -> Location]
    /\ done \in [Builder -> 0..Len(Order)]
    /\ faults \in 0..MaxFaults

(* Two processes never work in the building directory at once, although    *)
(* the test for it and the mkdir are separate steps and the rename of one  *)
(* process frees the name under another that looked before it.             *)
OneOwner ==
    \A b, c \in Builder : pc[b] \in Building /\ pc[c] \in Building => b = c

(* No part of a visible view is missing or half written, whatever process  *)
(* died or failed at whatever step: the tokenizer files included, which no *)
(* audit would miss.  (A view of a snapshot that lacks some is as whole as *)
(* the snapshot.)                                                          *)
PublishedWhole ==
    final # Absent => \A p \in Parts : final[p] # "partial"

(* The process that is about to publish still has the directory it built   *)
(* and audited, complete: nobody has moved or emptied it since the audit.  *)
AuditedStaysWhole ==
    \A b \in Builder : pc[b] \in {"recheck", "rename"} =>
        temp # Absent /\ \A p \in Parts : temp[p] # "partial"

(* With a source that is not rewritten under a live build, the published   *)
(* compact MTP shard holds the bytes whose digest was checked at the start.*)
CompactIsPinned ==
    SourceStable /\ "compact" \in Parts /\ final # Absent
        => final["compact"] \in {"pinned", "damaged"}

(* No process ever replaces or empties a published view: it changes only   *)
(* by decay and goes only when an operator deletes it.                     *)
NeverReplaced ==
    [][final # Absent /\ final' # final => ~\E b \in Builder : pc'[b] # pc[b]]_vars

(* A hybrid view never appears over a source whose layout differs from the *)
(* manifest's: the audit between the build and the rename is the only      *)
(* guard, since hybrid.py hashes no shard.                                 *)
NoMalformedView ==
    [][SourceStable /\ final = Absent /\ final' # Absent => source # "malformed"]_vars

(* What a dead or refused process left in the building directory is        *)
(* evidence: no process reuses, empties or publishes it.                   *)
StaleUntouched ==
    [][temp # Absent /\ temp' # temp /\ (\A b \in Builder : pc[b] \notin Building)
         => pc' = pc /\ final' = final]_vars

(* Contention alone never costs the view: when no process fails and none   *)
(* finds a stale directory, one of them publishes, though others are       *)
(* refused and may leave a directory behind.                               *)
ContentionPublishes ==
    [](faults = 0) => ((\E b \in Builder : pc[b] = "lookup") ~> (final # Absent))

(* Once the faults stop, a tended recipe ends with a view every check of   *)
(* its mode accepts, and keeps it.                                         *)
EventuallySound == <>[](final # Absent /\ Sound(final, Checked))

(* docs/TROUBLESHOOTING.md: run preparation again "so the recipe verifies  *)
(* and rebuilds its compact BF16 MTP file from the pinned source shards".  *)
RerunRebuilds ==
    (final # Absent /\ "compact" \in Parts /\ final["compact"] = "damaged")
        ~> (final # Absent /\ final["compact"] = "pinned")
--------------------------------------------------------------------------------
(* What the file system means to a process that asks for the view.         *)
view == IF final = Absent THEN "absent"
        ELSE IF Sound(final, Checked) THEN "sound" ELSE "spoilt"

Store == INSTANCE ViewStore
           WITH view <- view, holders <- {b \in Builder : pc[b] = "returned"}

(* The build procedure implements the promise of ViewStore: a view appears *)
(* in one step, sound, and only a sound view is handed out.                *)
StoreSpec == Store!Spec
================================================================================
