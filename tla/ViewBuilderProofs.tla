--------------------------- MODULE ViewBuilderProofs ---------------------------
(***************************************************************************)
(* Theorems about ViewBuilder, for any set of processes, either mode and   *)
(* any number of faults.                                                   *)
(*                                                                         *)
(* OneOwner is the heart: it is not inductive alone, because what keeps a  *)
(* second process out of the building directory is not the program counter *)
(* of the first but the directory's existence (Held).  The published view  *)
(* is whole because the directory is written only by its owner (Written,   *)
(* Complete) and moved only by it.                                         *)
(***************************************************************************)
EXTENDS ViewBuilder, TLAPS

(* Whoever is building has its directory.                                  *)
Held == \A b \in Builder : pc[b] \in Building => temp # Absent

(* What a writer has counted as written is written.                        *)
Written ==
    \A b \in Builder : pc[b] = "write" =>
        /\ done[b] < Len(Order)
        /\ \A i \in 1..done[b] : temp[Order[i]] # "partial"

(* Past the last write nothing is missing.                                 *)
Complete ==
    \A b \in Builder : pc[b] \in {"audit", "recheck", "rename"} =>
        \A p \in Parts : temp[p] # "partial"

(* What passed the audit is still what was audited.                        *)
StillSound ==
    \A b \in Builder : pc[b] \in {"recheck", "rename"} => Sound(temp, Audited)

Inv == TypeOK /\ OneOwner /\ Held /\ Written /\ Complete /\ StillSound /\ PublishedWhole

(* A live overlay build works on the source it hashed.                     *)
HashedSource ==
    Mode = "mtp_overlay" => \A b \in Builder : pc[b] \notin Ended => source = "pinned"

(* An audited build has a source of the manifest's layout.                 *)
AuditedSource ==
    \A b \in Builder : pc[b] \in {"recheck", "rename"} => source # "malformed"

(* No directory holds a compact shard of other bytes.                      *)
Genuine ==
    "compact" \in Parts =>
        /\ temp # Absent => temp["compact"] # "foreign"
        /\ final # Absent => final["compact"] # "foreign"

SourceInv == HashedSource /\ AuditedSource /\ Genuine
--------------------------------------------------------------------------------
(* The parts are the entries of a sequence of five or six names.           *)
LEMMA OrderFacts ==
    /\ Len(Order) \in {5, 6}
    /\ \A i \in 1..Len(Order) : Order[i] \in Parts
    /\ \A p \in Parts : \E i \in 1..Len(Order) : Order[i] = p
<1>1. CASE Mode = "mtp_overlay"
  BY <1>1 DEF Order, Parts
<1>2. CASE Mode # "mtp_overlay"
  BY <1>2 DEF Order, Parts
<1> QED BY <1>1, <1>2

(* The overlay's compact shard is a part of that mode only.                *)
LEMMA CompactMode == "compact" \in Parts => Mode = "mtp_overlay"
<1> SUFFICES ASSUME Mode # "mtp_overlay" PROVE "compact" \notin Parts
  OBVIOUS
<1>1. Order = <<"serving", "config", "links", "index", "recipe">>
  BY DEF Order
<1>2. Len(Order) = 5
  BY <1>1
<1>3. \A i \in 1..5 : Order[i] # "compact"
  BY <1>1
<1> QED BY <1>2, <1>3 DEF Parts

(* A fresh building directory is not the absent one.                       *)
LEMMA DirectoryFacts ==
    ASSUME NEW d \in [Parts -> Content]
    PROVE  d # Absent
BY AbsentAssumption
--------------------------------------------------------------------------------
(* The state is well typed at the start.                                   *)
LEMMA InitInv == Init => Inv
<1> SUFFICES ASSUME Init PROVE Inv
  OBVIOUS
<1> USE OrderFacts, FaultsAssumption DEF Init
<1>1. TypeOK
  BY DEF TypeOK, Directory, Location, Ended, Building
<1>2. OneOwner /\ Held /\ Written /\ Complete /\ StillSound /\ PublishedWhole
  BY DEF OneOwner, Held, Written, Complete, StillSound, PublishedWhole, Building
<1> QED BY <1>1, <1>2 DEF Inv

(* Steps that move one process between locations outside Building, and     *)
(* leave both directories and the counts alone, keep the invariant.        *)
LEMMA MoveOutside ==
    ASSUME Inv, NEW b \in Builder, NEW l \in Location \ Building,
           Goto(b, l), UNCHANGED <<final, temp, done>>,
           source' = source, faults' \in 0..MaxFaults
    PROVE  Inv'
<1>1. TypeOK'
  BY DEF Inv, TypeOK, Goto
<1>2. OneOwner' /\ Held' /\ Written' /\ Complete' /\ StillSound' /\ PublishedWhole'
  BY DEF Inv, TypeOK, OneOwner, Held, Written, Complete, StillSound, PublishedWhole,
         Sound, Goto, Building
<1> QED BY <1>1, <1>2 DEF Inv
--------------------------------------------------------------------------------
(* mkdir makes its process the only owner: nobody owned the directory, or  *)
(* it would have existed.                                                  *)
LEMMA MkdirInv == ASSUME Inv, NEW b \in Builder, Mkdir(b) PROVE Inv'
<1>1. CASE temp # Absent
  <2>1. Goto(b, "failed") /\ UNCHANGED <<final, temp, done>> /\ source' = source
    BY <1>1 DEF Mkdir
  <2>2. faults' \in 0..MaxFaults
    BY DEF Mkdir, Inv, TypeOK
  <2> QED BY <2>1, <2>2, MoveOutside DEF Location, Ended, Building
<1>2. CASE temp = Absent
  <2>1. \A c \in Builder : pc[c] \notin Building
    BY <1>2 DEF Inv, Held
  <2>2. /\ temp' = [p \in Parts |-> "partial"] /\ temp' \in [Parts -> Content]
        /\ done' = [done EXCEPT ![b] = 0]
        /\ pc' = [pc EXCEPT ![b] = "write"]
        /\ UNCHANGED <<final, source, faults>>
    BY <1>2 DEF Mkdir, Goto, Content
  <2>3. \A c \in Builder : c # b => pc'[c] \notin Building
    BY <2>1, <2>2 DEF Inv, TypeOK
  <2>4. pc'[b] = "write" /\ done'[b] = 0 /\ temp' # Absent
    BY <2>2, DirectoryFacts DEF Inv, TypeOK
  <2>5. TypeOK'
    BY <2>2, OrderFacts DEF Inv, TypeOK, Directory, Location, Building
  <2>6. OneOwner' /\ Held'
    BY <2>3, <2>4 DEF OneOwner, Held
  <2>7. Written' /\ Complete' /\ StillSound'
    <3>1. \A c \in Builder : pc'[c] \in Building => c = b
      BY <2>3
    <3>2. Written'
      <4>1. 0 < Len(Order) /\ 1..0 = {}
        BY OrderFacts
      <4>2. \A c \in Builder : pc'[c] = "write" => done'[c] = 0
        BY <2>4, <3>1 DEF Building
      <4> QED BY <4>1, <4>2 DEF Written
    <3>3. Complete' /\ StillSound'
      BY <2>4, <3>1 DEF Complete, StillSound, Building
    <3> QED BY <3>2, <3>3
  <2>8. PublishedWhole'
    BY <2>2 DEF Inv, PublishedWhole
  <2> QED BY <2>5, <2>6, <2>7, <2>8 DEF Inv
<1> QED BY <1>1, <1>2

(* Writing the next part: nobody else is in the directory.                 *)
LEMMA WriteInv == ASSUME Inv, NEW b \in Builder, Write(b) PROVE Inv'
<1> DEFINE n == done[b] + 1
           p == Order[n]
<1>1. pc[b] = "write" /\ done[b] < Len(Order) /\ UNCHANGED <<final, source, faults>>
  BY DEF Write
<1>2. temp # Absent
  BY <1>1 DEF Inv, Held, Building
<1>3. CASE p = "compact" /\ source = "malformed"
  <2>1. Goto(b, "failed") /\ UNCHANGED <<temp, done>>
    BY <1>3 DEF Write
  <2>2. faults' \in 0..MaxFaults
    BY <1>1 DEF Inv, TypeOK
  <2> QED BY <1>1, <2>1, <2>2, MoveOutside DEF Location, Ended, Building
<1>4. CASE ~(p = "compact" /\ source = "malformed")
  <2>1. PICK v \in {"foreign", "pinned"} :
          /\ temp' = [temp EXCEPT ![p] = v]
          /\ done' = [done EXCEPT ![b] = n]
          /\ pc' = [pc EXCEPT ![b] = IF n = Len(Order) THEN "audit" ELSE "write"]
    BY <1>2, <1>4 DEF Write, Goto
  <2>2. n \in 1..Len(Order) /\ done[b] \in 0..Len(Order) /\ done[b] = n - 1
    BY <1>1, OrderFacts DEF Inv, TypeOK
  <2>3. p \in Parts
    BY <2>2, OrderFacts
  <2>4. temp \in [Parts -> Content] /\ temp' \in [Parts -> Content] /\ temp' # Absent
    BY <1>2, <2>1, DirectoryFacts DEF Inv, TypeOK, Directory, Content
  <2>5. temp'[p] = v /\ \A q \in Parts : q # p => temp'[q] = temp[q]
    BY <2>1, <2>3, <2>4
  <2>6. \A c \in Builder : c # b => pc'[c] \notin Building
    BY <1>1, <2>1 DEF Inv, TypeOK, OneOwner, Building
  <2>7. done'[b] = n /\ pc'[b] = IF n = Len(Order) THEN "audit" ELSE "write"
    BY <2>1 DEF Inv, TypeOK
  <2>8. \A i \in 1..n : temp'[Order[i]] # "partial"
    <3> SUFFICES ASSUME NEW i \in 1..n PROVE temp'[Order[i]] # "partial"
      OBVIOUS
    <3>1. Order[i] \in Parts
      BY <2>2, OrderFacts
    <3>2. CASE Order[i] = p
      BY <3>2, <2>5
    <3>3. CASE Order[i] # p
      <4>1. i \in 1..done[b]
        BY <3>3, <2>2
      <4>2. temp[Order[i]] # "partial"
        BY <1>1, <4>1 DEF Inv, Written
      <4> QED BY <3>1, <3>3, <4>2, <2>5
    <3> QED BY <3>2, <3>3
  <2>9. TypeOK'
    BY <1>1, <2>1, <2>2, <2>4 DEF Inv, TypeOK, Directory, Location, Building
  <2>10. OneOwner' /\ Held'
    BY <2>4, <2>6 DEF OneOwner, Held
  <2>11. Written'
    BY <2>2, <2>6, <2>7, <2>8, OrderFacts DEF Written, Building
  <2>12. Complete'
    <3> SUFFICES ASSUME NEW c \in Builder, pc'[c] \in {"audit", "recheck", "rename"},
                        NEW q \in Parts
                 PROVE  temp'[q] # "partial"
      BY DEF Complete
    <3>1. c = b
      BY <2>6 DEF Building
    <3>2. n = Len(Order)
      BY <3>1, <2>7
    <3>3. PICK i \in 1..Len(Order) : Order[i] = q
      BY OrderFacts
    <3> QED BY <2>8, <3>2, <3>3
  <2>13. StillSound' /\ PublishedWhole'
    BY <1>1, <2>6, <2>7 DEF Inv, StillSound, PublishedWhole, Building
  <2> QED BY <2>9, <2>10, <2>11, <2>12, <2>13 DEF Inv
<1> QED BY <1>3, <1>4

(* The audit lets only a sound directory pass.                             *)
LEMMA AuditInv == ASSUME Inv, NEW b \in Builder, Audit(b) PROVE Inv'
<1>1. pc[b] = "audit" /\ UNCHANGED <<final, temp, source, done, faults>>
  BY DEF Audit
<1>2. CASE pc' = [pc EXCEPT ![b] = "failed"]
  <2>1. faults' \in 0..MaxFaults
    BY <1>1 DEF Inv, TypeOK
  <2> QED BY <1>1, <1>2, <2>1, MoveOutside DEF Goto, Location, Ended, Building
<1>3. CASE pc' = [pc EXCEPT ![b] = "recheck"] /\ Sound(temp, Audited)
  <2>1. TypeOK'
    BY <1>1, <1>3 DEF Inv, TypeOK, Location, Building
  <2>2. OneOwner' /\ Held' /\ Written' /\ Complete'
    BY <1>1, <1>3 DEF Inv, TypeOK, OneOwner, Held, Written, Complete, Building
  <2>3. StillSound' /\ PublishedWhole'
    BY <1>1, <1>3 DEF Inv, TypeOK, StillSound, Sound, PublishedWhole
  <2> QED BY <2>1, <2>2, <2>3 DEF Inv
<1>4. "failed" # "recheck"
  OBVIOUS
<1> QED BY <1>1, <1>2, <1>3 DEF Audit, Goto

(* The second look at the final path.                                      *)
LEMMA RecheckInv == ASSUME Inv, NEW b \in Builder, Recheck(b) PROVE Inv'
<1>1. pc[b] = "recheck" /\ UNCHANGED <<final, temp, source, done, faults>>
  BY DEF Recheck
<1>2. CASE pc' = [pc EXCEPT ![b] = "failed"]
  <2>1. faults' \in 0..MaxFaults
    BY <1>1 DEF Inv, TypeOK
  <2> QED BY <1>1, <1>2, <2>1, MoveOutside DEF Goto, Location, Ended, Building
<1>3. CASE pc' = [pc EXCEPT ![b] = "rename"]
  <2>1. TypeOK'
    BY <1>1, <1>3 DEF Inv, TypeOK, Location, Building
  <2>2. OneOwner' /\ Held' /\ Written' /\ Complete'
    BY <1>1, <1>3 DEF Inv, TypeOK, OneOwner, Held, Written, Complete, Building
  <2>3. StillSound' /\ PublishedWhole'
    BY <1>1, <1>3 DEF Inv, TypeOK, StillSound, Sound, PublishedWhole
  <2> QED BY <2>1, <2>2, <2>3 DEF Inv
<1> QED BY <1>2, <1>3 DEF Recheck, Goto

(* The rename publishes a complete directory and leaves no owner.          *)
LEMMA RenameInv == ASSUME Inv, NEW b \in Builder, Rename(b) PROVE Inv'
<1>1. pc[b] = "rename" /\ UNCHANGED <<source, done, faults>>
  BY DEF Rename
<1>2. CASE ~(final = Absent /\ temp # Absent)
  <2>1. Goto(b, "failed") /\ UNCHANGED <<final, temp>>
    BY <1>2 DEF Rename
  <2>2. faults' \in 0..MaxFaults
    BY <1>1 DEF Inv, TypeOK
  <2> QED BY <1>1, <2>1, <2>2, MoveOutside DEF Location, Ended, Building
<1>3. CASE final = Absent /\ temp # Absent
  <2>1. final' = temp /\ temp' = Absent /\ pc' = [pc EXCEPT ![b] = "returned"]
    BY <1>3 DEF Rename, Goto
  <2>2. \A c \in Builder : pc'[c] \notin Building
    BY <1>1, <2>1 DEF Inv, TypeOK, OneOwner, Building
  <2>3. TypeOK'
    BY <1>1, <2>1 DEF Inv, TypeOK, Directory, Location, Ended
  <2>4. PublishedWhole'
    BY <1>1, <2>1 DEF Inv, Complete, PublishedWhole
  <2>5. OneOwner' /\ Held' /\ Written' /\ Complete' /\ StillSound'
    BY <2>2 DEF OneOwner, Held, Written, Complete, StillSound, Building
  <2> QED BY <2>3, <2>4, <2>5 DEF Inv
<1> QED BY <1>2, <1>3

(* Decay reaches the published view only; it leaves no part missing.       *)
LEMMA DamageInv == ASSUME Inv, NEW p \in Parts, Damage(p) PROVE Inv'
<1>1. /\ final # Absent /\ final' = [final EXCEPT ![p] = "damaged"]
      /\ UNCHANGED <<temp, source, pc, done>> /\ faults' \in 0..MaxFaults
  BY FaultsAssumption DEF Damage, Inv, TypeOK
<1>2. final \in [Parts -> Content] /\ final' \in [Parts -> Content]
  BY <1>1 DEF Inv, TypeOK, Directory, Content
<1>3. TypeOK'
  BY <1>1, <1>2 DEF Inv, TypeOK, Directory
<1>4. PublishedWhole'
  BY <1>1, <1>2 DEF Inv, PublishedWhole
<1>5. OneOwner' /\ Held' /\ Written' /\ Complete' /\ StillSound'
  BY <1>1 DEF Inv, OneOwner, Held, Written, Complete, StillSound, Sound
<1> QED BY <1>3, <1>4, <1>5 DEF Inv

(* A crash, or a refusal of the file system, frees the process only.       *)
LEMMA AbortInv == ASSUME Inv, NEW b \in Builder, Abort(b) PROVE Inv'
<1>1. faults' \in 0..MaxFaults
  BY FaultsAssumption DEF Abort, Inv, TypeOK
<1> QED BY <1>1, MoveOutside DEF Abort, Location, Ended, Building

(* Changes of the source touch no directory.                               *)
LEMMA SourceChangeInv == ASSUME Inv, AlterSource \/ RestoreSource PROVE Inv'
<1>1. /\ UNCHANGED <<final, temp, pc, done>> /\ faults' \in 0..MaxFaults
      /\ source' \in {"pinned", "altered", "malformed"}
  BY FaultsAssumption DEF AlterSource, RestoreSource, Inv, TypeOK
<1> QED BY <1>1 DEF Inv, TypeOK, OneOwner, Held, Written, Complete, StillSound,
                    PublishedWhole, Sound

(* The operator deletes a directory nobody builds in, or a refused view.   *)
LEMMA OperatorInv == ASSUME Inv, RemoveTemp \/ RemoveFinal PROVE Inv'
<1>1. CASE RemoveTemp
  <2>1. /\ \A b \in Builder : pc[b] \notin Building
        /\ temp' = Absent /\ UNCHANGED <<final, source, pc, done, faults>>
    BY <1>1 DEF RemoveTemp
  <2> QED BY <2>1 DEF Inv, TypeOK, Directory, OneOwner, Held, Written, Complete,
                      StillSound, PublishedWhole, Building
<1>2. CASE RemoveFinal
  <2>1. final' = Absent /\ UNCHANGED <<temp, source, pc, done, faults>>
    BY <1>2 DEF RemoveFinal
  <2> QED BY <2>1 DEF Inv, TypeOK, Directory, OneOwner, Held, Written, Complete,
                      StillSound, PublishedWhole, Sound
<1> QED BY <1>1, <1>2
--------------------------------------------------------------------------------
(* Every step keeps the invariant.                                         *)
LEMMA NextInv == ASSUME Inv, [Next]_vars PROVE Inv'
<1>1. ASSUME NEW b \in Builder, Start(b) \/ Lookup(b) \/ Verify(b) \/ CheckTemp(b)
      PROVE  Inv'
  <2>1. UNCHANGED <<final, temp, source, done, faults>> /\ faults' \in 0..MaxFaults
    BY <1>1 DEF Start, Lookup, Verify, CheckTemp, Inv, TypeOK
  <2>2. \E l \in Location \ Building : Goto(b, l)
    BY <1>1 DEF Start, Lookup, Verify, CheckTemp, Location, Ended, Building
  <2> QED BY <2>1, <2>2, MoveOutside
<1>2. CASE UNCHANGED vars
  BY <1>2 DEF vars, Inv, TypeOK, OneOwner, Held, Written, Complete, StillSound,
              PublishedWhole, Sound
<1>3. ASSUME NEW b \in Builder, BuilderStep(b)
      PROVE  Inv'
  BY <1>3, <1>1, MkdirInv, WriteInv, AuditInv, RecheckInv, RenameInv
     DEF BuilderStep, Proceed
<1>4. CASE Environment
  BY <1>4, AbortInv, DamageInv, SourceChangeInv, OperatorInv DEF Environment
<1> QED BY <1>2, <1>3, <1>4 DEF Next

(* The invariant of build_hybrid_view and build_mtp_overlay.               *)
THEOREM Invariance == Spec => []Inv
<1>1. Init => Inv
  BY InitInv
<1>2. Inv /\ [Next]_vars => Inv'
  BY NextInv
<1> QED BY <1>1, <1>2, PTL DEF Spec

(* The state stays within its types.                                       *)
THEOREM TypeCorrect == Spec => []TypeOK
<1>1. Inv => TypeOK
  BY DEF Inv
<1> QED BY <1>1, Invariance, PTL

(* The existence test, the mkdir that must not find the directory, and the *)
(* rename that frees its name are enough: without any lock, two processes  *)
(* never build in the same directory.                                      *)
THEOREM Exclusion == Spec => []OneOwner
<1>1. Inv => OneOwner
  BY DEF Inv
<1> QED BY <1>1, Invariance, PTL

(* A visible view has all its parts, whatever crashed.                     *)
THEOREM AtomicPublication == Spec => []PublishedWhole
<1>1. Inv => PublishedWhole
  BY DEF Inv
<1> QED BY <1>1, Invariance, PTL

(* Nobody moves or empties an audited directory before its owner renames it.*)
THEOREM AuditHolds == Spec => []AuditedStaysWhole
<1>1. Inv => AuditedStaysWhole
  BY DEF Inv, Held, Complete, AuditedStaysWhole, Building
<1> QED BY <1>1, Invariance, PTL
--------------------------------------------------------------------------------
(* With a source that is never rewritten under a live build, a build works *)
(* on the source it hashed, and only audited layouts come near the rename. *)
LEMMA SourceStep ==
    ASSUME SourceStable, Inv, SourceInv, [Next]_vars PROVE SourceInv'
<1> USE DEF SourceInv
<1> DEFINE Live(b) == pc[b] \notin Ended
<1>1. ASSUME NEW b \in Builder, Start(b) PROVE SourceInv'
  <2>1. UNCHANGED <<final, temp, source>>
    BY <1>1 DEF Start
  <2>2. PICK l \in {"failed", "lookup"} :
          /\ pc' = [pc EXCEPT ![b] = l]
          /\ Mode = "mtp_overlay" /\ source # "pinned" => l = "failed"
    BY <1>1 DEF Start, Goto
  <2>3. HashedSource'
    BY <2>1, <2>2 DEF HashedSource, Ended, Inv, TypeOK
  <2>4. AuditedSource' /\ Genuine'
    BY <2>1, <2>2 DEF AuditedSource, Genuine, Inv, TypeOK
  <2> QED BY <2>3, <2>4
<1>2. ASSUME NEW b \in Builder, Lookup(b) \/ Verify(b) \/ CheckTemp(b) \/ Abort(b)
      PROVE  SourceInv'
  <2>1. UNCHANGED <<final, temp, source>> /\ Live(b)
    BY <1>2 DEF Lookup, Verify, CheckTemp, Abort, Ended
  <2>2. PICK l \in {"failed", "returned", "verify", "checktemp", "mkdir"} :
          pc' = [pc EXCEPT ![b] = l]
    BY <1>2 DEF Lookup, Verify, CheckTemp, Abort, Goto
  <2>3. HashedSource'
    BY <2>1, <2>2 DEF HashedSource, Ended, Inv, TypeOK
  <2>4. AuditedSource' /\ Genuine'
    BY <2>1, <2>2 DEF AuditedSource, Genuine, Inv, TypeOK
  <2> QED BY <2>3, <2>4
<1>3. ASSUME NEW b \in Builder, Mkdir(b) PROVE SourceInv'
  <2>1. UNCHANGED <<final, source>> /\ Live(b)
    BY <1>3 DEF Mkdir, Ended
  <2>2. PICK l \in {"failed", "write"} : pc' = [pc EXCEPT ![b] = l]
    BY <1>3 DEF Mkdir, Goto
  <2>3. temp' = temp \/ temp' = [p \in Parts |-> "partial"]
    BY <1>3 DEF Mkdir
  <2>4. HashedSource' /\ AuditedSource'
    BY <2>1, <2>2 DEF HashedSource, AuditedSource, Ended, Inv, TypeOK
  <2>5. Genuine'
    BY <2>1, <2>3 DEF Genuine
  <2> QED BY <2>4, <2>5
<1>4. ASSUME NEW b \in Builder, Write(b) PROVE SourceInv'
  <2>1. UNCHANGED <<final, source>> /\ Live(b) /\ temp # Absent
    BY <1>4 DEF Write, Ended, Inv, Held, Building
  <2>2. PICK l \in {"failed", "write", "audit"} : pc' = [pc EXCEPT ![b] = l]
    BY <1>4 DEF Write, Goto
  <2>3. HashedSource' /\ AuditedSource'
    BY <2>1, <2>2 DEF HashedSource, AuditedSource, Ended, Inv, TypeOK
  <2>4. ASSUME "compact" \in Parts PROVE temp'["compact"] # "foreign"
    <3>1. source = "pinned"
      BY <2>1, <2>4, CompactMode DEF HashedSource
    <3>2. \/ temp' = temp
          \/ temp' = [temp EXCEPT ![Order[done[b] + 1]] = "pinned"]
      BY <1>4, <3>1 DEF Write
    <3>3. temp \in [Parts -> Content] /\ temp["compact"] # "foreign"
      BY <2>1, <2>4 DEF Inv, TypeOK, Directory, Genuine
    <3> QED BY <2>4, <3>2, <3>3
  <2>5. Genuine'
    BY <2>1, <2>4 DEF Genuine
  <2> QED BY <2>3, <2>5
<1>5. ASSUME NEW b \in Builder, Audit(b) PROVE SourceInv'
  <2>1. UNCHANGED <<final, temp, source>> /\ Live(b)
    BY <1>5 DEF Audit, Ended
  <2>2. PICK l \in {"failed", "recheck"} :
          /\ pc' = [pc EXCEPT ![b] = l]
          /\ l = "recheck" => (Mode = "hybrid_bf16" => source # "malformed")
    BY <1>5 DEF Audit, Goto
  <2>3. HashedSource'
    BY <2>1, <2>2 DEF HashedSource, Ended, Inv, TypeOK
  <2>4. pc'[b] = "recheck" => source # "malformed"
    BY <2>1, <2>2, BuilderAssumption DEF HashedSource, Inv, TypeOK
  <2>5. AuditedSource'
    BY <2>1, <2>2, <2>4 DEF AuditedSource, Inv, TypeOK
  <2>6. Genuine'
    BY <2>1 DEF Genuine
  <2> QED BY <2>3, <2>5, <2>6
<1>6. ASSUME NEW b \in Builder, Recheck(b) \/ Rename(b) PROVE SourceInv'
  <2>1. /\ UNCHANGED source /\ Live(b) /\ pc[b] \in {"recheck", "rename"}
        /\ UNCHANGED <<final, temp>> \/ (final' = temp /\ temp' = Absent)
    BY <1>6 DEF Recheck, Rename, Ended
  <2>2. PICK l \in {"failed", "rename", "returned"} : pc' = [pc EXCEPT ![b] = l]
    BY <1>6 DEF Recheck, Rename, Goto
  <2>3. HashedSource'
    BY <2>1, <2>2 DEF HashedSource, Ended, Inv, TypeOK
  <2>4. AuditedSource' /\ Genuine'
    BY <2>1, <2>2 DEF AuditedSource, Genuine, Inv, TypeOK
  <2> QED BY <2>3, <2>4
<1>7. ASSUME NEW p \in Parts, Damage(p) PROVE SourceInv'
  <2>1. /\ UNCHANGED <<temp, source, pc>>
        /\ final \in [Parts -> Content] /\ final' = [final EXCEPT ![p] = "damaged"]
    BY <1>7 DEF Damage, Inv, TypeOK, Directory
  <2>2. HashedSource' /\ AuditedSource'
    BY <2>1 DEF HashedSource, AuditedSource
  <2>3. Genuine'
    BY <1>7, <2>1 DEF Genuine, Damage
  <2> QED BY <2>2, <2>3
<1>8. CASE AlterSource \/ RestoreSource
  <2>1. UNCHANGED <<final, temp, pc>> /\ \A b \in Builder : pc[b] \in Ended
    BY <1>8 DEF AlterSource, RestoreSource
  <2> QED BY <2>1 DEF HashedSource, AuditedSource, Genuine, Ended
<1>9. CASE RemoveTemp \/ RemoveFinal
  <2>1. /\ UNCHANGED <<source, pc>>
        /\ temp' \in {temp, Absent} /\ final' \in {final, Absent}
    BY <1>9 DEF RemoveTemp, RemoveFinal
  <2> QED BY <2>1 DEF HashedSource, AuditedSource, Genuine
<1>10. CASE UNCHANGED vars
  BY <1>10 DEF vars, HashedSource, AuditedSource, Genuine
<1> QED BY <1>1, <1>2, <1>3, <1>4, <1>5, <1>6, <1>7, <1>8, <1>9, <1>10
        DEF Next, BuilderStep, Proceed, Environment

LEMMA SourceInvariance == ASSUME SourceStable PROVE Spec => [](Inv /\ SourceInv)
<1>1. Init => Inv /\ SourceInv
  BY InitInv DEF Init, SourceInv, HashedSource, AuditedSource, Genuine, Ended
<1>2. Inv /\ SourceInv /\ [Next]_vars => (Inv /\ SourceInv)'
  BY NextInv, SourceStep
<1> QED BY <1>1, <1>2, PTL DEF Spec

(* The published compact shard is copied from the bytes that were hashed.  *)
THEOREM PinnedCopy == Spec => []CompactIsPinned
<1>1. CASE ~SourceStable
  <2>1. CompactIsPinned
    BY <1>1 DEF CompactIsPinned
  <2> QED BY <2>1, PTL
<1>2. CASE SourceStable
  <2>1. Inv /\ SourceInv => CompactIsPinned
    <3> SUFFICES ASSUME Inv, SourceInv, "compact" \in Parts, final # Absent
                 PROVE  final["compact"] \in {"pinned", "damaged"}
      BY DEF CompactIsPinned
    <3>1. final["compact"] \in Content
      BY DEF Inv, TypeOK, Directory
    <3> QED BY <3>1 DEF Content, Inv, PublishedWhole, SourceInv, Genuine
  <2>2. Spec => [](Inv /\ SourceInv)
    BY <1>2, SourceInvariance
  <2> QED BY <2>1, <2>2, PTL
<1> QED BY <1>1, <1>2
--------------------------------------------------------------------------------
(* A step that changes a published view moves no process.                  *)
LEMMA ReplaceStep ==
    ASSUME [Next]_vars, final # Absent, final' # final
    PROVE  pc' = pc
BY DEF Next, vars, BuilderStep, Proceed, Environment, Start, Lookup, Verify, CheckTemp,
       Mkdir, Write, Audit, Recheck, Rename, Abort, Damage, AlterSource, RestoreSource,
       RemoveTemp, RemoveFinal

(* No process replaces, empties or edits a view that is already visible.   *)
THEOREM Immutability == Spec => NeverReplaced
<1>1. [Next]_vars =>
        [final # Absent /\ final' # final => ~\E b \in Builder : pc'[b] # pc[b]]_vars
  BY ReplaceStep
<1> QED BY <1>1, PTL DEF Spec, NeverReplaced

(* A directory without an owner is touched by nobody but the operator.     *)
THEOREM StaleIsEvidence == Spec => StaleUntouched
<1>1. ASSUME [Next]_vars, temp # Absent, temp' # temp,
             \A b \in Builder : pc[b] \notin Building
      PROVE  pc' = pc /\ final' = final
  <2>1. \A b \in Builder : ~(Mkdir(b) \/ Write(b) \/ Rename(b))
    BY <1>1 DEF Mkdir, Write, Rename, Building
  <2> QED BY <1>1, <2>1 DEF Next, vars, BuilderStep, Proceed, Environment, Start, Lookup,
             Verify, CheckTemp, Audit, Recheck, Abort, Damage, AlterSource, RestoreSource,
             RemoveTemp, RemoveFinal
<1>2. [Next]_vars =>
        [temp # Absent /\ temp' # temp /\ (\A b \in Builder : pc[b] \notin Building)
           => pc' = pc /\ final' = final]_vars
  BY <1>1
<1> QED BY <1>2, PTL DEF Spec, StaleUntouched

(* A view never appears over a source of another layout.                   *)
THEOREM LayoutGuard == Spec => NoMalformedView
<1>1. CASE ~SourceStable
  <2>1. [Next]_vars =>
          [SourceStable /\ final = Absent /\ final' # Absent => source # "malformed"]_vars
    BY <1>1
  <2> QED BY <2>1, PTL DEF Spec, NoMalformedView
<1>2. CASE SourceStable
  <2>1. ASSUME SourceInv, [Next]_vars, final = Absent, final' # Absent
        PROVE  source # "malformed"
    <3>1. \E b \in Builder : Rename(b)
      BY <2>1 DEF Next, vars, BuilderStep, Proceed, Environment, Start, Lookup, Verify,
           CheckTemp, Mkdir, Write, Audit, Recheck, Abort, Damage, AlterSource,
           RestoreSource, RemoveTemp, RemoveFinal
    <3> QED BY <2>1, <3>1 DEF Rename, SourceInv, AuditedSource
  <2>2. Inv /\ SourceInv /\ [Next]_vars =>
          [SourceStable /\ final = Absent /\ final' # Absent => source # "malformed"]_vars
    BY <2>1
  <2>3. Spec => [](Inv /\ SourceInv)
    BY <1>2, SourceInvariance
  <2> QED BY <2>2, <2>3, PTL DEF Spec, NoMalformedView
<1> QED BY <1>1, <1>2
--------------------------------------------------------------------------------
(* Each step of the code is a step of ViewStore or leaves its state alone. *)
LEMMA StoreStep == ASSUME Inv, [Next]_vars PROVE Store!Next \/ UNCHANGED Store!vars
<1> USE DEF Store!vars
<1>1. ASSUME NEW b \in Builder,
             NEW l \in Location \ {"returned"},
             Goto(b, l), UNCHANGED final
      PROVE  Store!Next \/ UNCHANGED Store!vars
  <2>1. view' = view
    BY <1>1 DEF view
  <2>2. {c \in Builder : pc[c] = "returned"}' = {c \in Builder : pc[c] = "returned"} \ {b}
    BY <1>1 DEF Goto, Inv, TypeOK
  <2>3. CASE pc[b] = "returned"
    <3>1. Store!Release(b)
      BY <2>1, <2>2, <2>3 DEF Store!Release
    <3> QED BY <3>1 DEF Store!Next
  <2>4. CASE pc[b] # "returned"
    BY <2>1, <2>2, <2>4
  <2> QED BY <2>3, <2>4
<1>2. ASSUME NEW b \in Builder,
             Start(b) \/ Lookup(b) \/ CheckTemp(b) \/ Mkdir(b) \/ Write(b) \/ Audit(b)
               \/ Recheck(b) \/ Abort(b)
      PROVE  Store!Next \/ UNCHANGED Store!vars
  <2>1. UNCHANGED final
    BY <1>2 DEF Start, Lookup, CheckTemp, Mkdir, Write, Audit, Recheck, Abort
  <2>2. \E l \in Location \ {"returned"} : Goto(b, l)
    BY <1>2 DEF Start, Lookup, CheckTemp, Mkdir, Write, Audit, Recheck, Abort, Location,
                Ended, Building
  <2> QED BY <2>1, <2>2, <1>1
<1>3. ASSUME NEW b \in Builder, Verify(b)
      PROVE  Store!Next \/ UNCHANGED Store!vars
  <2>1. CASE final # Absent /\ Sound(final, Checked)
    <3>1. view = "sound" /\ view' = view
      BY <1>3, <2>1 DEF view, Verify
    <3>2. {c \in Builder : pc[c] = "returned"}' = {c \in Builder : pc[c] = "returned"} \cup {b}
      BY <1>3, <2>1 DEF Verify, Goto, Inv, TypeOK
    <3>3. Store!Hand(b)
      BY <3>1, <3>2 DEF Store!Hand
    <3> QED BY <3>3 DEF Store!Next
  <2>2. CASE ~(final # Absent /\ Sound(final, Checked))
    <3>1. Goto(b, "failed") /\ UNCHANGED final
      BY <1>3, <2>2 DEF Verify
    <3> QED BY <3>1, <1>1 DEF Location, Ended
  <2> QED BY <2>1, <2>2
<1>4. ASSUME NEW b \in Builder, Rename(b)
      PROVE  Store!Next \/ UNCHANGED Store!vars
  <2>1. CASE final = Absent /\ temp # Absent
    <3>1. final' = temp /\ pc' = [pc EXCEPT ![b] = "returned"]
      BY <1>4, <2>1 DEF Rename, Goto
    <3>2. Sound(final', Checked)
      <4>1. Checked \subseteq Audited
        <5>1. CASE Mode = "mtp_overlay"
          BY <5>1 DEF Checked
        <5>2. CASE Mode # "mtp_overlay"
          <6>1. Order = <<"serving", "config", "links", "index", "recipe">>
            BY <5>2 DEF Order
          <6>2. "index" \in Parts /\ "recipe" \in Parts
            <7>1. Order[4] = "index" /\ Order[5] = "recipe" /\ 4 \in 1..Len(Order)
                    /\ 5 \in 1..Len(Order)
              BY <6>1
            <7> QED BY <7>1 DEF Parts
          <6> QED BY <5>2, <6>2 DEF Checked, Audited
        <5> QED BY <5>1, <5>2
      <4>2. Sound(temp, Audited)
        BY <1>4 DEF Rename, Inv, StillSound
      <4> QED BY <3>1, <4>1, <4>2 DEF Sound
    <3>3. view = "absent" /\ view' = "sound"
      BY <2>1, <3>1, <3>2 DEF view, Sound
    <3>4. {c \in Builder : pc[c] = "returned"}' = {c \in Builder : pc[c] = "returned"} \cup {b}
      BY <3>1 DEF Inv, TypeOK
    <3>5. Store!Publish(b)
      BY <3>3, <3>4 DEF Store!Publish
    <3> QED BY <3>5 DEF Store!Next
  <2>2. CASE ~(final = Absent /\ temp # Absent)
    <3>1. Goto(b, "failed") /\ UNCHANGED final
      BY <1>4, <2>2 DEF Rename
    <3> QED BY <3>1, <1>1 DEF Location, Ended
  <2> QED BY <2>1, <2>2
<1>5. ASSUME NEW p \in Parts, Damage(p)
      PROVE  Store!Next \/ UNCHANGED Store!vars
  <2>1. /\ final # Absent /\ final \in [Parts -> Content]
        /\ final' = [final EXCEPT ![p] = "damaged"] /\ pc' = pc
    BY <1>5 DEF Damage, Inv, TypeOK, Directory
  <2>2. final' # Absent
    <3>1. final' \in [Parts -> Content]
      BY <2>1 DEF Content
    <3> QED BY <3>1, DirectoryFacts
  <2>3. CASE Sound(final, Checked) /\ ~Sound(final', Checked)
    <3>1. view = "sound" /\ view' = "spoilt"
      BY <2>1, <2>2, <2>3 DEF view, Sound
    <3>2. Store!Spoil
      BY <2>1, <3>1 DEF Store!Spoil
    <3> QED BY <3>2 DEF Store!Next
  <2>4. CASE ~(Sound(final, Checked) /\ ~Sound(final', Checked))
    <3>1. Sound(final', Checked) => Sound(final, Checked)
      BY <2>1 DEF Sound
    <3>2. view' = view
      BY <2>1, <2>2, <2>4, <3>1 DEF view, Sound
    <3> QED BY <2>1, <3>2
  <2> QED BY <2>3, <2>4
<1>6. CASE RemoveFinal
  <2>1. final # Absent /\ final' = Absent /\ pc' = pc
    BY <1>6 DEF RemoveFinal
  <2>2. view # "absent" /\ view' = "absent"
    BY <2>1 DEF view
  <2>3. Store!Remove
    BY <2>1, <2>2 DEF Store!Remove
  <2> QED BY <2>3 DEF Store!Next
<1>7. CASE AlterSource \/ RestoreSource \/ RemoveTemp \/ UNCHANGED vars
  <2>1. final' = final /\ pc' = pc
    BY <1>7 DEF AlterSource, RestoreSource, RemoveTemp, vars
  <2> QED BY <2>1 DEF view
<1> QED BY <1>2, <1>3, <1>4, <1>5, <1>6, <1>7 DEF Next, BuilderStep, Proceed, Environment

(* With mkdir, writes and one rename, the code keeps ViewStore's promise.  *)
THEOREM Refinement == Spec => StoreSpec
<1>1. Init => Store!Init
  BY DEF Init, Store!Init, view
<1>2. Inv /\ [Next]_vars => [Store!Next]_(Store!vars)
  BY StoreStep
<1> QED BY <1>1, <1>2, Invariance, PTL DEF Spec, StoreSpec, Store!Spec
================================================================================
