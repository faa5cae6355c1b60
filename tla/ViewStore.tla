------------------------------- MODULE ViewStore -------------------------------
(***************************************************************************)
(* What a checkpoint view promises to the processes that ask for it.       *)
(*                                                                         *)
(* A view is either not there, sound, or spoilt.  It appears in one step   *)
(* and is sound when it appears; a process is only ever handed a view that *)
(* is sound at that moment; nothing turns one published view into another. *)
(* ViewBuilder is the code that has to keep this promise with nothing but  *)
(* mkdir, file writes and rename.                                          *)
(***************************************************************************)
CONSTANT Builder           \* the processes that ask for the view

VARIABLES view,            \* "absent", "sound" or "spoilt"
          holders          \* the processes that were handed its path

vars == <<view, holders>>

TypeOK ==
    /\ view \in {"absent", "sound", "spoilt"}
    /\ holders \subseteq Builder

Init ==
    /\ view = "absent"
    /\ holders = {}

(* A process makes the view appear, whole, and holds it.                   *)
Publish(b) ==
    /\ view = "absent"
    /\ view' = "sound"
    /\ holders' = holders \cup {b}

(* A process is handed the view that is already there.                     *)
Hand(b) ==
    /\ view = "sound"
    /\ holders' = holders \cup {b}
    /\ UNCHANGED view

(* A process starts over.                                                  *)
Release(b) ==
    /\ b \in holders
    /\ holders' = holders \ {b}
    /\ UNCHANGED view

(* The storage under a published view decays.                              *)
Spoil ==
    /\ view = "sound"
    /\ view' = "spoilt"
    /\ UNCHANGED holders

(* An operator deletes the view.                                           *)
Remove ==
    /\ view # "absent"
    /\ view' = "absent"
    /\ UNCHANGED holders

Next ==
    \/ \E b \in Builder : Publish(b) \/ Hand(b) \/ Release(b)
    \/ Spoil
    \/ Remove

Spec == Init /\ [][Next]_vars
================================================================================
