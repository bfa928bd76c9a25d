----------------------------- MODULE Procedure -----------------------------
(***************************************************************************)
(* What carrying out a procedure promises the plant: steps are completed   *)
(* or skipped one event at a time, a step that asks for evidence is        *)
(* completed only after a photo of it was accepted, a critical step is     *)
(* never skipped, the technician is only ever sent to a step whose         *)
(* predecessor was dealt with, and the session closes only after the last  *)
(* step was completed.                                                     *)
(***************************************************************************)
EXTENDS Naturals

CONSTANTS
  NumSteps,         \* the number of steps of the procedure template
  PhotoSteps,       \* photo_required_step_indices
  CriticalSteps     \* critical_step_indices

VARIABLES
  photographed,     \* steps with an accepted photo
  completed,        \* steps reported as completed
  skipped,          \* steps reported as skipped
  position,         \* the step the technician is at
  closed            \* the session has been finalized at least once

vars == <<photographed, completed, skipped, position, closed>>

Last == NumSteps - 1

Init ==
  /\ photographed = {}
  /\ completed = {}
  /\ skipped = {}
  /\ position = 0
  /\ closed = FALSE

Photograph(s) ==
  /\ photographed' = photographed \cup {s}
  /\ UNCHANGED <<completed, skipped, position, closed>>

Complete(s) ==
  /\ s \in PhotoSteps => s \in photographed
  /\ completed' = completed \cup {s}
  /\ UNCHANGED <<photographed, skipped, position, closed>>

Skip(s) ==
  /\ s \notin CriticalSteps
  /\ skipped' = skipped \cup {s}
  /\ UNCHANGED <<photographed, completed, position, closed>>

(* Nothing keeps the position from moving back.                            *)
Move(s) ==
  /\ s = 0 \/ s - 1 \in completed \cup skipped
  /\ position' = s
  /\ UNCHANGED <<photographed, completed, skipped, closed>>

Close ==
  /\ Last \in completed
  /\ closed' = TRUE
  /\ UNCHANGED <<photographed, completed, skipped, position>>

Next ==
  \/ \E s \in 0 .. NumSteps : Photograph(s) \/ Complete(s) \/ Skip(s)
  \/ \E s \in 0 .. Last : Move(s)
  \/ Close

Spec == Init /\ [][Next]_vars
=============================================================================
