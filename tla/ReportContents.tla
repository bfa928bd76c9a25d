--------------------------- MODULE ReportContents ---------------------------
(***************************************************************************)
(* What the report of a session says: its contents as a function of the    *)
(* stored events and of the photos (ReportBuilder.build), the fields that  *)
(* differ between two of its versions (compute_report_diff), and which     *)
(* messages make the live builder look again.                              *)
(*                                                                         *)
(* An event has its type, its step, the text a reader would see (a reason, *)
(* a finding, a feedback) and by whom or with which verdict it came.  A    *)
(* photo has its step and its status.  The header of the report and the    *)
(* fields that are always empty are left out.                              *)
(***************************************************************************)
EXTENDS Naturals, Sequences, FiniteSets, SequencesExt

Of(events, type) == SelectSeq(events, LAMBDA e : e.type = type)

StepsOf(events, type) == {events[i].step : i \in {j \in DOMAIN events : events[j].type = type}}

At(items, step) == SelectSeq(items, LAMBDA e : e.step = step)

TextsOf(items) == [i \in DOMAIN items |-> items[i].text]

(* What is quoted under a step: the feedback to an accepted photo, what    *)
(* the technician said, and what was observed.                             *)
IsQuoted(e) ==
  \/ e.type = "photo" /\ e.from = "accepted"
  \/ e.type = "utterance" /\ e.from = "technician" /\ e.text # ""
  \/ e.type = "observation" /\ e.text # ""

Accepted(photos) == SelectSeq(photos, LAMBDA p : p.status = "accepted")

(* Done once completed, whether it was skipped before or after. *)
StatusOf(events, step) ==
  IF step \in StepsOf(events, "step.completed") THEN "done"
  ELSE IF step \in StepsOf(events, "step.skipped") THEN "skipped"
  ELSE "pending"

(* The last reason given for a step that counts as skipped. *)
ReasonOf(events, step) ==
  IF StatusOf(events, step) = "skipped"
  THEN Last(At(Of(events, "step.skipped"), step)).text
  ELSE ""

Contents(steps, events, photos) ==
  [procedure |->
     [s \in 0 .. steps - 1 |->
        [status |-> StatusOf(events, s),
         reason |-> ReasonOf(events, s),
         photos |-> At(Accepted(photos), s),
         observations |-> TextsOf(At(SelectSeq(events, IsQuoted), s)),
         findings |-> TextsOf(At(Of(events, "finding"), s))]],
   findings |-> Of(events, "finding"),
   measurements |-> Of(events, "measurement"),
   gallery |-> Accepted(photos),
   summary |-> [done |-> Cardinality(StepsOf(events, "step.completed")),
                of |-> steps,
                findings |-> Len(Of(events, "finding")),
                photos |-> Len(Accepted(photos))]]

Fields == {"findings", "measurements", "procedure", "gallery"}

(* What subscribers are told has changed. *)
Diff(old, new) == {field \in Fields \cup {"summary"} : old[field] # new[field]}

-----------------------------------------------------------------------------
(* The message an event is published as: as itself, or wrapped. *)
Wrapped == {"measurement", "finding", "command", "utterance", "observation"}

MessageOf(e) == IF e.type \in Wrapped THEN "event.appended" ELSE e.type

(* _on_bus_message: the others are passed over. *)
Relevant(e) ==
  CASE MessageOf(e) = "event.appended" ->
         e.type \in {"finding", "measurement", "utterance", "observation"}
    [] MessageOf(e) = "photo" -> e.from = "accepted"
    [] OTHER -> MessageOf(e) = "step.completed"
=============================================================================
