---------------------------- MODULE SessionFlow ----------------------------
(***************************************************************************)
(* The life of one maintenance session under concurrent requests: REST     *)
(* events (step_advance, step_skip, the commands pause and resume,         *)
(* measurements and findings), the voice tool mark_step_complete, the      *)
(* pause that ends a conversation, accepted photos and finalization.       *)
(*                                                                         *)
(* Every use case loads the session row, decides on that snapshot, awaits  *)
(* other queries and writes the whole row back; nothing locks the row or   *)
(* compares it with the snapshot.  Every await on the database is a step   *)
(* here, and a request can stop at any of them (a crash of the instance,   *)
(* or a call that raises).                                                 *)
(*                                                                         *)
(* Left out, because no decision below depends on it: publication of the   *)
(* stored events (EventStore), the contents of the report (LiveReport), and *)
(* the work order and template, which do not change during a session.      *)
(***************************************************************************)
EXTENDS SessionEvents

CONSTANTS
  Reqs,            \* requests, each handled once
  EventIds,        \* event_ids clients choose; a retry repeats its id
  NumSteps,        \* number of steps of the template
  PhotoSteps,      \* photo_required_step_indices
  CriticalSteps,   \* critical_step_indices
  ScanLimit,       \* the limit finalize passes to list_since (500)
  Workload         \* the commands of a run

Commands == {"advance", "skip", "pause", "resume", "note",    \* POST /events
             "voice", "utterance", "photo", "finalize"}       \* the others

ASSUME TemplateAssumption ==
  /\ NumSteps \in Nat \ {0}
  /\ PhotoSteps \subseteq 0 .. NumSteps - 1
  /\ CriticalSteps \subseteq 0 .. NumSteps - 1

ASSUME LimitAssumption == ScanLimit \in Nat

ASSUME IdAssumption == Fresh \notin EventIds

ASSUME WorkloadAssumption == Workload \subseteq Commands

VARIABLES
  log,             \* the session_event rows
  row,             \* the maintenance_session row: status, current_step_index
  report,          \* a finalized maintenance_report row has been saved
  req              \* [Reqs -> the local state of the handler]

vars == <<log, row, report, req>>

Last       == NumSteps - 1
AnyStep    == 0 .. NumSteps        \* a client may name a step that is not there
Statuses   == {"active", "paused", "finalized"}
RestCommands == {"advance", "skip", "pause", "resume", "note"}
OtherCalls   == {"voice", "utterance", "skip", "pause", "resume", "photo", "finalize"}
Labels     == {"idle", "find", "load", "gate", "check", "scan", "report", "save",
               "saveReport", "seq", "append", "reread", "done"}
Refusals   == {"finalized", "wrong state", "needs photo", "critical", "not last", "open",
               "report final"}
Results    == {"none", "accepted", "conflict", "duplicate", "lost"} \cup Refusals
EventTypes == {"step.completed", "step.skipped", "step.entered", "session.paused",
               "step.paused", "session.resumed", "session.closed", "photo", "note"}

RowType == [id : EventIds \cup {Fresh}, seq : Nat, type : EventTypes, step : AnyStep]

SessionRow == [status : Statuses, step : 0 .. Last]

Request ==
  [pc : Labels, cmd : Commands, step : AnyStep, id : EventIds \cup {Fresh},
   snap : SessionRow,             \* the row as it was loaded
   nth : 0 .. 2,                  \* which of its events the request emits
   seq : Nat,                     \* the number next_seq gave it
   result : Results]

NewSession == [status |-> "active", step |-> 0]

Idle == [pc |-> "idle", cmd |-> "note", step |-> 0, id |-> Fresh, snap |-> NewSession,
         nth |-> 1, seq |-> 0, result |-> "none"]

Init ==
  /\ log = <<>>
  /\ row = NewSession
  /\ report = FALSE
  /\ req = [r \in Reqs |-> Idle]

-----------------------------------------------------------------------------
(* What the event table says of a step. *)
Completed(s) == Occurs(log, "step.completed", s)
Skipped(s)   == Occurs(log, "step.skipped", s)

At(r, label) == req[r].pc = label

Runs(r, cmds) == req[r].cmd \in cmds

Goto(r, label) == req' = [req EXCEPT ![r].pc = label]

(* The answer; what the handler had in its local variables is gone. *)
Finish(r, result) ==
  req' = [req EXCEPT ![r].pc = "done", ![r].result = result,
                     ![r].snap = NewSession, ![r].nth = 1, ![r].seq = 0]

(* The handler goes on to emit its n-th event. *)
GotoEmit(r, n) == req' = [req EXCEPT ![r].pc = "seq", ![r].nth = n]

-----------------------------------------------------------------------------
(* To pause, to resume and to finalize names no step. *)
NamedSteps(cmd) == IF cmd \in {"pause", "resume", "finalize"} THEN {0} ELSE AnyStep

(* POST /v1/sessions/{id}/events.  The id may have been used before: for a *)
(* retry of the same body, or, by mistake, for another one.                *)
Post(r) ==
  /\ At(r, "idle")
  /\ \E cmd \in RestCommands \cap Workload, id \in EventIds : \E step \in NamedSteps(cmd) :
       req' = [req EXCEPT ![r] =
         [Idle EXCEPT !.pc = "find", !.cmd = cmd, !.step = step, !.id = id]]
  /\ UNCHANGED <<log, row, report>>

(* The calls without a client id: the voice tools, an utterance, the       *)
(* routes that pause and resume, the webhook that pauses when a            *)
(* conversation ends, a photo that validate accepted, and finalize.  A     *)
(* voice tool that names no step takes the one of the row, which is one of *)
(* those chosen here.                                                      *)
Call(r) ==
  /\ At(r, "idle")
  /\ \E cmd \in OtherCalls \cap Workload : \E step \in NamedSteps(cmd) :
       req' = [req EXCEPT ![r] =
         [Idle EXCEPT !.pc = IF cmd = "photo" THEN "seq" ELSE "load",
                      !.cmd = cmd, !.step = step,
                      !.nth = IF cmd = "voice" THEN 0 ELSE 1]]
  /\ UNCHANGED <<log, row, report>>

(* An event_id that is already stored is answered without doing anything;  *)
(* the body is not compared with the stored one.                           *)
Find(r) ==
  /\ At(r, "find")
  /\ IF Known(log, req[r].id) THEN Finish(r, "accepted") ELSE Goto(r, "load")
  /\ UNCHANGED <<log, row, report>>

-----------------------------------------------------------------------------
(* Loading the session, and what each use case decides on it. *)
Loaded(r, label) == req' = [req EXCEPT ![r].pc = label, ![r].snap = row]

(* mark_step_complete: the photo gate is asked only where it is needed. *)
LoadAdvance(r) ==
  /\ At(r, "load") /\ (Runs(r, {"advance"}) \/ (Runs(r, {"voice"}) /\ req[r].nth = 1))
  /\ IF row.status = "finalized" THEN Finish(r, "finalized")
     ELSE Loaded(r, IF req[r].step \in PhotoSteps THEN "gate" ELSE "seq")
  /\ UNCHANGED <<log, row, report>>

(* Speech and tool calls are recorded whatever the state of the session. *)
LoadSpeech(r) ==
  /\ At(r, "load") /\ (Runs(r, {"utterance"}) \/ (Runs(r, {"voice"}) /\ req[r].nth = 0))
  /\ Loaded(r, "seq")
  /\ UNCHANGED <<log, row, report>>

LoadSkipByPosition(r) ==     \* mutation: asks whether the current step is critical
  /\ At(r, "load") /\ Runs(r, {"skip"})
  /\ IF row.status = "finalized" THEN Finish(r, "finalized")
     ELSE IF row.step \in CriticalSteps THEN Finish(r, "critical")
     ELSE Loaded(r, "seq")
  /\ UNCHANGED <<log, row, report>>

LoadSkip(r) ==
  /\ At(r, "load") /\ Runs(r, {"skip"})
  /\ IF row.status = "finalized" THEN Finish(r, "finalized")
     ELSE IF req[r].step \in CriticalSteps THEN Finish(r, "critical")
     ELSE Loaded(r, "seq")
  /\ UNCHANGED <<log, row, report>>

LoadPause(r) ==
  /\ At(r, "load") /\ Runs(r, {"pause"})
  /\ IF row.status = "finalized" THEN Finish(r, "finalized")
     ELSE IF row.status # "active" THEN Finish(r, "wrong state")
     ELSE Loaded(r, "save")
  /\ UNCHANGED <<log, row, report>>

LoadResume(r) ==
  /\ At(r, "load") /\ Runs(r, {"resume"})
  /\ IF row.status = "finalized" THEN Finish(r, "finalized")
     ELSE IF row.status # "paused" THEN Finish(r, "wrong state")
     ELSE Loaded(r, "save")
  /\ UNCHANGED <<log, row, report>>

LoadNote(r) ==
  /\ At(r, "load") /\ Runs(r, {"note"})
  /\ IF row.status = "finalized" THEN Finish(r, "finalized") ELSE Loaded(r, "check")
  /\ UNCHANGED <<log, row, report>>

LoadFinalize(r) ==
  /\ At(r, "load") /\ Runs(r, {"finalize"})
  /\ IF row.status = "finalized" THEN Finish(r, "finalized")
     ELSE IF row.step # Last THEN Finish(r, "not last")
     ELSE Loaded(r, "scan")
  /\ UNCHANGED <<log, row, report>>

(* has_accepted_photo. *)
Gate(r) ==
  /\ At(r, "gate")
  /\ IF HasAcceptedPhoto(log, req[r].step) THEN Goto(r, "seq") ELSE Finish(r, "needs photo")
  /\ UNCHANGED <<log, row, report>>

(* AppendEvent looks the id up once more. *)
Check(r) ==
  /\ At(r, "check")
  /\ IF Known(log, req[r].id) THEN Finish(r, "accepted") ELSE Goto(r, "seq")
  /\ UNCHANGED <<log, row, report>>

(* finalize looks for the completion of the last step in the first events. *)
AnyCompletedIn(rows) ==      \* mutation: the index is not compared
  \E w \in rows : w.type = "step.completed"

LastCompletedIn(rows) ==
  \E w \in rows : w.type = "step.completed" /\ w.step = Last

Scan(r) ==
  /\ At(r, "scan")
  /\ IF LastCompletedIn(ListSince(log, 0, ScanLimit)) THEN Goto(r, "report")
     ELSE Finish(r, "open")
  /\ UNCHANGED <<log, row, report>>

(* A finalized report refuses another finalization, unless the live        *)
(* builder has meanwhile written its draft back (LiveReport).              *)
ReadReport(r) ==
  /\ At(r, "report")
  /\ \/ report /\ Finish(r, "report final")
     \/ Goto(r, "save")
  /\ UNCHANGED <<log, row, report>>

-----------------------------------------------------------------------------
(* Saving the session: the whole row, from the snapshot. *)
NextStepRow(q) == [q.snap EXCEPT !.step = q.step + 1]

SaveStep(r) ==
  /\ At(r, "save") /\ Runs(r, {"advance", "voice", "skip"})
  /\ row' = NextStepRow(req[r])
  /\ IF Runs(r, {"skip"}) THEN Finish(r, "accepted") ELSE GotoEmit(r, 2)
  /\ UNCHANGED <<log, report>>

SaveStatus(r, status) == row' = [req[r].snap EXCEPT !.status = status]

SavePause(r) ==
  /\ At(r, "save") /\ Runs(r, {"pause"})
  /\ SaveStatus(r, "paused")
  /\ GotoEmit(r, 1)
  /\ UNCHANGED <<log, report>>

SaveResume(r) ==
  /\ At(r, "save") /\ Runs(r, {"resume"})
  /\ SaveStatus(r, "active")
  /\ GotoEmit(r, 1)
  /\ UNCHANGED <<log, report>>

SaveFinalizedOnly(r) ==      \* mutation: the end is announced before the report
  /\ At(r, "save") /\ Runs(r, {"finalize"})
  /\ SaveStatus(r, "finalized")
  /\ GotoEmit(r, 1)
  /\ UNCHANGED <<log, report>>

SaveFinalized(r) ==
  /\ At(r, "save") /\ Runs(r, {"finalize"})
  /\ SaveStatus(r, "finalized")
  /\ Goto(r, "saveReport")
  /\ UNCHANGED <<log, report>>

(* The report is rendered, stored and saved after the session. *)
SaveReport(r) ==
  /\ At(r, "saveReport")
  /\ report' = TRUE
  /\ GotoEmit(r, 1)
  /\ UNCHANGED <<log, row>>

-----------------------------------------------------------------------------
(* emit_system_event, and the append of measurements and findings. *)
EventType(cmd, n) ==
  CASE cmd \in {"advance", "voice"} /\ n = 1 -> "step.completed"
    [] cmd \in {"advance", "voice"} /\ n = 2 -> "step.entered"
    [] cmd = "skip"                        -> "step.skipped"
    [] cmd = "pause" /\ n = 1              -> "session.paused"
    [] cmd = "pause" /\ n = 2              -> "step.paused"
    [] cmd = "resume"                      -> "session.resumed"
    [] cmd = "finalize"                    -> "session.closed"
    [] cmd = "photo"                       -> "photo"
    [] OTHER                               -> "note"

EventStepOfSession(q) ==     \* mutation: the step of the row, not of the request
  IF q.cmd = "photo" THEN q.step ELSE q.snap.step

EventStep(q) ==
  IF q.cmd \in {"pause", "resume", "finalize"} THEN q.snap.step
  ELSE IF q.cmd \in {"advance", "voice"} /\ q.nth = 2 THEN q.step + 1
  ELSE q.step

(* The client's id goes with the first event; the second gets its own. *)
Event(q) ==
  [id   |-> IF q.nth = 1 THEN q.id ELSE Fresh,
   seq  |-> q.seq,
   type |-> EventType(q.cmd, q.nth),
   step |-> EventStep(q)]

ReadSeq(r) ==
  /\ At(r, "seq")
  /\ req' = [req EXCEPT ![r].pc = "append", ![r].seq = NextSeq(log)]
  /\ UNCHANGED <<log, row, report>>

(* After a step event the row moves on, unless it was the last step. *)
MovesOn(q) ==
  q.cmd \in {"advance", "voice", "skip"} /\ q.nth = 1 /\ q.step + 1 < NumSteps

AfterStore(r) ==
  CASE MovesOn(req[r]) -> Goto(r, "save")
    [] req[r].cmd = "voice" /\ req[r].nth = 0 ->
         req' = [req EXCEPT ![r].pc = "load", ![r].nth = 1]
    [] req[r].cmd = "voice" /\ req[r].nth # 0 /\ ~MovesOn(req[r]) -> Goto(r, "reread")
    [] req[r].cmd = "pause" /\ req[r].nth = 1 -> GotoEmit(r, 2)
    [] OTHER -> Finish(r, "accepted")

StoreOrGoOn(r) ==            \* mutation: the error of append is swallowed
  /\ At(r, "append")
  /\ log' = IF AppendOutcome(log, Event(req[r])) = "stored" THEN Append(log, Event(req[r])) ELSE log
  /\ AfterStore(r)
  /\ UNCHANGED <<row, report>>

Store(r) ==
  /\ At(r, "append")
  /\ LET outcome == AppendOutcome(log, Event(req[r]))
     IN  IF outcome = "stored"
         THEN log' = Append(log, Event(req[r])) /\ AfterStore(r)
         ELSE Finish(r, outcome) /\ UNCHANGED log
  /\ UNCHANGED <<row, report>>

(* The voice tool reads the step to announce. *)
Reread(r) ==
  /\ At(r, "reread")
  /\ Finish(r, IF row.status = "finalized" THEN "finalized" ELSE "accepted")
  /\ UNCHANGED <<log, row, report>>

(* The request stops: its instance crashes, or an await raises. *)
Crash(r) ==
  /\ ~At(r, "idle") /\ ~At(r, "done")
  /\ Finish(r, "lost")
  /\ UNCHANGED <<log, row, report>>

Next ==
  \E r \in Reqs :
    \/ Post(r) \/ Call(r) \/ Find(r)
    \/ LoadAdvance(r) \/ LoadSpeech(r) \/ LoadSkip(r) \/ LoadPause(r) \/ LoadResume(r)
    \/ LoadNote(r) \/ LoadFinalize(r)
    \/ Gate(r) \/ Check(r) \/ Scan(r) \/ ReadReport(r)
    \/ SaveStep(r) \/ SavePause(r) \/ SaveResume(r) \/ SaveFinalized(r) \/ SaveReport(r)
    \/ ReadSeq(r) \/ Store(r) \/ Reread(r)
    \/ Crash(r)

Spec == Init /\ [][Next]_vars

-----------------------------------------------------------------------------
TypeOK ==
  /\ log \in Seq(RowType)
  /\ row \in SessionRow
  /\ report \in BOOLEAN
  /\ req \in [Reqs -> Request]

(* A step that requires a photo is reported as completed only after a      *)
(* photo of that very step was accepted, although the gate is a query of   *)
(* its own and other requests move the session meanwhile (contract 4.4).   *)
PhotoGate ==
  \A i \in DOMAIN log :
    (log[i].type = "step.completed" /\ log[i].step \in PhotoSteps) =>
      OccursBefore(log, i, "photo", log[i].step)

(* The technician is at a step only because its predecessor was completed, *)
(* or skipped and not critical: the whole-row saves of stale snapshots     *)
(* never put the session where nobody moved it.                            *)
PositionEarned ==
  row.step > 0 =>
    \/ Completed(row.step - 1)
    \/ Skipped(row.step - 1) /\ row.step - 1 \notin CriticalSteps

(* step.entered is announced only after the step before it was completed.  *)
EnteredAfterCompleted ==
  \A i \in DOMAIN log :
    log[i].type = "step.entered" =>
      log[i].step > 0 /\ OccursBefore(log, i, "step.completed", log[i].step - 1)

(* A session is finalized, and its end announced, only after the last step *)
(* was completed, whichever requests race with finalize (contract 4.4).    *)
FinalizedAfterLast ==
  /\ row.status = "finalized" => Completed(Last)
  /\ report => Completed(Last)
  /\ \A i \in DOMAIN log : log[i].type = "session.closed" => OccursBefore(log, i, "step.completed", Last)

(* session.closed is announced only after a finalized report was saved.    *)
ClosedHasReport ==
  (\E i \in DOMAIN log : log[i].type = "session.closed") => report

(* The end of a session: the last step, then the report, then the news.    *)
ClosedInOrder == FinalizedAfterLast /\ ClosedHasReport

(* The session pauses the step it was at: step.paused follows the          *)
(* session.paused of the same step.                                        *)
StepPausedFollows ==
  \A i \in DOMAIN log :
    log[i].type = "step.paused" => OccursBefore(log, i, "session.paused", log[i].step)

(* The order of the procedure: no step is entered, or become the position, *)
(* before the one before it was left, and a step pauses with its session.  *)
StepsInOrder == PositionEarned /\ EnteredAfterCompleted /\ StepPausedFollows

(* The event a request asks for, and the one stored under the id of a      *)
(* request that said something else.                                       *)
Recorded(r) == Occurs(log, EventType(req[r].cmd, 1), req[r].step)

OwnRow(i, q) ==
  /\ log[i].id = req[q].id
  /\ log[i].type = EventType(req[q].cmd, 1)
  /\ Runs(q, {"advance", "skip"}) => log[i].step = req[q].step

SameBody(r, q) == req[r].cmd = req[q].cmd /\ req[r].step = req[q].step

IdOfAnother(r) ==
  /\ req[r].id # Fresh
  /\ \E i \in DOMAIN log, q \in Reqs :
       log[i].id = req[r].id /\ OwnRow(i, q) /\ ~SameBody(r, q)

(* A technician who was told that a step is completed or skipped, or that  *)
(* a photo was accepted, finds it so in the log, be the answer that to a   *)
(* retry, and whatever became of the request retried.  The exception is a  *)
(* client that gave two bodies one id: the second is answered for the      *)
(* first, where the contract wants 409 IDEMPOTENCY_KEY_REUSED.             *)
AcceptedIsRecorded ==
  \A r \in Reqs :
    (req[r].result = "accepted" /\ Runs(r, {"advance", "skip", "voice", "photo"})) =>
      Recorded(r) \/ IdOfAnother(r)

(* The session carries out the procedure as promised.                      *)
StepsOf(type) == {log[i].step : i \in {k \in DOMAIN log : log[k].type = type}}

Promise == INSTANCE Procedure WITH
  photographed <- StepsOf("photo"),
  completed    <- StepsOf("step.completed"),
  skipped      <- StepsOf("step.skipped"),
  position     <- row.step,
  closed       <- report

Implements == Promise!Spec

-----------------------------------------------------------------------------
(* integration_contracts.md: 409 SESSION_ALREADY_FINALIZED for every       *)
(* mutation of a closed session: finalized is a final state.               *)
FinalizedIsFinal ==
  [][row.status = "finalized" => row'.status = "finalized"]_vars
=============================================================================
