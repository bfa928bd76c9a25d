---------------------------- MODULE VoiceRouting ----------------------------
(***************************************************************************)
(* What the voice agent makes of a session: the webhooks of a conversation *)
(* (it started, somebody spoke, it ended), the intents a sentence of the   *)
(* technician is routed by, and the tools that the agent calls itself.     *)
(*                                                                         *)
(* Every handler is a chain of use cases, and each of them loads the       *)
(* session again, decides on what it loaded, and appends events or writes  *)
(* the whole row back.  A plan lists the awaits of a handler in the order  *)
(* of the code: a load, a write of the row, a call of another service, or  *)
(* the event that it appends.  Any of them may raise.                      *)
(*                                                                         *)
(* Nothing compares a delivery with an earlier one (the call_id is only    *)
(* written down), so that a webhook or a tool call that is sent again is   *)
(* one more request with the same kind and step.  The photo gate of        *)
(* mark_step_complete is one of the things that may raise here;            *)
(* SessionFlow has it, and the numbering of the events.                    *)
(***************************************************************************)
EXTENDS Naturals, Sequences

CONSTANTS
  Reqs,             \* requests, each handled once
  NumSteps,         \* number of steps of the template
  CriticalSteps,    \* critical_step_indices
  Workload,         \* [Reqs -> the kinds that a request may be]
  None              \* a step that a tool call does not name, a graph not there

ASSUME StepsAssumption ==
  /\ NumSteps \in Nat \ {0} /\ CriticalSteps \subseteq 0 .. NumSteps - 1
  /\ None \notin 0 .. NumSteps

VARIABLES
  log,              \* the events of the session, with the request that stored each
  row,              \* the maintenance_session row: status, current_step_index
  graph,            \* the step LangGraph has for the session
  req               \* [Reqs -> the local state of the handler]

vars == <<log, row, graph, req>>

Last  == NumSteps - 1
Steps == 0 .. Last

(* What a tool call may name: no range is checked, and NumSteps stands for *)
(* every number past the last.  (A negative one raises at the first event, *)
(* as Raise has it.)                                                       *)
Named == 0 .. NumSteps

-----------------------------------------------------------------------------
(* The awaits of the use cases, in order. *)
Loads  == {"hear", "look", "context", "skippable", "pausable", "resumable",
           "connectable", "last"}

MarkMovesFirst ==                  \* mutation: the session moves before the step is reported
  <<"look", "tool.called", "context", "move", "step.completed", "step.entered", "context">>

MarkStepComplete ==
  <<"look", "tool.called", "context", "step.completed", "move", "step.entered", "context">>

SkipStep       == <<"skippable", "step.skipped", "move">>
PauseSession   == <<"pausable", "pause", "session.paused", "step.paused">>
QueryManual    == <<"look", "assistant.answering", "tool.called", "manual", "assistant.answered">>
AddMeasurement == <<"look", "tool.called", "measurement">>
AddFinding     == <<"look", "tool.called", "finding">>
RequestPhoto   == <<"look", "tool.called", "photo.requested">>
GetCurrentStep == <<"context", "tool.called">>
Spoken         == <<"look", "utterance">>
Observation    == <<"look", "observation">>
ConnectSession == <<"connectable", "sign">>

(* execute_tool. *)
Tools ==
  [mark_step_complete |-> MarkStepComplete, skip_step |-> SkipStep,
   pause_session |-> PauseSession, query_manual |-> QueryManual,
   add_measurement |-> AddMeasurement, add_finding |-> AddFinding,
   request_evidence_photo |-> RequestPhoto, get_current_step |-> GetCurrentStep]

(* What classify_and_route does with the intent of a sentence. *)
RouteOf(intent) ==
  CASE intent = "advance"     -> Tools.mark_step_complete
    [] intent = "skip"        -> Tools.skip_step
    [] intent = "pause"       -> Tools.pause_session
    [] intent = "query"       -> Tools.query_manual
    [] intent = "measurement" -> Tools.add_measurement
    [] intent = "finding"     -> Tools.add_finding
    [] intent = "narration"   -> Observation
    [] intent \in {"repeat", "unknown"} -> <<>>

(* What classify may answer: anything else it is told becomes "unknown". *)
Intents  == {"advance", "repeat", "skip", "pause", "query", "measurement", "finding",
             "narration", "unknown"}
Webhooks == {"started", "agent speaks", "ended",
             "logged"}  \* tool.called, tool.responded, turn.speaker_changed, error
AppCalls == {"connect", "resume", "finalize"} \* routes of the app that race with them
Kinds    == Intents \cup Webhooks \cup DOMAIN Tools \cup AppCalls

ASSUME WorkloadAssumption == Workload \in [Reqs -> SUBSET Kinds]

PlanRouteFirst(kind) ==            \* mutation: the sentence is recorded after it was obeyed
  CASE kind \in Intents       -> <<"hear">> \o RouteOf(kind) \o Spoken
    [] kind = "started"       -> <<"look", "ensure">>
    [] kind = "agent speaks"  -> Spoken
    [] kind = "ended"         -> Tools.pause_session
    [] kind = "logged"        -> <<"look">>
    [] kind \in DOMAIN Tools  -> Tools[kind]
    [] kind = "connect"       -> ConnectSession
    [] kind = "resume"        -> <<"resumable", "resume", "session.resumed">>
    [] kind = "finalize"      -> <<"last", "finalize", "session.closed">>

Plan(kind) ==
  CASE kind \in Intents       -> <<"hear">> \o Spoken \o RouteOf(kind)
    [] kind = "started"       -> <<"look", "ensure">>
    [] kind = "agent speaks"  -> Spoken
    [] kind = "ended"         -> Tools.pause_session
    [] kind = "logged"        -> <<"look">>
    [] kind \in DOMAIN Tools  -> Tools[kind]
    [] kind = "connect"       -> ConnectSession
    [] kind = "resume"        -> <<"resumable", "resume", "session.resumed">>
    [] kind = "finalize"      -> <<"last", "finalize", "session.closed">>

-----------------------------------------------------------------------------
NewSession == [status |-> "active", step |-> 0]

Idle == [kind |-> None, rest |-> <<>>, step |-> None, snap |-> NewSession, result |-> "none"]

Init ==
  /\ log = <<>>
  /\ row = NewSession
  /\ graph = None
  /\ req = [r \in Reqs |-> Idle]

Moves(kind) == kind \in {"mark_step_complete", "advance", "skip_step", "skip"}

Completed(s) == \E i \in DOMAIN log : log[i].type = "step.completed" /\ log[i].step = s
Running(r)   == req[r].result = "running"
Does(r, ops) == Running(r) /\ req[r].rest # <<>> /\ Head(req[r].rest) \in ops
Does1(r, op) == Does(r, {op})

(* The handler goes on with the rest of its plan, or has come to its end. *)
GoOnWith(r, q, rest) ==
  req' = [req EXCEPT ![r] =
    IF rest = <<>> THEN [Idle EXCEPT !.kind = q.kind, !.step = q.step, !.result = "accepted"]
    ELSE [q EXCEPT !.rest = rest]]

GoOn(r) == GoOnWith(r, req[r], Tail(req[r].rest))

Refuse(r) == req' = [req EXCEPT ![r] = [Idle EXCEPT !.kind = req[r].kind, !.result = "refused"]]

Begin(r, kind, step) ==
  /\ req[r] = Idle /\ kind \in Workload[r]
  /\ req' = [req EXCEPT ![r] = [Idle EXCEPT !.kind = kind, !.step = step,
                                           !.rest = Plan(kind), !.result = "running"]]
  /\ UNCHANGED <<log, row, graph>>

Reject(r, kind) ==
  /\ req[r] = Idle /\ kind \in Workload[r]
  /\ req' = [req EXCEPT ![r] = [Idle EXCEPT !.kind = kind, !.result = "refused"]]
  /\ UNCHANGED <<log, row, graph>>

(* A signed webhook: in the name of the technician of the session. *)
Webhook(r) == \E kind \in Intents \cup Webhooks : Begin(r, kind, None)

(* No signature, another one, or one whose time is too far from now. *)
RejectWebhook(r) == \E kind \in Intents \cup Webhooks : Reject(r, kind)

(* A tool call may name the step to complete, must name the one to skip or *)
(* to photograph.                                                          *)
NamedSteps(tool) ==
  CASE tool = "mark_step_complete" -> Named \cup {None}
    [] tool \in {"skip_step", "request_evidence_photo"} -> Named
    [] OTHER -> {None}

CallTool(r) == \E tool \in DOMAIN Tools : \E step \in NamedSteps(tool) : Begin(r, tool, step)

(* Neither a token of the technician nor the secret of the agent, or the   *)
(* technician is blocked.                                                  *)
RejectCall(r) == \E tool \in DOMAIN Tools : Reject(r, tool)

CallRoute(r) == \E kind \in AppCalls : Begin(r, kind, None)

-----------------------------------------------------------------------------
(* Loads: the handler keeps the row as it was. *)
Admitted(r, op) ==
  CASE op \in {"hear", "look"} -> TRUE
    [] op = "context"     -> row.status # "finalized"
    [] op = "skippable"   -> row.status # "finalized" /\ req[r].step \notin CriticalSteps
    [] op = "pausable"    -> row.status = "active"
    [] op = "resumable"   -> row.status = "paused"
    [] op = "connectable" -> row.status \in {"active", "paused"}
    [] op = "last"        -> row.status # "finalized" /\ row.step = Last /\ Completed(Last)

(* A sentence is about the step it was heard at; a tool that was told none *)
(* takes the one it finds.                                                 *)
StepMeant(r) ==
  IF req[r].step = None /\ Moves(req[r].kind) THEN row.step ELSE req[r].step

Load(r) ==
  /\ Does(r, Loads)
  /\ IF Admitted(r, Head(req[r].rest))
     THEN LET step == StepMeant(r)
          IN  GoOnWith(r, [req[r] EXCEPT !.snap = row, !.step = step], Tail(req[r].rest))
     ELSE Refuse(r)
  /\ UNCHANGED <<log, row, graph>>

-----------------------------------------------------------------------------
(* Events. *)
Events == {"utterance", "observation", "tool.called", "step.completed", "step.entered",
           "step.skipped", "session.paused", "step.paused", "session.resumed",
           "session.closed", "assistant.answering", "assistant.answered",
           "measurement", "finding", "photo.requested"}

(* Speech is filed under the step of the session, as it was just loaded;   *)
(* a tool that was given a step files under that one.                      *)
EventStep(r, type) ==
  IF type = "step.entered" THEN req[r].step + 1
  ELSE IF type \notin {"utterance", "observation"} /\ req[r].step # None THEN req[r].step
  ELSE req[r].snap.step

AfterEmitAlways(r) == Tail(req[r].rest)  \* mutation: the end of the procedure forgotten

(* After the last step was completed or skipped, or one past it, the row   *)
(* stays, and no step is entered.                                          *)
AfterEmit(r) ==
  LET rest == Tail(req[r].rest)
  IN  IF rest # <<>> /\ Head(rest) = "move" /\ req[r].step >= Last
      THEN SubSeq(rest, 3, Len(rest))
      ELSE rest

EmitOrGoOn(r) ==                   \* mutation: an append that fails is passed over
  /\ Does(r, Events)
  /\ LET type == Head(req[r].rest)
     IN  log' \in {log, Append(log, [type |-> type, step |-> EventStep(r, type), by |-> r])}
  /\ GoOnWith(r, req[r], AfterEmit(r))
  /\ UNCHANGED <<row, graph>>

(* next_seq and append; the number may be taken meanwhile (Raise). *)
Emit(r) ==
  /\ Does(r, Events)
  /\ LET type == Head(req[r].rest)
     IN  log' = Append(log, [type |-> type, step |-> EventStep(r, type), by |-> r])
  /\ GoOnWith(r, req[r], AfterEmit(r))
  /\ UNCHANGED <<row, graph>>

-----------------------------------------------------------------------------
(* Writes of the row, whole, from what was loaded. *)
MovedActive(r) == [status |-> "active", step |-> req[r].step + 1]    \* mutation

Moved(r) == [req[r].snap EXCEPT !.step = req[r].step + 1]

Move(r) ==
  /\ Does1(r, "move")
  /\ row' = Moved(r)
  /\ GoOn(r)
  /\ UNCHANGED <<log, graph>>

SaveStatus(r) ==
  /\ Does(r, {"pause", "resume", "finalize"})
  /\ row' = [req[r].snap EXCEPT !.status =
               CASE Does1(r, "pause") -> "paused"
                 [] Does1(r, "resume") -> "active"
                 [] Does1(r, "finalize") -> "finalized"]
  /\ GoOn(r)
  /\ UNCHANGED <<log, graph>>

(* The manual answers, or abstains. *)
AskManual(r) ==
  /\ Does1(r, "manual")
  /\ GoOn(r)
  /\ UNCHANGED <<log, row, graph>>

(* The voice service gives the app a URL to speak with; the session does   *)
(* not change, and may have ended meanwhile.                               *)
Sign(r) ==
  /\ Does1(r, "sign")
  /\ GoOn(r)
  /\ UNCHANGED <<log, row, graph>>

(* LangGraph takes the step with which it first hears of the session. *)
Ensure(r) ==
  /\ Does1(r, "ensure")
  /\ graph' = IF graph = None THEN req[r].snap.step ELSE graph
  /\ GoOn(r)
  /\ UNCHANGED <<log, row>>

(* A service that knows nothing of sessions (404, 501) is passed over. *)
EnsureNothing(r) ==
  /\ Does1(r, "ensure")
  /\ GoOn(r)
  /\ UNCHANGED <<log, row, graph>>

(* An await raises: the database, the number of an event, a missing photo, *)
(* a sentence without a measurement, a manual that is not there, LangGraph;*)
(* or the instance ends.                                                   *)
Raise(r) ==
  /\ Running(r)
  /\ Refuse(r)
  /\ UNCHANGED <<log, row, graph>>

Next ==
  \E r \in Reqs :
    \/ Webhook(r) \/ CallTool(r) \/ CallRoute(r) \/ RejectWebhook(r) \/ RejectCall(r)
    \/ Load(r) \/ Emit(r) \/ Move(r) \/ SaveStatus(r)
    \/ AskManual(r) \/ Sign(r) \/ Ensure(r) \/ EnsureNothing(r) \/ Raise(r)

Spec == Init /\ [][Next]_vars

-----------------------------------------------------------------------------
TypeOK ==
  /\ log \in Seq([type : Events, step : Named, by : Reqs])
  /\ row \in [status : {"active", "paused", "finalized"}, step : Steps]
  /\ graph \in Steps \cup {None}
  /\ \A r \in Reqs :
       /\ req[r].kind \in Kinds \cup {None} /\ req[r].step \in Named \cup {None}
       /\ req[r].snap \in [status : {"active", "paused", "finalized"}, step : Steps]
       /\ req[r].result \in {"none", "running", "accepted", "refused"}

(* What is filed under the position of the session (speech, observations,  *)
(* measurements, questions) is filed under a step the technician had been  *)
(* moved to before: the step before it is in the log, completed or         *)
(* skipped, at an earlier place.  The same holds of the step LangGraph     *)
(* starts with.                                                            *)
ByPosition(e) == e.type \in {"utterance", "observation", "measurement", "finding",
                             "assistant.answering", "assistant.answered"}

LeftBehind(s, n) ==
  s = 0 \/ \E i \in 1 .. n : log[i].type \in {"step.completed", "step.skipped"} /\ log[i].step = s - 1

FiledWhereItWas ==
  /\ \A i \in DOMAIN log : ByPosition(log[i]) => LeftBehind(log[i].step, i - 1)
  /\ graph # None => LeftBehind(graph, Len(log))

(* The technician's words come first: whatever else a sentence caused has  *)
(* a row after the utterance of the same delivery.                         *)
WordsComeFirst ==
  \A i \in DOMAIN log :
    (req[log[i].by].kind \in Intents /\ log[i].type # "utterance") =>
      \E j \in 1 .. i - 1 : log[j].by = log[i].by /\ log[j].type = "utterance"

(* The apps were told all of it: an answered request has left every event  *)
(* of its tool, under one step, the announcement of the question before    *)
(* the call of the tool before its effect.                                 *)
Effects(kind) ==
  CASE kind \in {"advance", "mark_step_complete"} -> <<"tool.called", "step.completed">>
    [] kind \in {"query", "query_manual"} ->
         <<"assistant.answering", "tool.called", "assistant.answered">>
    [] kind \in {"measurement", "add_measurement"} -> <<"tool.called", "measurement">>
    [] kind \in {"finding", "add_finding"} -> <<"tool.called", "finding">>
    [] kind = "request_evidence_photo" -> <<"tool.called", "photo.requested">>
    [] kind \in {"pause", "pause_session", "ended"} -> <<"session.paused", "step.paused">>
    [] kind \in {"skip", "skip_step"} -> <<"step.skipped">>
    [] OTHER -> <<>>

AcceptedIsTold ==
  \A r \in Reqs :
    LET types == Effects(req[r].kind)
    IN  req[r].result = "accepted" /\ types # <<>> =>
          \E s \in Named : \E place \in [1 .. Len(types) -> DOMAIN log] :
            \A n \in DOMAIN types :
              /\ log[place[n]] = [type |-> types[n], step |-> s, by |-> r]
              /\ n > 1 => place[n - 1] < place[n]

(* A pause holds until the app resumes, unless a tool that loaded the      *)
(* session before the pause writes it back: a sentence or a tool that      *)
(* finds the session paused moves it, but does not take it up again.       *)
PauseHolds ==
  [][(row.status = "paused" /\ row'.status = "active") =>
       \E r \in Reqs : Does1(r, "resume") \/ (Does1(r, "move") /\ req[r].snap.status = "active")]_vars
=============================================================================
