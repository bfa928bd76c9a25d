----------------------------- MODULE LiveReport -----------------------------
(***************************************************************************)
(* The maintenance report of one session while it is being written: the    *)
(* live builder, which rebuilds the report for every relevant message of   *)
(* the event bus (BuildLiveReportUseCase), whoever reads the report first, *)
(* and finalization (FinalizeReportUseCase).                               *)
(*                                                                         *)
(* A builder runs inside the request that published its message, so there  *)
(* are as many builders at work as there are requests.  Each reads the     *)
(* report, reads the events, and saves the whole row from what it read,    *)
(* without a lock or a comparison; every await is a step.                  *)
(*                                                                         *)
(* Contents are abstracted to the number of stored events they were built  *)
(* from: the first ones, up to the limit of the query.  The PDF and its    *)
(* hash are those of the contents they were rendered from.  That the last  *)
(* step must be completed is in SessionFlow.                               *)
(***************************************************************************)
EXTENDS Naturals

CONSTANTS
  Reqs,          \* requests, each handled once
  Commands,      \* what they ask for, among those below
  ReportLimit    \* the limit _build_content passes to list_since (500)

ASSUME CommandsAssumption == Commands \subseteq {"event", "get", "finalize"}

ASSUME LimitAssumption == ReportLimit \in Nat

VARIABLES
  events,        \* the number of stored events of the session
  finalized,     \* the session row is finalized
  report,        \* the maintenance_report row
  pdf,           \* the contents of the stored PDF, as a set of at most one
  closedAt,      \* history: the events there were when the session was first finalized
  req            \* [Reqs -> the local state of the handler]

vars == <<events, finalized, report, pdf, closedAt, req>>

Labels  == {"idle", "session", "report", "ensure", "ensureBuild", "insert", "build", "save",
            "saveSession", "put", "saveReport", "close", "done"}
Results == {"none", "accepted", "ignored", "refused", "duplicate", "lost"}
Content == Nat
Nothing == [status |-> "none"]       \* no row, no object

Draft == [status : {"draft"}, content : Content, version : Nat \ {0}]

Final == [status : {"final"}, content : Content, version : Nat \ {0}, sha : Content]

Row == {Nothing} \cup Draft \cup Final

Request ==
  [pc : Labels, cmd : {"event", "get", "finalize"},
   snap : Row,                \* the report as it was read
   content : Content,         \* the contents it built
   result : Results]

Idle == [pc |-> "idle", cmd |-> "get", snap |-> Nothing, content |-> 0, result |-> "none"]

Init ==
  /\ events = 0
  /\ finalized = FALSE
  /\ report = Nothing
  /\ pdf = {}
  /\ closedAt = 0
  /\ req = [r \in Reqs |-> Idle]

At(r, label) == req[r].pc = label

Runs(r, cmd) == req[r].cmd = cmd

Goto(r, label) == req' = [req EXCEPT ![r].pc = label]

Finish(r, result) == req' = [req EXCEPT ![r].pc = "done", ![r].result = result]

-----------------------------------------------------------------------------
(* An event is stored and published; the builder takes it from there.      *)
StoreEvent(r) ==
  /\ At(r, "idle") /\ "event" \in Commands
  /\ events' = events + 1
  /\ req' = [req EXCEPT ![r].pc = "session", ![r].cmd = "event"]
  /\ UNCHANGED <<finalized, report, pdf, closedAt>>

Call(r) ==
  /\ At(r, "idle")
  /\ \E cmd \in Commands \ {"event"} :
       req' = [req EXCEPT ![r].pc = IF cmd = "get" THEN "report" ELSE "session", ![r].cmd = cmd]
  /\ UNCHANGED <<events, finalized, report, pdf, closedAt>>

(* The builder ignores a finalized session, finalize refuses it.           *)
ReadSession(r) ==
  /\ At(r, "session")
  /\ IF finalized THEN Finish(r, IF Runs(r, "event") THEN "ignored" ELSE "refused")
     ELSE Goto(r, "report")
  /\ UNCHANGED <<events, finalized, report, pdf, closedAt>>

(* What each of them does with the report it has.                          *)
Proceed(r, found) ==
  \/ Runs(r, "get") /\ Finish(r, "accepted")
  \/ /\ ~Runs(r, "get") /\ found.status = "final"
     /\ Finish(r, IF Runs(r, "event") THEN "ignored" ELSE "refused")
  \/ /\ ~Runs(r, "get") /\ found.status # "final"
     /\ req' = [req EXCEPT ![r].pc = IF Runs(r, "event") THEN "build" ELSE "saveSession",
                           ![r].snap = found]

ReadReport(r) ==
  /\ At(r, "report")
  /\ IF report = Nothing THEN Goto(r, "ensure") ELSE Proceed(r, report)
  /\ UNCHANGED <<events, finalized, report, pdf, closedAt>>

-----------------------------------------------------------------------------
(* Of n events a report shows the first ones only, up to the limit.        *)
Shown(n) == IF n <= ReportLimit THEN n ELSE ReportLimit

(* ensure_report: looks again, builds a draft and inserts it.              *)
Ensure(r) ==
  /\ At(r, "ensure")
  /\ IF report = Nothing THEN Goto(r, "ensureBuild") ELSE Proceed(r, report)
  /\ UNCHANGED <<events, finalized, report, pdf, closedAt>>

EnsureBuild(r) ==
  /\ At(r, "ensureBuild")
  /\ req' = [req EXCEPT ![r].pc = "insert", ![r].content = Shown(events)]
  /\ UNCHANGED <<events, finalized, report, pdf, closedAt>>

NewDraft(r) == [status |-> "draft", content |-> req[r].content, version |-> 1]

InsertOrReplace(r) ==        \* mutation: ON CONFLICT (session_id) DO UPDATE
  /\ At(r, "insert")
  /\ report' = NewDraft(r)
  /\ Proceed(r, NewDraft(r))
  /\ UNCHANGED <<events, finalized, pdf, closedAt>>

(* The new row has an id of its own: a second one violates UNIQUE          *)
(* (session_id) and the call raises.                                       *)
Insert(r) ==
  /\ At(r, "insert")
  /\ IF report = Nothing THEN report' = NewDraft(r) /\ Proceed(r, NewDraft(r))
     ELSE Finish(r, "duplicate") /\ UNCHANGED report
  /\ UNCHANGED <<events, finalized, pdf, closedAt>>

-----------------------------------------------------------------------------
(* The rest of _rebuild: new contents, in the row that was read.           *)
Build(r) ==
  /\ At(r, "build")
  /\ req' = [req EXCEPT ![r].pc = IF Runs(r, "event") THEN "save" ELSE "put",
                        ![r].content = Shown(events)]
  /\ UNCHANGED <<events, finalized, report, pdf, closedAt>>

Save(r) ==
  /\ At(r, "save")
  /\ report' = [req[r].snap EXCEPT !.content = req[r].content, !.version = @ + 1]
  /\ Finish(r, "accepted")
  /\ UNCHANGED <<events, finalized, pdf, closedAt>>

-----------------------------------------------------------------------------
(* finalize, after its checks.                                             *)
SaveSessionAndReuse(r) ==    \* mutation: the draft's contents are not rebuilt
  /\ At(r, "saveSession")
  /\ finalized' = TRUE
  /\ closedAt' = IF finalized THEN closedAt ELSE events
  /\ req' = [req EXCEPT ![r].pc = "put", ![r].content = req[r].snap.content]
  /\ UNCHANGED <<events, report, pdf>>

SaveSession(r) ==
  /\ At(r, "saveSession")
  /\ finalized' = TRUE
  /\ closedAt' = IF finalized THEN closedAt ELSE events
  /\ Goto(r, "build")
  /\ UNCHANGED <<events, report, pdf>>

(* The PDF is rendered and stored under the one key of the session.        *)
Put(r) ==
  /\ At(r, "put")
  /\ pdf' = {req[r].content}
  /\ Goto(r, "saveReport")
  /\ UNCHANGED <<events, finalized, report, closedAt>>

(* mark_finalized on the draft that was read before.                       *)
FinalRow(r) ==
  [status |-> "final", content |-> req[r].content, version |-> req[r].snap.version + 1,
   sha |-> req[r].content]

SaveReport(r) ==
  /\ At(r, "saveReport")
  /\ report' = FinalRow(r)
  /\ Goto(r, "close")
  /\ UNCHANGED <<events, finalized, pdf, closedAt>>

(* session.closed is stored, and the answer carries the PDF's url.         *)
Close(r) ==
  /\ At(r, "close")
  /\ events' = events + 1
  /\ Finish(r, "accepted")
  /\ UNCHANGED <<finalized, report, pdf, closedAt>>

(* An instance crashes, or an await of the request raises.                 *)
Crash(r) ==
  /\ ~At(r, "idle") /\ ~At(r, "done")
  /\ Finish(r, "lost")
  /\ UNCHANGED <<events, finalized, report, pdf, closedAt>>

Next ==
  \E r \in Reqs :
    \/ StoreEvent(r) \/ Call(r)
    \/ ReadSession(r) \/ ReadReport(r) \/ Ensure(r) \/ EnsureBuild(r) \/ Insert(r)
    \/ Build(r) \/ Save(r)
    \/ SaveSession(r) \/ Put(r) \/ SaveReport(r) \/ Close(r)
    \/ Crash(r)

Spec == Init /\ [][Next]_vars

-----------------------------------------------------------------------------
TypeOK ==
  /\ events \in Nat
  /\ finalized \in BOOLEAN
  /\ report \in Row
  /\ pdf \in SUBSET Content
  /\ closedAt \in Nat
  /\ req \in [Reqs -> Request]

(* What was recorded before the session was closed is in its final report, *)
(* whatever drafts the builders were writing at the time, as far as the    *)
(* limit goes: of a longer session the report shows the first events, and  *)
(* all of those.                                                           *)
FinalReportComplete ==
  report.status = "final" => report.content >= Shown(closedAt)

(* A finalized report has its PDF in the storage, through crashes too.     *)
FinalReportHasPdf ==
  report.status = "final" => pdf # {}

FinalizedByOne ==
  \A r, q \in Reqs : (Runs(r, "finalize") /\ Runs(q, "finalize")) => r = q

(* The hash of a finalized report is that of the stored PDF, and both show *)
(* the contents of the report, as long as one request finalizes it.        *)
SealMatchesPdf ==
  (report.status = "final" /\ FinalizedByOne) =>
    pdf = {report.sha} /\ report.sha = report.content

(* A final report is whole: its contents, its PDF and the seal on both,    *)
(* which are built and saved in steps that other requests interleave with. *)
FinalReportWhole == FinalReportComplete /\ FinalReportHasPdf /\ SealMatchesPdf

(* A report that was updated never goes back to a first draft, whoever     *)
(* finds it missing meanwhile.                                             *)
NeverStartsOver ==
  [][report # Nothing =>
       report' # Nothing /\ (report.version > 1 => report'.version > 1)]_vars
=============================================================================
