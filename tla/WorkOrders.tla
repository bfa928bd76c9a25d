----------------------------- MODULE WorkOrders -----------------------------
(***************************************************************************)
(* Starting the work on one work order: the row of the order, the sessions *)
(* opened for it and the requests that start a session, pause it, resume   *)
(* it and finalize it (StartSessionUseCase and the saves of the session    *)
(* use cases).  Starting writes two tables in two transactions: the        *)
(* session first, the order after it.                                      *)
(*                                                                         *)
(* The order is assigned to one technician for good: nothing in the code   *)
(* reassigns it, so that the refusal of a second technician cannot happen. *)
(* The id of a new session is a fresh uuid4, here the name of the request  *)
(* that creates it.  When a session may be finalized is in SessionFlow.    *)
(* The demo fixtures also hold an order that is in progress and has no     *)
(* session: starting it is refused, and nothing else ever happens to it.   *)
(***************************************************************************)
EXTENDS Naturals

CONSTANTS
  Reqs,          \* requests, each handled once; also the ids of new sessions
  NoSession      \* no session id

ASSUME NoSessionAssumption == NoSession \notin Reqs

VARIABLES
  order,         \* status of the work_order row
  sessions,      \* [Reqs -> status of the maintenance_session row, or "none"]
  req,           \* [Reqs -> the local state of the handler]
  reseeded       \* history: a started order was seeded again

vars == <<order, sessions, req, reseeded>>

OrderStatuses == {"pending", "in_progress", "completed"}
Statuses      == {"none", "active", "paused", "finalized"}
Changes       == {"pause", "resume", "finalize"}
Labels        == {"idle", "order", "active", "insert", "saveOrder", "load", "save", "done"}
Results       == {"none", "accepted", "completed", "already started", "refused", "duplicate",
                  "lost"}

Request ==
  [pc : Labels, cmd : {"start"} \cup Changes,
   sid : Reqs \cup {NoSession},      \* the session it works on
   seen : OrderStatuses,             \* the order as it was read
   was : Statuses,                   \* the session as it was read
   result : Results]

Idle == [pc |-> "idle", cmd |-> "start", sid |-> NoSession, seen |-> "pending",
         was |-> "none", result |-> "none"]

Init ==
  /\ order \in {"pending", "completed"}
  /\ sessions = [s \in Reqs |-> "none"]
  /\ req = [r \in Reqs |-> Idle]
  /\ reseeded = FALSE

At(r, label) == req[r].pc = label

Goto(r, label) == req' = [req EXCEPT ![r].pc = label]

Finish(r, result) == req' = [req EXCEPT ![r].pc = "done", ![r].result = result]

(* The rows that the partial unique index on work_order_id covers.         *)
Open == {s \in Reqs : sessions[s] \in {"active", "paused"}}

-----------------------------------------------------------------------------
(* POST /v1/work-orders/{id}/start.                                        *)
Start(r) ==
  /\ At(r, "idle")
  /\ req' = [req EXCEPT ![r].pc = "order", ![r].cmd = "start"]
  /\ UNCHANGED <<order, sessions, reseeded>>

ReadOrder(r) ==
  /\ At(r, "order")
  /\ IF order = "completed" THEN Finish(r, "completed")
     ELSE req' = [req EXCEPT ![r].pc = "active", ![r].seen = order]
  /\ UNCHANGED <<order, sessions, reseeded>>

(* A start that finds an open session of its technician is answered with   *)
(* that session, as the tests of the code have it; the contract and the    *)
(* plan want it refused (WORK_ORDER_ALREADY_STARTED).  The order is saved  *)
(* as started if the one read before was not.                              *)
ResumeExisting(r, s) ==
  IF req[r].seen = "pending"
  THEN req' = [req EXCEPT ![r].sid = s, ![r].pc = "saveOrder"]
  ELSE req' = [req EXCEPT ![r].sid = s, ![r].pc = "done", ![r].result = "accepted"]

FindActiveAndSave(r) ==      \* mutation: the order is saved before the session
  /\ At(r, "active")
  /\ IF Open # {} THEN (\E s \in Open : ResumeExisting(r, s)) /\ UNCHANGED order
     ELSE IF req[r].seen = "in_progress" THEN Finish(r, "already started") /\ UNCHANGED order
     ELSE Goto(r, "insert") /\ order' = "in_progress"
  /\ UNCHANGED <<sessions, reseeded>>

FindActive(r) ==
  /\ At(r, "active")
  /\ IF Open # {} THEN \E s \in Open : ResumeExisting(r, s)
     ELSE IF req[r].seen = "in_progress" THEN Finish(r, "already started")
     ELSE Goto(r, "insert")
  /\ UNCHANGED <<order, sessions, reseeded>>

InsertAnyway(r) ==           \* mutation: no partial unique index
  /\ At(r, "insert")
  /\ sessions' = [sessions EXCEPT ![r] = "active"]
  /\ req' = [req EXCEPT ![r].sid = r, ![r].pc = "saveOrder"]
  /\ UNCHANGED <<order, reseeded>>

Insert(r) ==
  /\ At(r, "insert")
  /\ IF Open # {} THEN Finish(r, "duplicate") /\ UNCHANGED sessions
     ELSE /\ sessions' = [sessions EXCEPT ![r] = "active"]
          /\ req' = [req EXCEPT ![r].sid = r, ![r].pc = "saveOrder"]
  /\ UNCHANGED <<order, reseeded>>

(* The order that was read is saved as in progress.                        *)
SaveOrder(r) ==
  /\ At(r, "saveOrder")
  /\ order' = "in_progress"
  /\ Finish(r, "accepted")
  /\ UNCHANGED <<sessions, reseeded>>

-----------------------------------------------------------------------------
(* The use cases that change the status of a session: load, then save.     *)
Change(r) ==
  /\ At(r, "idle")
  /\ \E cmd \in Changes, s \in {t \in Reqs : sessions[t] # "none"} :
       req' = [req EXCEPT ![r].pc = "load", ![r].cmd = cmd, ![r].sid = s]
  /\ UNCHANGED <<order, sessions, reseeded>>

Allowed(cmd, status) ==
  \/ cmd = "pause"    /\ status = "active"
  \/ cmd = "resume"   /\ status = "paused"
  \/ cmd = "finalize" /\ status # "finalized"

LoadSession(r) ==
  /\ At(r, "load")
  /\ LET status == sessions[req[r].sid]
     IN  IF Allowed(req[r].cmd, status)
         THEN req' = [req EXCEPT ![r].pc = "save", ![r].was = status]
         ELSE Finish(r, "refused")
  /\ UNCHANGED <<order, sessions, reseeded>>

Becomes(cmd) ==
  CASE cmd = "pause" -> "paused" [] cmd = "resume" -> "active" [] cmd = "finalize" -> "finalized"

(* An upsert by id: it too can violate the partial unique index.           *)
SaveSession(r) ==
  /\ At(r, "save")
  /\ IF req[r].cmd # "finalize" /\ Open \ {req[r].sid} # {}
     THEN Finish(r, "duplicate") /\ UNCHANGED sessions
     ELSE /\ sessions' = [sessions EXCEPT ![req[r].sid] = Becomes(req[r].cmd)]
          /\ Finish(r, "accepted")
  /\ UNCHANGED <<order, reseeded>>

(* An instance crashes, or an await of the request raises.                 *)
Crash(r) ==
  /\ ~At(r, "idle") /\ ~At(r, "done")
  /\ Finish(r, "lost")
  /\ UNCHANGED <<order, sessions, reseeded>>

(* An instance that starts upserts the demo orders as they were at first,  *)
(* whatever has become of them: one that was started is pending again.     *)
Reseed ==
  /\ order = "in_progress"
  /\ order' = "pending"
  /\ reseeded' = TRUE
  /\ UNCHANGED <<sessions, req>>

Next ==
  \/ Reseed
  \/ \E r \in Reqs :
       \/ Start(r) \/ ReadOrder(r) \/ FindActive(r) \/ Insert(r) \/ SaveOrder(r)
       \/ Change(r) \/ LoadSession(r) \/ SaveSession(r)
       \/ Crash(r)

Spec == Init /\ [][Next]_vars

-----------------------------------------------------------------------------
TypeOK ==
  /\ order \in OrderStatuses
  /\ sessions \in [Reqs -> Statuses]
  /\ req \in [Reqs -> Request]
  /\ reseeded \in BOOLEAN

Started(r) == req[r].cmd = "start" /\ req[r].result = "accepted"

(* A work order is being worked on in at most one open session, through    *)
(* concurrent starts and late saves of older sessions.                     *)
OneOpenSession == \A s, t \in Open : s = t

(* An order that is in progress has a session: a crash between the two     *)
(* saves never leaves an order started and nothing to resume.              *)
StartedHasSession ==
  order = "in_progress" => \E s \in Reqs : sessions[s] # "none"

(* An accepted start names a session and has left the order started, the   *)
(* start that only found the session of an earlier, cut short one too; so  *)
(* it stays until the order is seeded again, and the session even then.    *)
StartTakesEffect ==
  \A r \in Reqs :
    Started(r) =>
      /\ req[r].sid # NoSession /\ sessions[req[r].sid] # "none"
      /\ order = "in_progress" \/ reseeded

(* Starts never hand out two sessions that could both be worked on: where  *)
(* two accepted ones name different sessions, one of those is finalized.   *)
(* Whether the second should have been accepted at all is another matter:  *)
(* see ResumeExisting.                                                     *)
SessionsNotDoubled ==
  \A r, q \in Reqs :
    (Started(r) /\ Started(q) /\ req[r].sid # req[q].sid) =>
      \E s \in {req[r].sid, req[q].sid} : sessions[s] = "finalized"

(* What a start answers is so, and goes on being so through races, crashes *)
(* and late saves, until the session is finalized.                         *)
StartsAreTrue == StartedHasSession /\ StartTakesEffect /\ SessionsNotDoubled
=============================================================================
