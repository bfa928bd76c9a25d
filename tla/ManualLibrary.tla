--------------------------- MODULE ManualLibrary ---------------------------
(***************************************************************************)
(* The manuals of one asset model: uploads, re-indexing and archiving by   *)
(* requests, the indexing tasks they leave in the background, and the      *)
(* questions that look for an active manual and search its chunks.         *)
(*                                                                         *)
(* A row is read, changed in memory and saved whole; every call of the     *)
(* repositories and of the storage is an await at which others run, and    *)
(* a request or a task may end there.  Manuals are numbered as they are    *)
(* uploaded, tasks as they are scheduled.                                  *)
(***************************************************************************)
EXTENDS Naturals, FiniteSets, FiniteSetsExt

CONSTANTS
  Requests,      \* requests under way at once
  Questions,     \* questions under way at once
  MaxManuals, MaxTasks,
  Blank          \* manuals whose PDF has no text

ASSUME BoundsAssumption == MaxManuals \in Nat /\ MaxTasks \in Nat

ASSUME BlankAssumption == Blank \subseteq Nat

VARIABLES
  manual,        \* [Manuals -> its row]
  stored,        \* manuals whose PDF is in the object storage
  chunks,        \* [Manuals -> tasks whose chunks are in the table]
  uploads,       \* how many ids were given
  scheduled,     \* how many tasks were started
  req,           \* [Requests -> an administrator's request]
  task,          \* [Tasks -> an indexing task]
  question,      \* [Questions -> a question]
  settled,       \* history: manuals seen archived with nothing under way
  misled,        \* history: manuals cited to a question asked after they were settled
  before,        \* history: [Manuals -> those on record when its upload began,
                 \*            if the upload gave the name as it is stored]
  after          \* history: [Tasks -> tasks that had ended when it began]

tables  == <<manual, stored, chunks>>
history == <<settled, misled, before, after>>
vars == <<tables, uploads, scheduled, req, task, question, history>>

Manuals == 1 .. MaxManuals
Tasks   == 1 .. MaxTasks

Row == [version : Nat,
        status : {"none", "indexing", "active", "error", "archived"},
        index : {"pending", "indexed", "failed"},
        count : {0, 1}]                     \* of chunks: none or some

NoRow == [version |-> 0, status |-> "none", index |-> "pending", count |-> 0]

ReqLabels  == {"idle", "load", "save", "version", "insert", "schedule"}
TaskLabels == {"none", "load", "pdf", "insert", "mark", "fail",
               "done", "failed", "stopped"}

NoReq  == [pc |-> "idle", kind |-> "none", id |-> 0, on |-> 0, padded |-> FALSE,
           snap |-> NoRow]
NoTask == [pc |-> "none", id |-> 0, snap |-> NoRow]
NoQuestion == [pc |-> "idle", on |-> 0, late |-> FALSE]

Init ==
  /\ manual = [m \in Manuals |-> NoRow]
  /\ stored = {}
  /\ chunks = [m \in Manuals |-> {}]
  /\ uploads = 0 /\ scheduled = 0
  /\ req = [r \in Requests |-> NoReq]
  /\ task = [t \in Tasks |-> NoTask]
  /\ question = [q \in Questions |-> NoQuestion]
  /\ settled = {} /\ misled = {}
  /\ before = [m \in Manuals |-> {}]
  /\ after = [t \in Tasks |-> {}]

Known == {m \in Manuals : manual[m].status # "none"}

(* The whole row is written, whatever it has become since it was read. *)
SaveRow(m, row) == manual' = [manual EXCEPT ![m] = row]

Archived(m) == manual[m].status = "archived"

At(r, label) == req[r].pc = label
Goto(r, label) == req' = [req EXCEPT ![r].pc = label]
End(r) == req' = [req EXCEPT ![r] = NoReq]

TaskAt(t, label) == task[t].pc = label
TaskGoto(t, label) == task' = [task EXCEPT ![t].pc = label]
TaskEnd(t, label) == task' = [task EXCEPT ![t].pc = label, ![t].snap = NoRow]

-----------------------------------------------------------------------------
(* Manual: the transitions of a row, each of a snapshot. *)

AsPending(row) == [row EXCEPT !.status = "indexing", !.index = "pending", !.count = 0]
AsArchived(row) == [row EXCEPT !.status = "archived"]
AsIndexed(row, n) == [row EXCEPT !.status = "active", !.index = "indexed", !.count = n]
AsFailed(row) == [row EXCEPT !.status = "error", !.index = "failed"]

RefusedAlready(row, kind) == kind # "reindex" /\ row.status = "archived"   \* mutation

(* mark_reindex_pending and archive raise for an archived manual. *)
Refused(row, kind) == row.status = "archived"

-----------------------------------------------------------------------------
(* Requests. *)

(* The bound on tasks leaves one for every request that will schedule it.  *)
TaskLeft ==
  scheduled + Cardinality({r \in Requests : req[r].kind \in {"upload", "reindex"}}) < MaxTasks

(* An upload, perhaps in place of another manual, which is archived first. *)
(* The name of the asset model comes as it is stored, or with blanks       *)
(* around it.                                                              *)
StartUpload(r, on, padded) ==
  /\ At(r, "idle") /\ uploads < MaxManuals /\ TaskLeft
  /\ uploads' = uploads + 1
  /\ req' = [req EXCEPT ![r] = [NoReq EXCEPT !.pc = IF on = 0 THEN "version" ELSE "load",
                                             !.kind = "upload", !.id = uploads + 1, !.on = on,
                                             !.padded = padded]]
  /\ before' = [before EXCEPT ![uploads + 1] = IF padded THEN {} ELSE Known]
  /\ UNCHANGED <<tables, scheduled, task, question, settled, misled, after>>

Start(r, on, kind) ==
  /\ At(r, "idle")
  /\ kind = "reindex" => TaskLeft
  /\ req' = [req EXCEPT ![r] = [NoReq EXCEPT !.pc = "load", !.kind = kind, !.on = on]]
  /\ UNCHANGED <<tables, uploads, scheduled, task, question, history>>

Load(r) ==
  /\ At(r, "load")
  /\ IF Refused(manual[req[r].on], req[r].kind)
     THEN End(r)
     ELSE req' = [req EXCEPT ![r].pc = "save", ![r].snap = manual[req[r].on]]
  /\ UNCHANGED <<tables, uploads, scheduled, task, question, history>>

SavePending(r) ==
  /\ At(r, "save") /\ req[r].kind = "reindex"
  /\ SaveRow(req[r].on, AsPending(req[r].snap))
  /\ req' = [req EXCEPT ![r].pc = "schedule", ![r].snap = NoRow]
  /\ UNCHANGED <<stored, chunks, uploads, scheduled, task, question, history>>

(* For its own sake, or for the upload that takes the manual's place. *)
SaveArchived(r) ==
  /\ At(r, "save") /\ req[r].kind # "reindex"
  /\ SaveRow(req[r].on, AsArchived(req[r].snap))
  /\ IF req[r].kind = "archive" THEN End(r)
     ELSE req' = [req EXCEPT ![r].pc = "version", ![r].on = 0, ![r].snap = NoRow]
  /\ UNCHANGED <<stored, chunks, uploads, scheduled, task, question, history>>

(* Rows are counted by the name as it was sent, and saved under the name   *)
(* without its blanks: no row has a padded name.                           *)
Counted(padded) == IF padded THEN {} ELSE Known

NextVersionInUse(padded) ==            \* mutation: archived versions are given again
  1 + Max({0} \cup {manual[m].version : m \in {k \in Counted(padded) : ~Archived(k)}})

NextVersion(padded) == 1 + Max({0} \cup {manual[m].version : m \in Counted(padded)})

Numbered(padded) == [NoRow EXCEPT !.version = NextVersion(padded)]

PutOrGoOn(r) ==                        \* mutation: the row is saved although the PDF is not
  /\ At(r, "version")
  /\ stored' \in {stored, stored \cup {req[r].id}}
  /\ req' = [req EXCEPT ![r].pc = "insert", ![r].snap = Numbered(req[r].padded)]
  /\ UNCHANGED <<manual, chunks, uploads, scheduled, task, question, history>>

(* The version is read and the PDF stored under the new id, which nobody   *)
(* else knows; or that fails, and the upload ends.                         *)
Put(r) ==
  /\ At(r, "version")
  /\ \/ /\ stored' = stored \cup {req[r].id}
        /\ req' = [req EXCEPT ![r].pc = "insert", ![r].snap = Numbered(req[r].padded)]
     \/ stored' = stored /\ End(r)
  /\ UNCHANGED <<manual, chunks, uploads, scheduled, task, question, history>>

Insert(r) ==
  /\ At(r, "insert")
  /\ SaveRow(req[r].id, AsPending(req[r].snap))
  /\ req' = [req EXCEPT ![r].pc = "schedule", ![r].on = req[r].id,
                          ![r].snap = NoRow]
  /\ UNCHANGED <<stored, chunks, uploads, scheduled, task, question, history>>

ScheduleUploads(r) ==                  \* mutation: a re-index only marks the row
  /\ At(r, "schedule")
  /\ IF req[r].kind = "upload"
     THEN /\ scheduled' = scheduled + 1
          /\ task' = [task EXCEPT ![scheduled + 1] = [NoTask EXCEPT !.pc = "load", !.id = req[r].on]]
          /\ after' = [after EXCEPT ![scheduled + 1] =
                         {t \in Tasks : task[t].pc \in {"done", "failed", "stopped"}}]
     ELSE UNCHANGED <<scheduled, task, after>>
  /\ End(r)
  /\ UNCHANGED <<tables, uploads, question, settled, misled, before>>

(* create_task: the request is answered, the task is the event loop's. *)
Schedule(r) ==
  /\ At(r, "schedule")
  /\ scheduled' = scheduled + 1
  /\ task' = [task EXCEPT ![scheduled + 1] = [NoTask EXCEPT !.pc = "load", !.id = req[r].on]]
  /\ after' = [after EXCEPT ![scheduled + 1] =
                 {t \in Tasks : task[t].pc \in {"done", "failed", "stopped"}}]
  /\ End(r)
  /\ UNCHANGED <<tables, uploads, question, settled, misled, before>>

-----------------------------------------------------------------------------
(* The indexing task. *)

Fetch(t) ==
  /\ TaskAt(t, "load")
  /\ task' = [task EXCEPT ![t].pc = "pdf", ![t].snap = manual[task[t].id]]
  /\ UNCHANGED <<tables, uploads, scheduled, req, question, history>>

DeleteNothing(t) ==                    \* mutation: the old chunks stay
  /\ TaskAt(t, "pdf")
  /\ (task[t].id \in stored /\ TaskGoto(t, "insert")) \/ TaskGoto(t, "fail")
  /\ UNCHANGED <<tables, uploads, scheduled, req, question, history>>

(* The PDF is fetched and the old chunks go; text, chunks and vectors are  *)
(* made without an await.  Each of it may fail.                            *)
Delete(t) ==
  /\ TaskAt(t, "pdf")
  /\ \/ /\ task[t].id \in stored
        /\ chunks' = [chunks EXCEPT ![task[t].id] = {}]
        /\ TaskGoto(t, "insert") \/ TaskGoto(t, "fail")
     \/ chunks' = chunks /\ TaskGoto(t, "fail")
  /\ UNCHANGED <<manual, stored, uploads, scheduled, req, question, history>>

(* Passages: a page without text has no chunks. *)
CountOf(m) == IF m \in Blank THEN 0 ELSE 1

(* When there are no chunks nothing is inserted. *)
InsertChunks(t) ==
  /\ TaskAt(t, "insert")
  /\ \/ /\ chunks' = IF CountOf(task[t].id) = 0 THEN chunks
                    ELSE [chunks EXCEPT ![task[t].id] = @ \cup {t}]
        /\ TaskGoto(t, "mark")
     \/ chunks' = chunks /\ TaskGoto(t, "fail")
  /\ UNCHANGED <<manual, stored, uploads, scheduled, req, question, history>>

(* mark_indexed raises for a snapshot that is indexed, and then, as for    *)
(* any other exception, the manual is marked as failed.                    *)
Mark(t) ==
  /\ TaskAt(t, "mark")
  /\ \/ /\ task[t].snap.index \in {"pending", "failed"}
        /\ SaveRow(task[t].id, AsIndexed(task[t].snap, CountOf(task[t].id)))
        /\ TaskEnd(t, "done")
     \/ manual' = manual /\ TaskGoto(t, "fail")
  /\ UNCHANGED <<stored, chunks, uploads, scheduled, req, question, history>>

Fail(t) ==
  /\ TaskAt(t, "fail")
  /\ \/ SaveRow(task[t].id, AsFailed(task[t].snap)) /\ TaskEnd(t, "failed")
     \/ manual' = manual /\ TaskEnd(t, "stopped")
  /\ UNCHANGED <<stored, chunks, uploads, scheduled, req, question, history>>

-----------------------------------------------------------------------------
(* Questions. *)

(* get_active_by_asset_model: the active one of the greatest version. *)
Newest ==
  LET active == {m \in Known : manual[m].status = "active"}
  IN  {m \in active : \A k \in active : manual[k].version <= manual[m].version}

(* The manual of the version asked for, if it is not archived. *)
Asked(version) ==
  IF version = 0 THEN Newest
  ELSE {m \in Known : manual[m].version = version /\ ~Archived(m)}

Ask(q) ==
  /\ question[q] = NoQuestion
  /\ \E version \in {0} \cup {manual[m].version : m \in Known} : \E m \in Asked(version) :
       question' = [question EXCEPT ![q] = [pc |-> "search", on |-> m, late |-> m \in settled]]
  /\ UNCHANGED <<tables, uploads, scheduled, req, task, history>>

(* Ranked by words and vectors; below the threshold, or without a word in  *)
(* common, the question is not answered.                                   *)
Search(q) ==
  /\ question[q].pc = "search"
  /\ LET on == question[q].on
     IN  misled' = IF chunks[on] # {} /\ question[q].late THEN misled \cup {on} ELSE misled
  /\ question' = [question EXCEPT ![q] = NoQuestion]
  /\ UNCHANGED <<tables, uploads, scheduled, req, task, settled, before, after>>

-----------------------------------------------------------------------------
Busy(t) == task[t].pc \notin {"none", "done", "failed", "stopped"}

(* A request or a task ends at an await: an exception, or the process. *)
Drop(r) ==
  /\ ~At(r, "idle") /\ ~At(r, "schedule")
  /\ End(r)
  /\ UNCHANGED <<tables, uploads, scheduled, task, question, history>>

(* Ended after the row was saved: the task there should be is lost. *)
Lose(r) ==
  /\ At(r, "schedule")
  /\ scheduled' = scheduled + 1
  /\ task' = [task EXCEPT ![scheduled + 1] = [NoTask EXCEPT !.pc = "stopped", !.id = req[r].on]]
  /\ End(r)
  /\ UNCHANGED <<tables, uploads, question, history>>

Stop(t) ==
  /\ Busy(t)
  /\ TaskEnd(t, "stopped")
  /\ UNCHANGED <<tables, uploads, scheduled, req, question, history>>

(* History only: nothing that could change the manual is under way.  One   *)
(* manual is watched.                                                      *)
Settle(m) ==
  /\ Archived(m) /\ settled = {}
  /\ \A t \in Tasks : Busy(t) => task[t].id # m
  /\ \A r \in Requests : req[r].on # m
  /\ settled' = settled \cup {m}
  /\ UNCHANGED <<tables, uploads, scheduled, req, task, question, misled, before, after>>

Serve(r) ==
  Load(r) \/ SavePending(r) \/ SaveArchived(r) \/ Put(r) \/ Insert(r) \/ Schedule(r)

Index(t) ==
  Fetch(t) \/ Delete(t) \/ InsertChunks(t) \/ Mark(t) \/ Fail(t)

Next ==
  \/ \E r \in Requests :
       \/ \E on \in {0} \cup Known : \E padded \in BOOLEAN : StartUpload(r, on, padded)
       \/ \E on \in Known : \E kind \in {"reindex", "archive"} : Start(r, on, kind)
       \/ Serve(r) \/ Drop(r) \/ Lose(r)
  \/ \E t \in Tasks : Index(t) \/ Stop(t)
  \/ \E q \in Questions : Ask(q) \/ Search(q)
  \/ \E m \in Manuals : Settle(m)

Spec == Init /\ [][Next]_vars

-----------------------------------------------------------------------------
TypeOK ==
  /\ manual \in [Manuals -> Row]
  /\ stored \subseteq Manuals
  /\ chunks \in [Manuals -> SUBSET Tasks]
  /\ uploads \in 0 .. MaxManuals /\ scheduled \in 0 .. MaxTasks
  /\ req \in [Requests -> [pc : ReqLabels, kind : {"none", "upload", "reindex", "archive"},
                           id : 0 .. uploads, on : 0 .. uploads, padded : BOOLEAN,
                           snap : Row]]
  /\ task \in [Tasks -> [pc : TaskLabels, id : 0 .. uploads, snap : Row]]
  /\ question \in [Questions -> [pc : {"idle", "search"}, on : 0 .. uploads,
                                 late : BOOLEAN]]
  /\ settled \subseteq Manuals /\ misled \subseteq Manuals
  /\ before \in [Manuals -> SUBSET Manuals] /\ after \in [Tasks -> SUBSET Tasks]
  /\ \A m \in Known : m \in stored
  /\ \A m \in Known : manual[m].status = "active" => manual[m].index = "indexed"

(* The chunks of a manual are those of one task, or of tasks that ran side *)
(* by side; and an active manual that should have chunks has some, unless  *)
(* a task of it is at work on them, failed or was stopped.                 *)
ChunksAreTrue ==
  \A m \in Known :
    /\ \A t \in chunks[m] : chunks[m] \cap after[t] = {}
    /\ (manual[m].status = "active" /\ manual[m].count > 0 /\ chunks[m] = {}) =>
         \E t \in Tasks : task[t].id = m /\ task[t].pc \in {"insert", "fail", "failed", "stopped"}

(* A manual found archived with nothing under way stays archived, and no   *)
(* question asked afterwards is answered from it.  (What is under way      *)
(* saves the row it read before, archived or not.)                         *)
ArchivedForGood ==
  /\ \A m \in settled : Archived(m)
  /\ misled = {}

(* A manual whose upload gave the name as it is stored has a greater       *)
(* version than those that were on record when the upload began.  (Uploads *)
(* side by side can share a version; and a name with blanks around it is   *)
(* counted as another one: its manual is version 1 again.)                 *)
VersionsGrow ==
  \A m \in Known : \A k \in before[m] : manual[k].version < manual[m].version

(* A manual that waits to be indexed has a task at work on it or a request *)
(* about to schedule one, unless one of them came to an end before it had  *)
(* saved the outcome: nothing else looks for manuals left behind.          *)
PendingIsAwaited ==
  \A m \in Known :
    manual[m].status = "indexing" =>
      \/ \E t \in Tasks : task[t].id = m /\ (Busy(t) \/ TaskAt(t, "stopped"))
      \/ \E r \in Requests : At(r, "schedule") /\ req[r].on = m
=============================================================================
