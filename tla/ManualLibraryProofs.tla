------------------------ MODULE ManualLibraryProofs ------------------------
(***************************************************************************)
(* What holds of ManualLibrary for any number of requests, questions,      *)
(* manuals and tasks.                                                      *)
(*                                                                         *)
(* The invariant comes in layers.  Rows says what a request or a task      *)
(* knows of the manual it works on: it stays on record, under the version  *)
(* it was uploaded with, whatever else is saved over it.  The layers above *)
(* it are about versions, chunks, pending and archived manuals.            *)
(***************************************************************************)
EXTENDS ManualLibrary, TLAPS, FiniteSetTheorems, WellFoundedInduction

Request(n) == [pc : ReqLabels, kind : {"none", "upload", "reindex", "archive"},
               id : 0 .. n, on : 0 .. n, padded : BOOLEAN, snap : Row]

Task(n) == [pc : TaskLabels, id : 0 .. n, snap : Row]

Takes(q) == q.kind \in {"upload", "reindex"}

(* From its beginning until its row is there an upload has an id to itself. *)
Uploading(q) == q.kind = "upload" /\ q.pc # "schedule"

(* A snapshot is of the row, although perhaps of an earlier state of it.   *)
SnapOf(snap, row) == snap.version = row.version /\ snap.status # "none"

RequestKnows(q, rows, pdfs, n) ==
  /\ IF q.pc = "idle" THEN q = NoReq ELSE q.kind # "none"
  /\ q.pc \in {"load", "save", "schedule"} => q.on \in Manuals /\ rows[q.on].status # "none"
  /\ q.pc = "save" => SnapOf(q.snap, rows[q.on])
  /\ q.pc \in {"version", "insert"} => q.kind = "upload" /\ q.on = 0
  /\ q.pc = "schedule" => Takes(q)
  /\ Uploading(q) => q.id \in 1 .. n /\ rows[q.id].status = "none"
  /\ q.pc = "insert" => q.id \in pdfs

TaskKnows(t, k, rows, n) ==
  /\ k.pc # "none" => t <= n /\ k.id \in Manuals /\ rows[k.id].status # "none"
  /\ k.pc \in {"pdf", "insert", "mark", "fail"} => SnapOf(k.snap, rows[k.id])

Taking == {r \in Requests : Takes(req[r])}

(* Every request that will schedule a task finds a place for it.           *)
PlaceLeft == IsFiniteSet(Taking) /\ scheduled + Cardinality(Taking) <= MaxTasks

Rows ==
  /\ TypeOK
  /\ PlaceLeft
  /\ \A m \in Known : m <= uploads
  /\ \A r \in Requests : RequestKnows(req[r], manual, stored, uploads)
  /\ \A r, s \in Requests :
       r # s /\ Uploading(req[r]) /\ Uploading(req[s]) => req[r].id # req[s].id
  /\ \A t \in Tasks : TaskKnows(t, task[t], manual, scheduled)
  /\ \A q \in Questions : question[q].pc = "search" => question[q].on \in Manuals

(* What a write of a row does to the others: a manual on record stays, and *)
(* keeps its version.                                                      *)
RowsStay ==
  \A m \in Manuals :
    manual[m].status # "none" =>
      manual'[m].status # "none" /\ manual'[m].version = manual[m].version

LEMMA InitRows == Init => Rows
<1> SUFFICES ASSUME Init PROVE Rows
  OBVIOUS
<1> USE DEF Init
<1>1. NoRow \in Row /\ NoRow.status = "none"
  BY DEF NoRow, Row
<1>2. Known = {}
  BY <1>1 DEF Known
<1>3. TypeOK
  BY <1>1, <1>2, BoundsAssumption
     DEF TypeOK, NoReq, NoTask, NoQuestion, ReqLabels, TaskLabels
<1>4. Taking = {}
  BY DEF Taking, Takes, NoReq
<1>5. PlaceLeft
  BY <1>4, FS_EmptySet, BoundsAssumption DEF PlaceLeft
<1>6. \A r \in Requests : RequestKnows(req[r], manual, stored, uploads) /\ ~Uploading(req[r])
  BY DEF RequestKnows, NoReq, Uploading
<1>7. \A t \in Tasks : TaskKnows(t, task[t], manual, scheduled)
  BY DEF TaskKnows, NoTask
<1>8. \A q \in Questions : question[q].pc = "idle"
  BY DEF NoQuestion
<1> QED
  BY <1>2, <1>3, <1>5, <1>6, <1>7, <1>8 DEF Rows

LEMMA RowTypes ==
  ASSUME Rows
  PROVE  /\ manual \in [Manuals -> Row] /\ stored \subseteq Manuals
         /\ chunks \in [Manuals -> SUBSET Tasks]
         /\ uploads \in 0 .. MaxManuals /\ scheduled \in 0 .. MaxTasks
         /\ req \in [Requests -> Request(uploads)] /\ task \in [Tasks -> Task(uploads)]
         /\ \A r \in Requests : RequestKnows(req[r], manual, stored, uploads)
         /\ \A t \in Tasks : TaskKnows(t, task[t], manual, scheduled)
         /\ MaxManuals \in Nat /\ MaxTasks \in Nat
         /\ \A m \in Known : m \in Manuals /\ m <= uploads /\ m \in stored
  BY BoundsAssumption DEF Rows, TypeOK, Request, Task, Known

(* What a request and a task know outlives a write that keeps the rows.    *)
LEMMA RequestStillKnows ==
  ASSUME NEW q, NEW n \in Nat, NEW k \in Nat, n <= k, NEW pdfs, pdfs \subseteq stored',
         RequestKnows(q, manual, pdfs, n), RowsStay,
         Uploading(q) => manual'[q.id] = manual[q.id]
  PROVE  RequestKnows(q, manual', stored', k)
  BY DEF RequestKnows, RowsStay, SnapOf

LEMMA TaskStillKnows ==
  ASSUME NEW t \in Nat, NEW k, NEW n \in Nat, NEW i \in Nat, n <= i,
         TaskKnows(t, k, manual, n), RowsStay
  PROVE  TaskKnows(t, k, manual', i)
  BY DEF TaskKnows, RowsStay, SnapOf

(* A request moves on, and may write a row.                                *)
LEMMA RequestMoves ==
  ASSUME Rows, NEW r \in Requests, NEW q \in Request(uploads),
         req' = [req EXCEPT ![r] = q], PlaceLeft',
         manual' \in [Manuals -> Row], stored \subseteq stored', stored' \subseteq Manuals,
         RowsStay,
         \A m \in Manuals : manual'[m].status # "none" => m \in stored' /\ m <= uploads,
         \A m \in Manuals : manual'[m].status = "active" => manual'[m].index = "indexed",
         \A s \in Requests \ {r} : Uploading(req[s]) => manual'[req[s].id] = manual[req[s].id],
         RequestKnows(q, manual', stored', uploads),
         Uploading(q) => Uploading(req[r]) /\ q.id = req[r].id,
         UNCHANGED <<chunks, uploads, scheduled, task, question, history>>
  PROVE  Rows'
<1>1. TypeOK'
  BY DEF Rows, TypeOK, Request, Known, history
<1>2. ASSUME NEW s \in Requests PROVE req'[s] = IF s = r THEN q ELSE req[s]
  BY RowTypes
<1>3. ASSUME NEW s \in Requests PROVE RequestKnows(req'[s], manual', stored', uploads)
  <2>1. s # r => RequestKnows(req[s], manual', stored', uploads)
    <3> SUFFICES ASSUME s # r PROVE RequestKnows(req[s], manual', stored', uploads)
      OBVIOUS
    <3>1. RequestKnows(req[s], manual, stored, uploads) /\ uploads \in Nat
      BY RowTypes
    <3>2. Uploading(req[s]) => manual'[req[s].id] = manual[req[s].id]
      OBVIOUS
    <3> QED
      BY <3>1, <3>2, RequestStillKnows
  <2> QED
    BY <1>2, <2>1
<1>4. \A s, p \in Requests :
        s # p /\ Uploading(req'[s]) /\ Uploading(req'[p]) => req'[s].id # req'[p].id
  BY <1>2 DEF Rows
<1>5. \A t \in Tasks : TaskKnows(t, task[t], manual', scheduled)
  BY RowTypes, TaskStillKnows DEF Tasks
<1> QED
  BY <1>1, <1>3, <1>4, <1>5 DEF Rows, Known

(* A task moves on, and may write a row or the chunks.                     *)
LEMMA TaskMoves ==
  ASSUME Rows, NEW t \in Tasks, NEW k \in Task(uploads),
         task' = [task EXCEPT ![t] = k],
         manual' \in [Manuals -> Row], chunks' \in [Manuals -> SUBSET Tasks], RowsStay,
         \A m \in Manuals : manual[m].status = "none" => manual'[m] = manual[m],
         \A m \in Manuals : manual'[m].status = "active" => manual'[m].index = "indexed",
         TaskKnows(t, k, manual', scheduled),
         UNCHANGED <<stored, uploads, scheduled, req, question, history>>
  PROVE  Rows'
<1>1. TypeOK'
  BY DEF Rows, TypeOK, Task, Known, history
<1>2. PlaceLeft'
  BY DEF Rows, PlaceLeft, Taking
<1>3. ASSUME NEW s \in Requests PROVE RequestKnows(req[s], manual', stored', uploads)
  <2>1. Uploading(req[s]) => manual'[req[s].id] = manual[req[s].id]
    BY RowTypes DEF RequestKnows, Manuals
  <2> QED
    BY <2>1, RowTypes, RequestStillKnows
<1>4. \A s \in Tasks : TaskKnows(s, task'[s], manual', scheduled)
  BY RowTypes, TaskStillKnows DEF Tasks
<1> QED
  BY <1>1, <1>2, <1>3, <1>4 DEF Rows, Known

(* A row of a manual on record is saved over, from a snapshot of it.       *)
LEMMA SaveKeeps ==
  ASSUME Rows, NEW m \in Manuals, manual[m].status # "none", NEW row \in Row,
         SnapOf(row, manual[m]), row.status = "active" => row.index = "indexed",
         SaveRow(m, row)
  PROVE  /\ manual' \in [Manuals -> Row] /\ RowsStay
         /\ \A n \in Manuals : manual'[n].status = "active" => manual'[n].index = "indexed"
         /\ \A n \in Manuals : manual[n].status = "none" => manual'[n] = manual[n]
         /\ \A n \in Manuals : manual'[n].status # "none" => manual[n].status # "none"
<1>1. manual' = [manual EXCEPT ![m] = row]
  BY DEF SaveRow
<1>2. \A n \in Manuals : manual'[n] = IF n = m THEN row ELSE manual[n]
  BY <1>1, RowTypes
<1>3. \A n \in Manuals : manual[n].status = "active" => manual[n].index = "indexed"
  BY DEF Rows, TypeOK, Known
<1>4. manual' \in [Manuals -> Row]
  BY <1>1, RowTypes
<1>5. RowsStay
  BY <1>2 DEF RowsStay, SnapOf
<1> QED
  BY <1>2, <1>3, <1>4, <1>5

LEMMA PlaceKept ==
  ASSUME Rows, NEW r \in Requests, NEW q, req' = [req EXCEPT ![r] = q],
         Takes(q) => Takes(req[r]), scheduled' = scheduled
  PROVE  PlaceLeft'
<1>1. Taking' \subseteq Taking
  BY RowTypes DEF Taking
<1>2. IsFiniteSet(Taking) /\ scheduled + Cardinality(Taking) <= MaxTasks
  BY DEF Rows, PlaceLeft
<1>3. IsFiniteSet(Taking') /\ Cardinality(Taking') <= Cardinality(Taking)
  BY <1>1, <1>2, FS_Subset
<1>4. Cardinality(Taking) \in Nat /\ Cardinality(Taking') \in Nat
  BY <1>2, <1>3, FS_CardinalityType
<1> QED
  BY <1>2, <1>3, <1>4, RowTypes DEF PlaceLeft

LEMMA PlaceTaken ==
  ASSUME Rows, TaskLeft, NEW r \in Requests, NEW q, req' = [req EXCEPT ![r] = q],
         scheduled' = scheduled
  PROVE  PlaceLeft'
<1>1. Taking' \in SUBSET (Taking \cup {r})
  BY RowTypes DEF Taking
<1>2. IsFiniteSet(Taking) /\ scheduled + Cardinality(Taking) < MaxTasks
  BY DEF Rows, PlaceLeft, TaskLeft, Taking, Takes
<1>3. /\ IsFiniteSet(Taking \cup {r}) /\ Cardinality(Taking) \in Nat
      /\ Cardinality(Taking \cup {r}) \in {Cardinality(Taking), Cardinality(Taking) + 1}
  BY <1>2, FS_AddElement, FS_CardinalityType
<1>4. IsFiniteSet(Taking') /\ Cardinality(Taking') <= Cardinality(Taking \cup {r})
  BY <1>1, <1>3, FS_Subset
<1>5. Cardinality(Taking') \in Nat /\ Cardinality(Taking \cup {r}) \in Nat
  BY <1>3, <1>4, FS_CardinalityType
<1> QED
  BY <1>2, <1>3, <1>4, <1>5, RowTypes DEF PlaceLeft

LEMMA PlaceFreed ==
  ASSUME Rows, NEW r \in Requests, Takes(req[r]), End(r), scheduled' = scheduled + 1
  PROVE  PlaceLeft' /\ scheduled + 1 <= MaxTasks
<1>1. Taking' = Taking \ {r} /\ r \in Taking
  BY RowTypes DEF Taking, End, Takes, NoReq
<1>2. IsFiniteSet(Taking) /\ scheduled + Cardinality(Taking) <= MaxTasks
  BY DEF Rows, PlaceLeft
<1>3. IsFiniteSet(Taking') /\ Cardinality(Taking') = Cardinality(Taking) - 1
  BY <1>1, <1>2, FS_RemoveElement
<1>4. Cardinality(Taking) \in Nat /\ Cardinality(Taking') \in Nat
  BY <1>2, <1>3, FS_CardinalityType
<1> QED
  BY <1>2, <1>3, <1>4, RowTypes DEF PlaceLeft

-----------------------------------------------------------------------------
(* A request moves on and writes no row. *)
LEMMA RequestReads ==
  ASSUME Rows, NEW r \in Requests, NEW q \in Request(uploads),
         req' = [req EXCEPT ![r] = q], Takes(q) => Takes(req[r]) \/ TaskLeft,
         manual' = manual, stored \subseteq stored', stored' \subseteq Manuals,
         RequestKnows(q, manual, stored', uploads),
         Uploading(q) => Uploading(req[r]) /\ q.id = req[r].id,
         UNCHANGED <<chunks, uploads, scheduled, task, question, history>>
  PROVE  Rows'
<1>1. PlaceLeft'
  BY PlaceKept, PlaceTaken
<1>2. RowsStay
  BY DEF RowsStay
<1>3. \A m \in Manuals : manual'[m].status # "none" => m \in stored' /\ m <= uploads
  BY RowTypes DEF Known
<1>4. \A m \in Manuals : manual'[m].status = "active" => manual'[m].index = "indexed"
  BY DEF Rows, TypeOK, Known
<1>5. manual' \in [Manuals -> Row]
  BY RowTypes
<1>6. \A s \in Requests \ {r} : Uploading(req[s]) => manual'[req[s].id] = manual[req[s].id]
  OBVIOUS
<1> QED
  BY <1>1, <1>2, <1>3, <1>4, <1>5, <1>6, RequestMoves

LEMMA NoReqKnows ==
  ASSUME NEW rows, NEW pdfs, NEW n \in Nat
  PROVE  NoReq \in Request(n) /\ RequestKnows(NoReq, rows, pdfs, n) /\ ~Uploading(NoReq)
         /\ ~Takes(NoReq)
  BY DEF NoReq, NoRow, Row, Request, ReqLabels, RequestKnows, Uploading, Takes

LEMMA EndRows ==
  ASSUME Rows, NEW r \in Requests, End(r),
         UNCHANGED <<tables, uploads, scheduled, task, question, history>>
  PROVE  Rows'
<1>1. manual' = manual /\ stored' = stored /\ stored \subseteq Manuals /\ uploads \in Nat
  BY RowTypes DEF tables
<1>2. UNCHANGED <<chunks, uploads, scheduled, task, question, history>>
  BY DEF tables
<1> QED
  BY <1>1, <1>2, NoReqKnows, RequestReads DEF End

LEMMA StartRows ==
  ASSUME Rows, NEW r \in Requests, NEW on \in Known, NEW kind \in {"reindex", "archive"},
         Start(r, on, kind)
  PROVE  Rows'
<1> DEFINE q == [NoReq EXCEPT !.pc = "load", !.kind = kind, !.on = on]
<1>1. on \in Manuals /\ on <= uploads /\ manual[on].status # "none"
  BY RowTypes DEF Known
<1>2. uploads \in Nat /\ stored \subseteq Manuals /\ NoReq \in Request(uploads)
  BY RowTypes, NoReqKnows
<1>3. q.pc = "load" /\ q.kind = kind /\ q.on = on
  BY <1>2 DEF Request
<1>4. q \in Request(uploads)
  <2>1. on \in 0 .. uploads
    BY <1>1, <1>2 DEF Manuals
  <2> QED
    BY <1>2, <2>1 DEF Request, ReqLabels
<1>5. ~Uploading(q) /\ RequestKnows(q, manual, stored, uploads) /\ (Takes(q) => TaskLeft)
  BY <1>1, <1>3 DEF Start, Uploading, RequestKnows, Takes
<1>6. req' = [req EXCEPT ![r] = q]
  BY DEF Start
<1>7. UNCHANGED <<manual, stored>> /\ UNCHANGED <<chunks, uploads, scheduled, task, question, history>>
  BY DEF Start, tables
<1> HIDE DEF q
<1> QED
  BY <1>2, <1>4, <1>5, <1>6, <1>7, RequestReads

LEMMA LoadRows ==
  ASSUME Rows, NEW r \in Requests, Load(r) PROVE Rows'
<1>1. CASE Refused(manual[req[r].on], req[r].kind)
  BY <1>1, EndRows DEF Load
<1>2. CASE ~Refused(manual[req[r].on], req[r].kind)
  <2> DEFINE q == [req[r] EXCEPT !.pc = "save", !.snap = manual[req[r].on]]
  <2>1. req[r] \in Request(uploads) /\ RequestKnows(req[r], manual, stored, uploads) /\ req[r].pc = "load"
    BY RowTypes DEF Load, At
  <2>2. req[r].on \in Manuals /\ manual[req[r].on].status # "none" /\ manual[req[r].on] \in Row
    BY <2>1, RowTypes DEF RequestKnows
  <2>3. q \in Request(uploads)
    BY <2>1, <2>2 DEF Request, ReqLabels
  <2>4. /\ q.pc = "save" /\ q.kind = req[r].kind /\ q.on = req[r].on /\ q.id = req[r].id
        /\ q.snap = manual[req[r].on]
    BY <2>1 DEF Request
  <2>5. req' = [req EXCEPT ![r] = q]
    BY <1>2, <2>1, RowTypes DEF Load
  <2>6. UNCHANGED <<manual, stored>> /\ stored \subseteq Manuals
    BY RowTypes DEF Load, tables
  <2>7. UNCHANGED <<chunks, uploads, scheduled, task, question, history>>
    BY DEF Load, tables
  <2> HIDE DEF q
  <2>8. RequestKnows(q, manual, stored, uploads)
    BY <2>1, <2>2, <2>4 DEF RequestKnows, SnapOf, Uploading
  <2>9. Uploading(q) => Uploading(req[r])
    BY <2>1, <2>4 DEF Uploading
  <2> QED
    BY <2>3, <2>4, <2>5, <2>6, <2>7, <2>8, <2>9, RequestReads DEF Takes
<1> QED
  BY <1>1, <1>2

(* The id an upload takes is new: no other upload has it, and no row.      *)
LEMMA StartUploadRows ==
  ASSUME Rows, NEW r \in Requests, NEW on \in {0} \cup Known, NEW padded \in BOOLEAN,
         StartUpload(r, on, padded)
  PROVE  Rows'
<1> DEFINE q == [NoReq EXCEPT !.pc = IF on = 0 THEN "version" ELSE "load",
                              !.kind = "upload", !.id = uploads + 1, !.on = on,
                              !.padded = padded]
           n == uploads + 1
<1>1. /\ uploads \in Nat /\ n \in Nat /\ n \in 1 .. MaxManuals /\ uploads' = n
      /\ MaxManuals \in Nat
  BY RowTypes DEF StartUpload
<1>2. req' = [req EXCEPT ![r] = q] /\ req \in [Requests -> Request(uploads)]
  BY RowTypes DEF StartUpload
<1>3. NoReq \in Request(n)
  BY <1>1, NoReqKnows
<1>4. on \in 0 .. n /\ (on # 0 => on \in Manuals /\ manual[on].status # "none")
  BY <1>1, RowTypes DEF Manuals, Known
<1>5. q \in Request(n)
  <2>1. n \in 0 .. n /\ (IF on = 0 THEN "version" ELSE "load") \in ReqLabels
    BY <1>1 DEF ReqLabels
  <2> QED
    BY <1>3, <1>4, <2>1 DEF Request
<1>6. q.pc = (IF on = 0 THEN "version" ELSE "load") /\ q.kind = "upload" /\ q.id = n /\ q.on = on
  BY <1>3 DEF Request
<1> HIDE DEF q
<1>7. UNCHANGED <<manual, stored, chunks, scheduled, task, question, settled, misled, after>>
  BY DEF StartUpload, tables
<1>8. RowsStay
  BY <1>7 DEF RowsStay
<1>9. \A s \in Requests : req[s] \in Request(n)
  <2>1. 0 .. uploads \subseteq 0 .. n
    BY <1>1
  <2> QED
    BY <1>2, <2>1 DEF Request
<1>10. ASSUME NEW s \in Requests PROVE req'[s] = IF s = r THEN q ELSE req[s]
  BY <1>2
<1>11. req' \in [Requests -> Request(n)]
  BY <1>2, <1>5, <1>9
<1>12. TypeOK'
  <2>1. before' \in [Manuals -> SUBSET Manuals]
    BY <1>1 DEF StartUpload, Rows, TypeOK, Known, Manuals
  <2>2. task \in [Tasks -> [pc : TaskLabels, id : 0 .. n, snap : Row]]
    BY <1>1, RowTypes DEF Task
  <2>3. question \in [Questions -> [pc : {"idle", "search"}, on : 0 .. n, late : BOOLEAN]]
    BY <1>1 DEF Rows, TypeOK
  <2>4. uploads' \in 0 .. MaxManuals
    BY <1>1
  <2> QED
    BY <1>1, <1>7, <1>11, <2>1, <2>2, <2>3, <2>4 DEF Rows, TypeOK, Request, Known
<1>13. PlaceLeft'
  BY <1>2, <1>7, PlaceTaken DEF StartUpload
<1>14. \A m \in Known' : m <= uploads'
  BY <1>1, <1>7, RowTypes DEF Known, Manuals
<1>15. RequestKnows(q, manual', stored', uploads')
  <2>1. n \in Manuals /\ manual[n].status = "none"
    BY <1>1, RowTypes DEF Manuals, Known
  <2> QED
    BY <1>1, <1>4, <1>6, <1>7, <2>1 DEF RequestKnows, Uploading
<1>16. ASSUME NEW s \in Requests, s # r PROVE RequestKnows(req[s], manual', stored', uploads')
  BY <1>1, <1>7, <1>8, RowTypes, RequestStillKnows
<1>17. \A s \in Requests : Uploading(req[s]) => req[s].id # n
  BY <1>1, RowTypes DEF RequestKnows
<1>18. \A s, p \in Requests :
         s # p /\ Uploading(req'[s]) /\ Uploading(req'[p]) => req'[s].id # req'[p].id
  BY <1>6, <1>10, <1>17 DEF Rows
<1>19. \A t \in Tasks : TaskKnows(t, task'[t], manual', scheduled')
  BY <1>7, RowTypes
<1>20. \A s \in Requests : RequestKnows(req'[s], manual', stored', uploads')
  BY <1>10, <1>15, <1>16
<1>21. \A p \in Questions : question'[p].pc = "search" => question'[p].on \in Manuals
  BY <1>7 DEF Rows
<1> QED
  BY <1>12, <1>13, <1>14, <1>18, <1>19, <1>20, <1>21 DEF Rows

(* A request saves over the row it read.                                   *)
LEMMA RequestSaves ==
  ASSUME Rows, NEW r \in Requests, NEW q \in Request(uploads), NEW row \in Row,
         At(r, "save"), SaveRow(req[r].on, row), SnapOf(row, manual[req[r].on]),
         row.status = "active" => row.index = "indexed",
         req' = [req EXCEPT ![r] = q], Takes(q) => Takes(req[r]),
         RequestKnows(q, manual', stored', uploads),
         Uploading(q) => Uploading(req[r]) /\ q.id = req[r].id,
         UNCHANGED <<stored, chunks, uploads, scheduled, task, question, history>>
  PROVE  Rows'
<1>1. req[r].on \in Manuals /\ manual[req[r].on].status # "none"
  BY RowTypes DEF RequestKnows, At
<1>2. /\ manual' \in [Manuals -> Row] /\ RowsStay
      /\ \A n \in Manuals : manual'[n].status = "active" => manual'[n].index = "indexed"
      /\ \A n \in Manuals : manual[n].status = "none" => manual'[n] = manual[n]
      /\ \A n \in Manuals : manual'[n].status # "none" => manual[n].status # "none"
  BY <1>1, SaveKeeps
<1>3. PlaceLeft'
  BY PlaceKept
<1>4. \A s \in Requests \ {r} : Uploading(req[s]) => manual'[req[s].id] = manual[req[s].id]
  BY <1>2, RowTypes DEF RequestKnows, Manuals
<1>5. \A m \in Manuals : manual'[m].status # "none" => m \in stored' /\ m <= uploads
  BY <1>2, RowTypes DEF Known
<1>6. stored \subseteq stored' /\ stored' \subseteq Manuals
  BY RowTypes
<1> QED
  BY <1>2, <1>3, <1>4, <1>5, <1>6, RequestMoves

LEMMA SavePendingRows ==
  ASSUME Rows, NEW r \in Requests, SavePending(r) PROVE Rows'
<1> DEFINE q == [req[r] EXCEPT !.pc = "schedule", !.snap = NoRow]
           row == AsPending(req[r].snap)
<1>1. req[r] \in Request(uploads) /\ RequestKnows(req[r], manual, stored, uploads) /\ req[r].pc = "save"
  BY RowTypes DEF SavePending, At
<1>2. row \in Row /\ row.version = req[r].snap.version /\ row.status = "indexing"
  BY <1>1 DEF AsPending, Row, Request
<1>3. SnapOf(row, manual[req[r].on]) /\ req[r].on \in Manuals
  BY <1>1, <1>2 DEF SnapOf, RequestKnows
<1>4. NoRow \in Row
  BY DEF NoRow, Row
<1>5. q \in Request(uploads) /\ q.pc = "schedule" /\ q.kind = req[r].kind /\ q.on = req[r].on
  BY <1>1, <1>4 DEF Request, ReqLabels
<1>6. req' = [req EXCEPT ![r] = q]
  BY RowTypes DEF SavePending
<1>7. SaveRow(req[r].on, row) /\ Takes(q) /\ Takes(req[r])
  BY <1>5 DEF SavePending, Takes
<1>8. UNCHANGED <<stored, chunks, uploads, scheduled, task, question, history>>
  BY DEF SavePending
<1> HIDE DEF q, row
<1>9. manual'[req[r].on].status # "none"
  BY <1>2, <1>3, <1>7, RowTypes DEF SaveRow
<1>10. RequestKnows(q, manual', stored', uploads) /\ ~Uploading(q)
  BY <1>3, <1>5, <1>7, <1>9 DEF RequestKnows, Uploading, Takes
<1> QED
  BY <1>1, <1>2, <1>3, <1>5, <1>6, <1>7, <1>8, <1>10, RequestSaves DEF At

LEMMA SaveArchivedRows ==
  ASSUME Rows, NEW r \in Requests, SaveArchived(r) PROVE Rows'
<1> DEFINE go == [req[r] EXCEPT !.pc = "version", !.on = 0, !.snap = NoRow]
           q == IF req[r].kind = "archive" THEN NoReq ELSE go
           row == AsArchived(req[r].snap)
<1>1. req[r] \in Request(uploads) /\ RequestKnows(req[r], manual, stored, uploads) /\ req[r].pc = "save"
  BY RowTypes DEF SaveArchived, At
<1>2. row \in Row /\ row.version = req[r].snap.version /\ row.status = "archived"
  BY <1>1 DEF AsArchived, Row, Request
<1>3. SnapOf(row, manual[req[r].on]) /\ req[r].on \in Manuals /\ manual[req[r].on].status # "none"
  BY <1>1, <1>2 DEF SnapOf, RequestKnows
<1>4. NoRow \in Row /\ uploads \in Nat /\ MaxManuals \in Nat
  BY RowTypes DEF NoRow, Row
<1>5. /\ go \in Request(uploads)
      /\ go.pc = "version" /\ go.kind = req[r].kind /\ go.on = 0 /\ go.id = req[r].id
  <2>1. 0 \in 0 .. uploads /\ "version" \in ReqLabels
    BY <1>4 DEF ReqLabels
  <2> QED
    BY <1>1, <1>4, <2>1 DEF Request
<1>6. req' = [req EXCEPT ![r] = q]
  BY RowTypes DEF SaveArchived, End
<1>7. SaveRow(req[r].on, row)
  BY DEF SaveArchived
<1>8. UNCHANGED <<stored, chunks, uploads, scheduled, task, question, history>>
  BY DEF SaveArchived
<1> HIDE DEF go, row
<1>9. \A n \in Manuals : manual[n].status = "none" => manual'[n] = manual[n]
  BY <1>2, <1>3, <1>7, SaveKeeps
<1>10. ASSUME req[r].kind # "archive" PROVE RequestKnows(go, manual', stored', uploads)
  <2>1. req[r].kind = "upload"
    BY <1>1, <1>10 DEF SaveArchived, RequestKnows, Request
  <2>2. req[r].id \in 1 .. uploads /\ manual'[req[r].id].status = "none"
    BY <1>1, <1>9, <2>1, RowTypes DEF RequestKnows, Uploading, Manuals
  <2> QED
    BY <1>5, <2>1, <2>2 DEF RequestKnows
<1>11. q \in Request(uploads) /\ RequestKnows(q, manual', stored', uploads)
  BY <1>4, <1>5, <1>10, NoReqKnows
<1>12. /\ Uploading(q) => Uploading(req[r]) /\ q.id = req[r].id
       /\ Takes(q) => Takes(req[r])
  BY <1>1, <1>4, <1>5, NoReqKnows DEF Uploading, Takes
<1> HIDE DEF q
<1> QED
  BY <1>1, <1>2, <1>3, <1>6, <1>7, <1>8, <1>11, <1>12, RequestSaves DEF At

(* A function on a finite set has a greatest value: a smallest subset      *)
(* without one would have one when an element is taken from it.            *)
LEMMA GreatestValue ==
  ASSUME NEW S, IsFiniteSet(S), S # {}, NEW f, \A x \in S : f[x] \in Nat
  PROVE  \E x \in S : \A y \in S : f[y] <= f[x]
<1> DEFINE Peak(T) == \E x \in T : \A y \in T : f[y] <= f[x]
           Bad == {T \in SUBSET S : T # {} /\ ~Peak(T)}
<1>1. Bad \subseteq FiniteSubsetsOf(S) /\ IsWellFoundedOn(StrictSubsetOrdering(S), FiniteSubsetsOf(S))
  BY FS_FiniteSubsetsOfFinite, FS_StrictSubsetOrderingWellFounded
<1>2. SUFFICES ASSUME Bad # {} PROVE FALSE
  OBVIOUS
<1>3. PICK T \in Bad : \A U \in Bad : <<U, T>> \notin StrictSubsetOrdering(S)
  BY <1>1, <1>2, WFMin
<1>4. PICK x \in T : x \in S
  OBVIOUS
<1>5. T \ {x} \notin Bad
  <2>1. <<T \ {x}, T>> \in StrictSubsetOrdering(S)
    BY <1>4 DEF StrictSubsetOrdering
  <2> QED
    BY <1>3, <2>1
<1>6. CASE T \ {x} = {}
  <2>1. \A y \in T : y = x
    BY <1>6
  <2>2. Peak(T)
    BY <1>4, <2>1
  <2> QED
    BY <2>2
<1>7. CASE Peak(T \ {x})
  <2>1. PICK z \in T \ {x} : \A y \in T \ {x} : f[y] <= f[z]
    BY <1>7
  <2>2. \A y \in T : f[y] \in Nat
    OBVIOUS
  <2>3. CASE f[z] <= f[x]
    <3>1. \A y \in T : f[y] <= f[x]
      BY <1>4, <2>1, <2>2, <2>3
    <3> QED
      BY <1>4, <3>1
  <2>4. CASE ~(f[z] <= f[x])
    <3>1. \A y \in T : f[y] <= f[z]
      BY <1>4, <2>1, <2>2, <2>4
    <3> QED
      BY <2>1, <3>1
  <2> QED
    BY <2>3, <2>4
<1> QED
  BY <1>5, <1>6, <1>7

(* The next version is greater than that of every manual that is counted.  *)
LEMMA NextVersionIsNew ==
  ASSUME Rows, NEW padded \in BOOLEAN
  PROVE  /\ NextVersion(padded) \in Nat
         /\ \A m \in Counted(padded) : manual[m].version < NextVersion(padded)
<1> DEFINE f == [m \in Manuals |-> manual[m].version]
           counted == Counted(padded)
           versions == {0} \cup {manual[m].version : m \in counted}
<1>0. counted \subseteq Known
  BY DEF Counted
<1>1. \A m \in Known : m \in Manuals /\ manual[m].version \in Nat /\ f[m] = manual[m].version
  BY RowTypes DEF Known, Row
<1>2. IsFiniteSet(Known)
  <2>1. Known \in SUBSET (1 .. MaxManuals) /\ MaxManuals \in Nat
    BY RowTypes DEF Known, Manuals
  <2>2. IsFiniteSet(1 .. MaxManuals)
    BY <2>1, FS_Interval, 1 \in Int, MaxManuals \in Int
  <2> QED
    BY <2>1, <2>2, FS_Subset
<1>3. /\ 0 \in versions /\ \A m \in counted : manual[m].version \in versions
      /\ \A y \in versions : y = 0 \/ \E m \in counted : y = manual[m].version
  OBVIOUS
<1>8. NextVersion(padded) = 1 + Max(versions)
  BY DEF NextVersion
<1> HIDE DEF versions, f, counted
<1>4. \A y \in versions : y \in Nat
  BY <1>0, <1>1, <1>3
<1>5. \E x \in versions : \A y \in versions : x >= y
  <2>1. CASE counted = {}
    BY <1>3, <2>1
  <2>2. CASE counted # {}
    <3>0. IsFiniteSet(counted)
      BY <1>0, <1>2, FS_Subset
    <3>1. PICK m \in counted : \A k \in counted : f[k] <= f[m]
      BY <1>0, <1>1, <2>2, <3>0, GreatestValue
    <3>2. \A k \in counted : manual[m].version >= manual[k].version
      BY <1>0, <1>1, <3>1
    <3>3. \A y \in versions : manual[m].version >= y
      BY <1>0, <1>1, <1>3, <3>2
    <3> QED
      BY <1>3, <3>3
  <2> QED
    BY <2>1, <2>2
<1>6. Max(versions) \in versions /\ \A y \in versions : Max(versions) >= y
  BY <1>5 DEF Max
<1>7. Max(versions) \in Nat
  BY <1>4, <1>6
<1> QED
  BY <1>0, <1>1, <1>3, <1>6, <1>7, <1>8 DEF counted

LEMMA PutRows ==
  ASSUME Rows, NEW r \in Requests, Put(r) PROVE Rows'
<1> DEFINE q == [req[r] EXCEPT !.pc = "insert", !.snap = Numbered(req[r].padded)]
<1>1. /\ req[r] \in Request(uploads) /\ RequestKnows(req[r], manual, stored, uploads)
      /\ req[r].pc = "version"
  BY RowTypes DEF Put, At
<1>2. UNCHANGED <<manual, chunks, uploads, scheduled, task, question, history>>
  BY DEF Put
<1>3. CASE stored' = stored /\ End(r)
  BY <1>2, <1>3, EndRows DEF tables
<1>4. CASE /\ stored' = stored \cup {req[r].id}
           /\ req' = [req EXCEPT ![r].pc = "insert", ![r].snap = Numbered(req[r].padded)]
  <2>1. req' = [req EXCEPT ![r] = q]
    BY <1>4, RowTypes
  <2>2. Numbered(req[r].padded) \in Row
    <3>1. req[r].padded \in BOOLEAN
      BY <1>1 DEF Request
    <3> QED
      BY <3>1, NextVersionIsNew DEF Numbered, NoRow, Row
  <2>3. q \in Request(uploads) /\ q.pc = "insert" /\ q.kind = req[r].kind /\ q.on = req[r].on
        /\ q.id = req[r].id
    BY <1>1, <2>2 DEF Request, ReqLabels
  <2> HIDE DEF q
  <2>4. req[r].kind = "upload" /\ req[r].id \in 1 .. uploads /\ manual[req[r].id].status = "none"
        /\ req[r].on = 0
    BY <1>1 DEF RequestKnows, Uploading
  <2>5. stored \subseteq stored' /\ stored' \subseteq Manuals
    BY <1>4, <2>4, RowTypes DEF Manuals
  <2>6. RequestKnows(q, manual, stored', uploads)
    BY <1>4, <2>3, <2>4 DEF RequestKnows, Uploading
  <2>7. Uploading(q) => Uploading(req[r]) /\ q.id = req[r].id
    BY <1>1, <2>3 DEF Uploading
  <2>8. Takes(q) => Takes(req[r])
    BY <2>3 DEF Takes
  <2> QED
    BY <1>2, <2>1, <2>3, <2>5, <2>6, <2>7, <2>8, RequestReads
<1> QED
  BY <1>3, <1>4 DEF Put

(* The row goes under an id that only this upload has.                     *)
LEMMA InsertRows ==
  ASSUME Rows, NEW r \in Requests, Insert(r) PROVE Rows'
<1> DEFINE i == req[r].id
           row == AsPending(req[r].snap)
           q == [req[r] EXCEPT !.pc = "schedule", !.on = i, !.snap = NoRow]
<1>1. req[r] \in Request(uploads) /\ RequestKnows(req[r], manual, stored, uploads) /\ req[r].pc = "insert"
  BY RowTypes DEF Insert, At
<1>2. UNCHANGED <<stored, chunks, uploads, scheduled, task, question, history>>
  BY DEF Insert
<1>3. /\ Uploading(req[r]) /\ i \in 1 .. uploads /\ i \in Manuals
      /\ manual[i].status = "none" /\ i \in stored
  BY <1>1, RowTypes DEF RequestKnows, Uploading, Manuals
<1>4. row \in Row /\ row.status = "indexing"
  BY <1>1 DEF AsPending, Row, Request
<1>5. NoRow \in Row /\ i \in 0 .. uploads
  BY <1>3 DEF NoRow, Row
<1>6. q \in Request(uploads) /\ q.pc = "schedule" /\ q.kind = req[r].kind /\ q.on = i
  BY <1>1, <1>5 DEF Request, ReqLabels
<1>7. req' = [req EXCEPT ![r] = q]
  BY RowTypes DEF Insert
<1>8. manual' = [manual EXCEPT ![i] = row]
  BY DEF Insert, SaveRow
<1> HIDE DEF row, q, i
<1>9. \A m \in Manuals : manual'[m] = IF m = i THEN row ELSE manual[m]
  BY <1>8, RowTypes
<1>10. manual' \in [Manuals -> Row] /\ RowsStay
  BY <1>3, <1>4, <1>8, <1>9, RowTypes DEF RowsStay
<1>11. \A m \in Manuals : manual'[m].status # "none" => m \in stored' /\ m <= uploads
  BY <1>2, <1>3, <1>9, RowTypes DEF Known
<1>12. \A m \in Manuals : manual'[m].status = "active" => manual'[m].index = "indexed"
  BY <1>4, <1>9 DEF Rows, TypeOK, Known
<1>13. ASSUME NEW s \in Requests \ {r}, Uploading(req[s])
       PROVE  manual'[req[s].id] = manual[req[s].id]
  <2>1. req[s].id # i
    BY <1>3, <1>13 DEF Rows, i
  <2>2. req[s].id \in Manuals
    BY <1>13, RowTypes DEF RequestKnows, Manuals
  <2> QED
    BY <1>9, <2>1, <2>2
<1>14. ~Uploading(q) /\ Takes(q) /\ Takes(req[r])
  BY <1>3, <1>6 DEF Uploading, Takes
<1>15. RequestKnows(q, manual', stored', uploads)
  BY <1>3, <1>4, <1>6, <1>9, <1>14 DEF RequestKnows, Takes
<1>16. PlaceLeft'
  BY <1>2, <1>7, <1>14, PlaceKept
<1>17. stored \subseteq stored' /\ stored' \subseteq Manuals
  BY <1>2, RowTypes
<1> QED
  BY <1>2, <1>6, <1>7, <1>10, <1>11, <1>12, <1>13, <1>14, <1>15, <1>16, <1>17, RequestMoves

(* A request hands its manual to a task, at work or lost from the start.   *)
LEMMA ScheduleOneRows ==
  ASSUME Rows, NEW r \in Requests, At(r, "schedule"), NEW pc \in {"load", "stopped"},
         scheduled' = scheduled + 1,
         task' = [task EXCEPT ![scheduled + 1] = [NoTask EXCEPT !.pc = pc, !.id = req[r].on]],
         after' \in [Tasks -> SUBSET Tasks],
         End(r), UNCHANGED <<tables, uploads, question, settled, misled, before>>
  PROVE  Rows'
<1> DEFINE k == [NoTask EXCEPT !.pc = pc, !.id = req[r].on]
           n == scheduled + 1
<1>1. /\ req[r] \in Request(uploads) /\ RequestKnows(req[r], manual, stored, uploads)
      /\ req[r].pc = "schedule" /\ uploads \in Nat
  BY RowTypes DEF At
<1>2. req[r].on \in Manuals /\ manual[req[r].on].status # "none" /\ Takes(req[r])
  BY <1>1 DEF RequestKnows
<1>3. PlaceLeft' /\ n \in 1 .. MaxTasks /\ scheduled \in Nat
  BY <1>2, PlaceFreed, RowTypes
<1>4. NoTask \in Task(uploads)
  BY <1>1 DEF NoTask, NoRow, Row, Task, TaskLabels
<1>5. k \in Task(uploads) /\ k.pc = pc /\ k.id = req[r].on
  BY <1>1, <1>4 DEF Request, Task, TaskLabels
<1>6. UNCHANGED <<manual, stored, chunks>>
  BY DEF tables
<1> HIDE DEF k
<1>7. ASSUME NEW s \in Requests PROVE req'[s] = IF s = r THEN NoReq ELSE req[s]
  BY RowTypes DEF End
<1>8. req' \in [Requests -> Request(uploads)]
  BY <1>1, NoReqKnows, RowTypes DEF End
<1>9. ASSUME NEW t \in Tasks PROVE task'[t] = IF t = n THEN k ELSE task[t]
  BY RowTypes DEF k
<1>10. task' \in [Tasks -> Task(uploads)]
  BY <1>5, RowTypes DEF k
<1>11. TypeOK'
  <2>1. scheduled' \in 0 .. MaxTasks
    BY <1>3
  <2> QED
    BY <1>6, <1>8, <1>10, <2>1 DEF Rows, TypeOK, Request, Task, Known
<1>12. ASSUME NEW t \in Tasks PROVE TaskKnows(t, task'[t], manual', scheduled')
  <2>1. TaskKnows(n, k, manual', scheduled')
    BY <1>2, <1>3, <1>5, <1>6 DEF TaskKnows
  <2>2. TaskKnows(t, task[t], manual, scheduled)
    BY RowTypes
  <2>3. TaskKnows(t, task[t], manual', scheduled')
    BY <1>3, <1>6, <2>2 DEF TaskKnows, Tasks
  <2> QED
    BY <1>9, <2>1, <2>3
<1>13. \A s \in Requests : RequestKnows(req'[s], manual', stored', uploads')
  BY <1>1, <1>6, <1>7, NoReqKnows, RowTypes
<1>14. \A s, p \in Requests :
         s # p /\ Uploading(req'[s]) /\ Uploading(req'[p]) => req'[s].id # req'[p].id
  BY <1>1, <1>7, NoReqKnows DEF Rows
<1>15. \A m \in Known' : m <= uploads'
  BY <1>6 DEF Rows, Known
<1> QED
  BY <1>3, <1>11, <1>12, <1>13, <1>14, <1>15 DEF Rows

LEMMA ScheduleRows ==
  ASSUME Rows, NEW r \in Requests, Schedule(r) \/ Lose(r) PROVE Rows'
<1>1. after' \in [Tasks -> SUBSET Tasks]
  BY DEF Rows, TypeOK, Schedule, Lose, history
<1>2. CASE Schedule(r)
  <2>1. UNCHANGED <<tables, uploads, question, settled, misled, before>>
    BY <1>2 DEF Schedule
  <2> QED
    BY <1>1, <1>2, <2>1, ScheduleOneRows DEF Schedule
<1>3. CASE Lose(r)
  <2>1. UNCHANGED <<tables, uploads, question, settled, misled, before>>
    BY <1>3 DEF Lose, history
  <2> QED
    BY <1>1, <1>3, <2>1, ScheduleOneRows DEF Lose
<1> QED
  BY <1>2, <1>3

LEMMA ServeRows ==
  ASSUME Rows, NEW r \in Requests, Serve(r) \/ Drop(r) \/ Lose(r) PROVE Rows'
<1>1. Drop(r) => Rows'
  BY EndRows DEF Drop
<1> QED
  BY <1>1, LoadRows, SavePendingRows, SaveArchivedRows, PutRows, InsertRows, ScheduleRows
     DEF Serve

-----------------------------------------------------------------------------
(* A busy task knows the row of its manual. *)
LEMMA BusyKnows ==
  ASSUME Rows, NEW t \in Tasks, Busy(t)
  PROVE  /\ task[t] \in Task(uploads) /\ task[t].snap \in Row /\ t <= scheduled
         /\ task[t].id \in Manuals /\ manual[task[t].id].status # "none"
         /\ task[t].pc # "load" => SnapOf(task[t].snap, manual[task[t].id])
  BY RowTypes DEF Busy, TaskKnows, Task, TaskLabels

(* It moves on, with a snapshot of that row while it needs one.            *)
LEMMA TaskReads ==
  ASSUME Rows, NEW t \in Tasks, Busy(t), NEW pc \in TaskLabels, NEW snap \in Row,
         task' = [task EXCEPT ![t].pc = pc, ![t].snap = snap],
         pc \in {"pdf", "insert", "mark", "fail"} => SnapOf(snap, manual[task[t].id]),
         manual' = manual, chunks' \in [Manuals -> SUBSET Tasks],
         UNCHANGED <<stored, uploads, scheduled, req, question, history>>
  PROVE  Rows'
<1> DEFINE k == [task[t] EXCEPT !.pc = pc, !.snap = snap]
<1>1. task' = [task EXCEPT ![t] = k] /\ k \in Task(uploads)
  BY RowTypes DEF Task
<1>2. RowsStay /\ manual' \in [Manuals -> Row]
  BY RowTypes DEF RowsStay
<1>3. \A m \in Manuals : manual'[m].status = "active" => manual'[m].index = "indexed"
  BY DEF Rows, TypeOK, Known
<1>4. k.pc = pc /\ k.snap = snap /\ k.id = task[t].id
  BY BusyKnows DEF Task
<1> HIDE DEF k
<1>5. TaskKnows(t, k, manual', scheduled)
  BY <1>4, BusyKnows DEF TaskKnows
<1> QED
  BY <1>1, <1>2, <1>3, <1>5, TaskMoves

LEMMA TaskGoesOn ==
  ASSUME Rows, NEW t \in Tasks, Busy(t), ~TaskAt(t, "load"), NEW pc \in TaskLabels,
         TaskGoto(t, pc), manual' = manual, chunks' \in [Manuals -> SUBSET Tasks],
         UNCHANGED <<stored, uploads, scheduled, req, question, history>>
  PROVE  Rows'
<1>1. task' = [task EXCEPT ![t].pc = pc, ![t].snap = task[t].snap]
  BY RowTypes DEF TaskGoto, Task
<1>2. task[t].snap \in Row /\ SnapOf(task[t].snap, manual[task[t].id])
  BY BusyKnows DEF TaskAt
<1> QED
  BY <1>1, <1>2, TaskReads

LEMMA TaskStops ==
  ASSUME Rows, NEW t \in Tasks, Busy(t), TaskEnd(t, "stopped"),
         UNCHANGED <<tables, uploads, scheduled, req, question, history>>
  PROVE  Rows'
<1>1. NoRow \in Row /\ "stopped" \in TaskLabels
  BY DEF NoRow, Row, TaskLabels
<1>2. UNCHANGED <<manual, chunks, stored>> /\ chunks' \in [Manuals -> SUBSET Tasks]
  BY RowTypes DEF tables
<1> QED
  BY <1>1, <1>2, TaskReads DEF TaskEnd

(* It ends with a write of the row, made from its snapshot.                *)
LEMMA TaskSaves ==
  ASSUME Rows, NEW t \in Tasks, Busy(t), ~TaskAt(t, "load"), NEW row \in Row,
         row.version = task[t].snap.version, row.status # "none",
         row.status = "active" => row.index = "indexed",
         SaveRow(task[t].id, row), NEW pc \in {"done", "failed"}, TaskEnd(t, pc),
         UNCHANGED <<stored, chunks, uploads, scheduled, req, question, history>>
  PROVE  Rows'
<1> DEFINE k == [task[t] EXCEPT !.pc = pc, !.snap = NoRow]
<1>1. SnapOf(row, manual[task[t].id]) /\ task[t].id \in Manuals
      /\ manual[task[t].id].status # "none" /\ task[t] \in Task(uploads) /\ t <= scheduled
  BY BusyKnows DEF SnapOf, TaskAt
<1>2. /\ manual' \in [Manuals -> Row] /\ RowsStay
      /\ \A n \in Manuals : manual'[n].status = "active" => manual'[n].index = "indexed"
      /\ \A n \in Manuals : manual[n].status = "none" => manual'[n] = manual[n]
  BY <1>1, SaveKeeps
<1>3. k \in Task(uploads) /\ k.pc = pc /\ k.id = task[t].id
  BY <1>1 DEF Task, TaskLabels, NoRow, Row
<1>4. task' = [task EXCEPT ![t] = k]
  BY RowTypes DEF TaskEnd
<1> HIDE DEF k
<1>5. TaskKnows(t, k, manual', scheduled)
  BY <1>1, <1>2, <1>3 DEF TaskKnows, RowsStay
<1>6. chunks' \in [Manuals -> SUBSET Tasks]
  BY RowTypes
<1> QED
  BY <1>2, <1>3, <1>4, <1>5, <1>6, TaskMoves

LEMMA FetchRows ==
  ASSUME Rows, NEW t \in Tasks, Fetch(t) PROVE Rows'
<1>1. Busy(t)
  BY DEF Fetch, TaskAt, Busy
<1>2. task[t].id \in Manuals /\ manual[task[t].id].status # "none"
  BY <1>1, BusyKnows
<1>3. manual[task[t].id] \in Row /\ SnapOf(manual[task[t].id], manual[task[t].id])
  BY <1>2, RowTypes DEF SnapOf
<1>4. UNCHANGED <<manual, chunks, stored>> /\ chunks' \in [Manuals -> SUBSET Tasks]
  BY RowTypes DEF Fetch, tables
<1>5. "pdf" \in TaskLabels
  BY DEF TaskLabels
<1> QED
  BY <1>1, <1>3, <1>4, <1>5, TaskReads DEF Fetch

LEMMA DeleteRows ==
  ASSUME Rows, NEW t \in Tasks, Delete(t) PROVE Rows'
<1>1. Busy(t) /\ ~TaskAt(t, "load")
  BY DEF Delete, TaskAt, Busy
<1>2. "insert" \in TaskLabels /\ "fail" \in TaskLabels
  BY DEF TaskLabels
<1>3. chunks' \in [Manuals -> SUBSET Tasks]
  BY RowTypes DEF Delete
<1> QED
  BY <1>1, <1>2, <1>3, TaskGoesOn DEF Delete

LEMMA InsertChunksRows ==
  ASSUME Rows, NEW t \in Tasks, InsertChunks(t) PROVE Rows'
<1>1. Busy(t) /\ ~TaskAt(t, "load")
  BY DEF InsertChunks, TaskAt, Busy
<1>2. "mark" \in TaskLabels /\ "fail" \in TaskLabels
  BY DEF TaskLabels
<1>3. chunks' \in [Manuals -> SUBSET Tasks]
  BY RowTypes DEF InsertChunks
<1> QED
  BY <1>1, <1>2, <1>3, TaskGoesOn DEF InsertChunks

LEMMA MarkRows ==
  ASSUME Rows, NEW t \in Tasks, Mark(t) PROVE Rows'
<1> DEFINE row == AsIndexed(task[t].snap, CountOf(task[t].id))
<1>1. Busy(t) /\ ~TaskAt(t, "load")
  BY DEF Mark, TaskAt, Busy
<1>2. "fail" \in TaskLabels /\ chunks \in [Manuals -> SUBSET Tasks] /\ task[t].snap \in Row
  BY <1>1, RowTypes, BusyKnows DEF TaskLabels
<1>3. CASE manual' = manual /\ TaskGoto(t, "fail")
  BY <1>1, <1>2, <1>3, TaskGoesOn DEF Mark
<1>4. CASE SaveRow(task[t].id, row) /\ TaskEnd(t, "done")
  <2>1. CountOf(task[t].id) \in {0, 1}
    BY DEF CountOf
  <2>2. row \in Row /\ row.version = task[t].snap.version /\ row.status = "active"
        /\ row.index = "indexed"
    BY <1>2, <2>1 DEF AsIndexed, Row
  <2> HIDE DEF row
  <2> QED
    BY <1>1, <1>4, <2>2, TaskSaves DEF Mark
<1> QED
  BY <1>3, <1>4 DEF Mark

LEMMA FailRows ==
  ASSUME Rows, NEW t \in Tasks, Fail(t) PROVE Rows'
<1> DEFINE row == AsFailed(task[t].snap)
<1>1. Busy(t) /\ ~TaskAt(t, "load") /\ task[t].snap \in Row
  BY BusyKnows DEF Fail, TaskAt, Busy
<1>2. CASE manual' = manual /\ TaskEnd(t, "stopped")
  BY <1>1, <1>2, TaskStops DEF Fail, tables
<1>3. CASE SaveRow(task[t].id, row) /\ TaskEnd(t, "failed")
  <2>1. row \in Row /\ row.version = task[t].snap.version /\ row.status = "error"
    BY <1>1 DEF AsFailed, Row
  <2> HIDE DEF row
  <2> QED
    BY <1>1, <1>3, <2>1, TaskSaves DEF Fail
<1> QED
  BY <1>2, <1>3 DEF Fail

LEMMA IndexRows ==
  ASSUME Rows, NEW t \in Tasks, Index(t) \/ Stop(t) PROVE Rows'
<1>1. Stop(t) => Rows'
  BY TaskStops DEF Stop
<1> QED
  BY <1>1, FetchRows, DeleteRows, InsertChunksRows, MarkRows, FailRows DEF Index

-----------------------------------------------------------------------------
(* Questions and what is watched leave the tables alone. *)
LEMMA OutsideRows ==
  ASSUME Rows, UNCHANGED <<tables, uploads, scheduled, req, task, before, after>>,
         question' \in [Questions -> [pc : {"idle", "search"}, on : 0 .. uploads, late : BOOLEAN]],
         \A q \in Questions : question'[q].pc = "search" => question'[q].on \in Manuals,
         settled' \subseteq Manuals, misled' \subseteq Manuals
  PROVE  Rows'
<1>1. TypeOK'
  BY DEF Rows, TypeOK, tables, Known
<1>2. UNCHANGED <<Known, Taking>>
  BY DEF Known, Taking, tables
<1> QED
  BY <1>1, <1>2 DEF Rows, PlaceLeft, tables

LEMMA QuestionRows ==
  ASSUME Rows, NEW q \in Questions, Ask(q) \/ Search(q) PROVE Rows'
<1> DEFINE Asking == [pc : {"idle", "search"}, on : 0 .. uploads, late : BOOLEAN]
<1>1. /\ question \in [Questions -> Asking] /\ settled \subseteq Manuals /\ misled \subseteq Manuals
      /\ uploads \in Nat
  BY RowTypes DEF Rows, TypeOK
<1>2. CASE Ask(q)
  <2>1. PICK version \in {0} \cup {manual[m].version : m \in Known} :
        \E m \in Asked(version) :
          question' = [question EXCEPT ![q] = [pc |-> "search", on |-> m, late |-> m \in settled]]
    BY <1>2 DEF Ask
  <2>2. PICK m \in Asked(version) :
          question' = [question EXCEPT ![q] = [pc |-> "search", on |-> m, late |-> m \in settled]]
    BY <2>1
  <2>3. m \in 0 .. uploads /\ m \in Manuals
    BY <1>1, <2>2, RowTypes DEF Asked, Newest, Manuals
  <2>4. question' \in [Questions -> Asking]
    BY <1>1, <2>2, <2>3
  <2>5. \A p \in Questions : question'[p].pc = "search" => question'[p].on \in Manuals
    BY <1>1, <2>2, <2>3 DEF Rows
  <2> QED
    BY <1>1, <1>2, <2>4, <2>5, OutsideRows DEF Ask, history
<1>3. CASE Search(q)
  <2>1. NoQuestion \in Asking /\ NoQuestion.pc = "idle"
    BY <1>1 DEF NoQuestion
  <2>2. question' \in [Questions -> Asking]
    BY <1>1, <1>3, <2>1 DEF Search
  <2>3. \A p \in Questions : question'[p].pc = "search" => question'[p].on \in Manuals
    BY <1>1, <1>3, <2>1 DEF Rows, Search
  <2>4. misled' \subseteq Manuals
    BY <1>1, <1>3 DEF Search, Rows
  <2> QED
    BY <1>1, <1>3, <2>2, <2>3, <2>4, OutsideRows DEF Search
<1> QED
  BY <1>2, <1>3

LEMMA SettleRows ==
  ASSUME Rows, NEW m \in Manuals, Settle(m) PROVE Rows'
<1>1. /\ question \in [Questions -> [pc : {"idle", "search"}, on : 0 .. uploads, late : BOOLEAN]]
      /\ settled \subseteq Manuals /\ misled \subseteq Manuals
      /\ \A q \in Questions : question[q].pc = "search" => question[q].on \in Manuals
  BY DEF Rows, TypeOK
<1> QED
  BY <1>1, OutsideRows DEF Settle

LEMMA NextRows == Rows /\ [Next]_vars => Rows'
<1> SUFFICES ASSUME Rows, [Next]_vars PROVE Rows'
  OBVIOUS
<1>1. CASE UNCHANGED vars
  BY <1>1 DEF vars, tables, history, Rows, TypeOK, PlaceLeft, Taking, Known
<1>2. CASE Next
  <2>1. ASSUME NEW r \in Requests, NEW on \in {0} \cup Known, NEW padded \in BOOLEAN,
             StartUpload(r, on, padded)
      PROVE  Rows'
    BY <2>1, StartUploadRows
  <2>2. ASSUME NEW r \in Requests, NEW on \in Known, NEW kind \in {"reindex", "archive"},
               Start(r, on, kind)
        PROVE  Rows'
    BY <2>2, StartRows
  <2> QED
    BY <1>2, <2>1, <2>2, ServeRows, IndexRows, QuestionRows, SettleRows DEF Next
<1> QED
  BY <1>1, <1>2

THEOREM RowsHold == Spec => []Rows
  BY InitRows, NextRows, PTL DEF Spec

(* Every variable keeps its type; what is on record has its PDF, and an    *)
(* active manual is indexed.                                               *)
THEOREM TypeCorrect == Spec => []TypeOK
<1>1. Rows => TypeOK
  BY DEF Rows
<1> QED
  BY <1>1, RowsHold, PTL

-----------------------------------------------------------------------------
(* What a step writes.  A manual on record stays, under its version, and   *)
(* only an upload puts one there.                                          *)
LEMMA SavesKeepRows ==
  ASSUME Rows, NEW r \in Requests, SavePending(r) \/ SaveArchived(r)
  PROVE  RowsStay /\ Known' = Known
<1>1. /\ req[r] \in Request(uploads) /\ req[r].on \in Manuals
      /\ manual[req[r].on].status # "none" /\ SnapOf(req[r].snap, manual[req[r].on])
  BY RowTypes DEF RequestKnows, SavePending, SaveArchived, At
<1>2. ASSUME NEW row \in Row, row.version = req[r].snap.version, row.status \in {"indexing", "archived"},
             SaveRow(req[r].on, row)
      PROVE  RowsStay /\ Known' = Known
  BY <1>1, <1>2, SaveKeeps DEF SnapOf, Known, RowsStay
<1>3. /\ AsPending(req[r].snap) \in Row /\ AsPending(req[r].snap).version = req[r].snap.version
      /\ AsPending(req[r].snap).status = "indexing"
  BY <1>1 DEF AsPending, Row, Request
<1>4. /\ AsArchived(req[r].snap) \in Row /\ AsArchived(req[r].snap).version = req[r].snap.version
      /\ AsArchived(req[r].snap).status = "archived"
  BY <1>1 DEF AsArchived, Row, Request
<1> QED
  BY <1>2, <1>3, <1>4 DEF SavePending, SaveArchived

LEMMA TasksKeepRows ==
  ASSUME Rows, NEW t \in Tasks, Index(t) \/ Stop(t)
  PROVE  RowsStay /\ Known' = Known
<1>1. CASE manual' = manual
  BY <1>1 DEF RowsStay, Known
<1>2. CASE TaskAt(t, "mark") \/ TaskAt(t, "fail")
  <2>1. /\ task[t] \in Task(uploads) /\ task[t].id \in Manuals
        /\ manual[task[t].id].status # "none" /\ SnapOf(task[t].snap, manual[task[t].id])
    BY <1>2, BusyKnows DEF Busy, TaskAt
  <2>2. ASSUME NEW row \in Row, row.version = task[t].snap.version, row.status \in {"active", "error"},
               row.status = "active" => row.index = "indexed", SaveRow(task[t].id, row)
        PROVE  RowsStay /\ Known' = Known
    BY <2>1, <2>2, SaveKeeps DEF SnapOf, Known, RowsStay
  <2>3. ASSUME NEW n \in {0, 1}
        PROVE  /\ AsIndexed(task[t].snap, n) \in Row
               /\ AsIndexed(task[t].snap, n).version = task[t].snap.version
               /\ AsIndexed(task[t].snap, n).status = "active"
               /\ AsIndexed(task[t].snap, n).index = "indexed"
    BY <2>1 DEF AsIndexed, Row, Task
  <2>4. /\ AsFailed(task[t].snap) \in Row /\ AsFailed(task[t].snap).version = task[t].snap.version
        /\ AsFailed(task[t].snap).status = "error"
    BY <2>1 DEF AsFailed, Row, Task
  <2>5. CountOf(task[t].id) \in {0, 1}
    BY DEF CountOf
  <2>6. Mark(t) => RowsStay /\ Known' = Known
    <3>1. Mark(t) => manual' = manual \/ SaveRow(task[t].id, AsIndexed(task[t].snap, CountOf(task[t].id)))
      BY DEF Mark
    <3> QED
      BY <1>1, <2>2, <2>3, <2>5, <3>1
  <2>7. Fail(t) => RowsStay /\ Known' = Known
    <3>1. Fail(t) => manual' = manual \/ SaveRow(task[t].id, AsFailed(task[t].snap))
      BY DEF Fail
    <3> QED
      BY <1>1, <2>2, <2>4, <3>1
  <2> QED
    BY <1>1, <1>2, <2>6, <2>7 DEF Index, Stop, Fetch, Delete, InsertChunks, tables
<1> QED
  BY <1>1, <1>2 DEF Index, Stop, Fetch, Delete, InsertChunks, Mark, Fail, tables

-----------------------------------------------------------------------------
(* Versions: an upload's row goes in with the version it was given, which  *)
(* is greater than those of the manuals on record when it began: all of    *)
(* them are counted, unless the name was sent with blanks around it.       *)
Versions ==
  /\ VersionsGrow
  /\ \A m \in Manuals : before[m] \subseteq Known
  /\ \A r \in Requests : Uploading(req[r]) /\ req[r].padded => before[req[r].id] = {}
  /\ \A r \in Requests : At(r, "insert") =>
       \A k \in before[req[r].id] : manual[k].version < req[r].snap.version

(* An upload that goes on is the one it was, under the name it gave.       *)
SameUploads ==
  \A r \in Requests : Uploading(req'[r]) =>
    Uploading(req[r]) /\ req'[r].id = req[r].id /\ req'[r].padded = req[r].padded

LEMMA InsertKnows ==
  ASSUME Rows, NEW r \in Requests, req[r].pc = "insert"
  PROVE  /\ req[r].id \in Manuals /\ req[r].id <= uploads /\ manual[req[r].id].status = "none"
         /\ req[r].snap \in Row
  BY RowTypes DEF RequestKnows, Uploading, Manuals, Request

LEMMA VersionsKeep ==
  ASSUME Rows, Versions, RowsStay, Known' = Known, before' = before, SameUploads,
         \A r \in Requests : req'[r].pc = "insert" => req'[r] = req[r]
  PROVE  Versions'
<1>1. \A m \in Known : manual'[m].version = manual[m].version
  BY DEF RowsStay, Known
<1>2. VersionsGrow'
  BY <1>1 DEF Versions, VersionsGrow, Known
<1>3. ASSUME NEW r \in Requests, req'[r].pc = "insert", NEW k \in before[req[r].id]
      PROVE  manual'[k].version < req[r].snap.version
  <2>1. req[r].id \in Manuals /\ At(r, "insert")
    BY <1>3, InsertKnows DEF At
  <2>2. k \in Known /\ manual[k].version < req[r].snap.version
    BY <1>3, <2>1 DEF Versions
  <2> QED
    BY <1>1, <2>2
<1>4. \A r \in Requests : Uploading(req'[r]) /\ req'[r].padded => before[req'[r].id] = {}
  BY DEF Versions, SameUploads
<1> QED
  BY <1>2, <1>3, <1>4 DEF Versions, At

LEMMA StartUploadVersions ==
  ASSUME Rows, Versions, NEW r \in Requests, NEW on \in {0} \cup Known, NEW padded \in BOOLEAN,
         StartUpload(r, on, padded)
  PROVE  Versions'
<1>1. /\ manual' = manual /\ uploads \in Nat /\ uploads + 1 \in Manuals
      /\ before' = [before EXCEPT ![uploads + 1] = IF padded THEN {} ELSE Known]
  BY RowTypes DEF StartUpload, tables, Manuals
<1>2. \A m \in Manuals : 
        before'[m] = IF m # uploads + 1 THEN before[m] ELSE IF padded THEN {} ELSE Known
  BY <1>1 DEF Rows, TypeOK
<1>3. uploads + 1 \notin Known
  BY <1>1, RowTypes
<1>4. Known' = Known
  BY <1>1 DEF Known
<1>5. VersionsGrow'
  BY <1>1, <1>2, <1>3, <1>4 DEF Versions, VersionsGrow, Known
<1>6. req'[r].pc # "insert" /\ req'[r].id = uploads + 1 /\ req'[r].padded = padded
  BY RowTypes DEF StartUpload, NoReq
<1>7. ASSUME NEW s \in Requests, req'[s].pc = "insert", NEW k \in before'[req'[s].id]
      PROVE  manual[k].version < req'[s].snap.version
  <2>1. req'[s] = req[s]
    BY <1>6, <1>7, RowTypes DEF StartUpload
  <2>2. req[s].id \in Manuals /\ req[s].id # uploads + 1
    BY <1>1, <1>7, <2>1, InsertKnows
  <2> QED
    BY <1>2, <1>7, <2>1, <2>2 DEF Versions, At
<1>8. ASSUME NEW s \in Requests, Uploading(req'[s]), req'[s].padded
      PROVE  before'[req'[s].id] = {}
  <2>1. CASE s = r
    BY <1>1, <1>2, <1>6, <1>8, <2>1
  <2>2. CASE s # r
    <3>1. req'[s] = req[s]
      BY <2>2, RowTypes DEF StartUpload
    <3>2. req[s].id \in Manuals /\ req[s].id # uploads + 1
      BY <1>1, <1>8, <3>1, RowTypes DEF RequestKnows, Manuals
    <3> QED
      BY <1>2, <1>8, <3>1, <3>2 DEF Versions
  <2> QED
    BY <2>1, <2>2
<1> QED
  BY <1>1, <1>2, <1>4, <1>5, <1>7, <1>8 DEF Versions, At

LEMMA PutVersions ==
  ASSUME Rows, Versions, NEW r \in Requests, Put(r) PROVE Versions'
<1>1. UNCHANGED <<manual, before>> /\ req[r] \in Request(uploads)
  BY RowTypes DEF Put, history
<1>2. Known' = Known /\ RowsStay
  BY <1>1 DEF Known, RowsStay
<1>3. CASE End(r)
  <2>1. \A s \in Requests : req'[s].pc = "insert" => req'[s] = req[s]
    BY <1>3, RowTypes DEF End, NoReq
  <2>2. SameUploads
    BY <1>3, RowTypes DEF End, NoReq, SameUploads, Uploading
  <2> QED
    BY <1>1, <1>2, <2>1, <2>2, VersionsKeep
<1>4. CASE req' = [req EXCEPT ![r].pc = "insert", ![r].snap = Numbered(req[r].padded)]
  <2> DEFINE padded == req[r].padded
  <2>0. padded \in BOOLEAN /\ req[r].kind = "upload" /\ req[r].pc = "version" /\ Uploading(req[r])
    BY <1>1, RowTypes DEF Put, At, Request, RequestKnows, Uploading
  <2>1. /\ req'[r].id = req[r].id /\ req'[r].snap.version = NextVersion(padded)
        /\ req'[r].padded = padded
    BY <1>1, <1>4, RowTypes DEF Request, NoRow, Numbered
  <2>2. req[r].id \in Manuals
    BY RowTypes DEF Put, At, RequestKnows, Uploading, Manuals
  <2>3. \A k \in before[req[r].id] : k \in Known /\ manual[k].version < NextVersion(padded)
    <3>1. before[req[r].id] \subseteq Counted(padded)
      BY <2>0, <2>2 DEF Versions, Counted
    <3>2. \A k \in Counted(padded) : k \in Known /\ manual[k].version < NextVersion(padded)
      BY <2>0, NextVersionIsNew DEF Counted
    <3> QED
      BY <3>1, <3>2
  <2>4. \A s \in Requests \ {r} : req'[s] = req[s]
    BY <1>4, RowTypes
  <2>5. \A s \in Requests : req'[s].pc = "insert" =>
          \A k \in before[req'[s].id] : manual[k].version < req'[s].snap.version
    BY <2>1, <2>3, <2>4 DEF Versions, At
  <2>6. SameUploads
    BY <2>0, <2>1, <2>4 DEF SameUploads
  <2>7. \A s \in Requests : Uploading(req'[s]) /\ req'[s].padded => before[req'[s].id] = {}
    BY <2>6 DEF Versions, SameUploads
  <2> QED
    BY <1>1, <1>2, <2>5, <2>7 DEF Versions, VersionsGrow, At
<1> QED
  BY <1>3, <1>4 DEF Put

LEMMA InsertVersions ==
  ASSUME Rows, Versions, NEW r \in Requests, Insert(r) PROVE Versions'
<1> DEFINE i == req[r].id
           row == AsPending(req[r].snap)
<1>1. /\ i \in Manuals /\ manual[i].status = "none" /\ req[r].snap \in Row /\ before' = before
      /\ req[r].pc = "insert"
  BY InsertKnows DEF Insert, At, history
<1>2. row.version = req[r].snap.version /\ row.status = "indexing"
  BY <1>1 DEF AsPending, Row
<1>3. \A m \in Manuals : manual'[m] = IF m = i THEN row ELSE manual[m]
  BY RowTypes DEF Insert, SaveRow
<1>4. \A m \in Manuals : m \in Known' <=> m \in Known \/ m = i
  BY <1>1, <1>2, <1>3 DEF Known
<1>5. \A m \in Manuals : \A k \in before[m] : k \in Known /\ k \in Manuals /\ k # i
  BY <1>1 DEF Versions, Known
<1>6. \A m \in Manuals : \A k \in before[m] : manual'[k].version = manual[k].version
  BY <1>3, <1>5
<1>7. \A k \in before[i] : manual[k].version < row.version
  BY <1>1, <1>2 DEF Versions, At
<1> HIDE DEF i, row
<1>8. VersionsGrow'
  <2>1. ASSUME NEW m \in Known', NEW k \in before[m] PROVE manual'[k].version < manual'[m].version
    <3>1. m \in Manuals
      BY DEF Known
    <3>2. CASE m = i
      BY <1>1, <1>3, <1>6, <1>7, <2>1, <3>2
    <3>3. CASE m # i
      BY <1>3, <1>4, <1>6, <2>1, <3>1, <3>3 DEF Versions, VersionsGrow
    <3> QED
      BY <3>2, <3>3
  <2> QED
    BY <1>1, <2>1 DEF VersionsGrow
<1>9. ASSUME NEW s \in Requests, req'[s].pc = "insert", NEW k \in before[req'[s].id]
      PROVE  manual'[k].version < req'[s].snap.version
  <2>1. req'[s] = req[s]
    BY <1>9, RowTypes DEF Insert, Request
  <2>2. req[s].id \in Manuals
    BY <1>9, <2>1, InsertKnows
  <2> QED
    BY <1>6, <1>9, <2>1, <2>2 DEF Versions, At
<1>10. \A m \in Manuals : before[m] \subseteq Known'
  BY <1>4, <1>5
<1>11. \A s \in Requests : Uploading(req'[s]) => req'[s] = req[s]
  BY RowTypes DEF Insert, Request, Uploading
<1>12. \A s \in Requests : Uploading(req'[s]) /\ req'[s].padded => before[req'[s].id] = {}
  BY <1>11 DEF Versions
<1> QED
  BY <1>1, <1>8, <1>9, <1>10, <1>12 DEF Versions, At

(* Every other step leaves alone what Versions is about. *)
LEMMA OtherVersions ==
  ASSUME Rows, Versions, before' = before,
         \/ \E r \in Requests :
              \/ \E on \in Known : \E kind \in {"reindex", "archive"} : Start(r, on, kind)
              \/ Load(r) \/ SavePending(r) \/ SaveArchived(r) \/ Schedule(r) \/ Drop(r) \/ Lose(r)
         \/ req' = req /\ Known' = Known /\ RowsStay
  PROVE  Versions'
<1>1. CASE req' = req /\ Known' = Known /\ RowsStay
  BY <1>1, VersionsKeep DEF SameUploads
<1>2. ASSUME NEW r \in Requests,
             \/ \E on \in Known : \E kind \in {"reindex", "archive"} : Start(r, on, kind)
             \/ Load(r) \/ SavePending(r) \/ SaveArchived(r) \/ Schedule(r) \/ Drop(r) \/ Lose(r)
      PROVE  Versions'
  <2>1. \A s \in Requests \ {r} : req'[s] = req[s]
    <3>1. req \in [Requests -> Request(uploads)]
      BY RowTypes
    <3>2. End(r) => \A s \in Requests \ {r} : req'[s] = req[s]
      BY <3>1 DEF End
    <3>3. \A on, kind : Start(r, on, kind) => \A s \in Requests \ {r} : req'[s] = req[s]
      BY <3>1 DEF Start
    <3> QED
      BY <1>2, <3>1, <3>2, <3>3 DEF Load, SavePending, SaveArchived, Schedule, Drop, Lose
  <2>2. req[r] \in Request(uploads) /\ NoReq.pc = "idle"
    BY RowTypes DEF NoReq
  <2>3. req'[r].pc # "insert"
    <3>1. End(r) => req'[r].pc # "insert"
      BY <2>2, RowTypes DEF End
    <3>2. SavePending(r) => req'[r].pc = "schedule"
      BY <2>2, RowTypes DEF SavePending, Request
    <3>3. SaveArchived(r) => End(r) \/ req'[r].pc = "version"
      <4>1. ASSUME req' = [req EXCEPT ![r].pc = "version", ![r].on = 0, ![r].snap = NoRow]
            PROVE  req'[r].pc = "version"
        <5>1. req'[r] = [req[r] EXCEPT !.pc = "version", !.on = 0, !.snap = NoRow]
          BY <4>1, RowTypes
        <5> QED
          BY <2>2, <5>1 DEF Request
      <4> QED
        BY <4>1 DEF SaveArchived
    <3>4. Load(r) => End(r) \/ req'[r].pc = "save"
      BY <2>2, RowTypes DEF Load, Request
    <3>5. ASSUME NEW on \in Known, NEW kind \in {"reindex", "archive"}, Start(r, on, kind)
          PROVE  req'[r].pc # "insert"
      BY <3>5, RowTypes DEF Start, NoReq
    <3> QED
      BY <1>2, <3>1, <3>2, <3>3, <3>4, <3>5 DEF Schedule, Drop, Lose
  <2>4. RowsStay /\ Known' = Known
    <3>1. manual' = manual => RowsStay /\ Known' = Known
      BY DEF RowsStay, Known
    <3> QED
      BY <1>2, <3>1, SavesKeepRows DEF Start, Load, Schedule, Drop, Lose, tables
  <2>5. SameUploads
    <3>1. End(r) => ~Uploading(req'[r])
      BY RowTypes DEF End, NoReq, Uploading
    <3>2. SavePending(r) => ~Uploading(req'[r])
      BY <2>2, RowTypes DEF SavePending, Request, Uploading
    <3>3. ASSUME SaveArchived(r), ~End(r)
          PROVE  /\ Uploading(req[r]) /\ req'[r].id = req[r].id
                 /\ req'[r].padded = req[r].padded
      <4>1. /\ req' = [req EXCEPT ![r].pc = "version", ![r].on = 0, ![r].snap = NoRow]
            /\ req[r].kind = "upload" /\ req[r].pc = "save"
        BY <2>2, <3>3, RowTypes DEF SaveArchived, At, Request, RequestKnows
      <4>2. req'[r] = [req[r] EXCEPT !.pc = "version", !.on = 0, !.snap = NoRow]
        BY <4>1, RowTypes
      <4>3. req'[r].id = req[r].id /\ req'[r].padded = req[r].padded
        BY <2>2, <4>2 DEF Request
      <4> QED
        BY <4>1, <4>3 DEF Uploading
    <3>4. ASSUME Load(r), ~End(r)
          PROVE  /\ req'[r].id = req[r].id /\ req'[r].padded = req[r].padded
                 /\ Uploading(req'[r]) => Uploading(req[r])
      BY <2>2, <3>4, RowTypes DEF Load, At, Request, Uploading
    <3>5. ASSUME NEW on \in Known, NEW kind \in {"reindex", "archive"}, Start(r, on, kind)
          PROVE  ~Uploading(req'[r])
      BY <3>5, RowTypes DEF Start, NoReq, Uploading
    <3> QED
      BY <1>2, <2>1, <3>1, <3>2, <3>3, <3>4, <3>5 DEF SameUploads, Schedule, Drop, Lose
  <2> QED
    BY <2>1, <2>3, <2>4, <2>5, VersionsKeep
<1> QED
  BY <1>1, <1>2

LEMMA NextVersions == Rows /\ Versions /\ [Next]_vars => Versions'
<1> SUFFICES ASSUME Rows, Versions, [Next]_vars PROVE Versions'
  OBVIOUS
<1>1. UNCHANGED <<req, manual, before>> => Versions'
  BY OtherVersions DEF RowsStay, Known
<1>2. ASSUME NEW r \in Requests, NEW on \in {0} \cup Known, NEW padded \in BOOLEAN,
             StartUpload(r, on, padded)
      PROVE  Versions'
  BY <1>2, StartUploadVersions
<1>3. ASSUME NEW r \in Requests, NEW on \in Known, NEW kind \in {"reindex", "archive"},
             Start(r, on, kind)
      PROVE  Versions'
  BY <1>3, OtherVersions DEF Start, history
<1>4. ASSUME NEW r \in Requests, Serve(r) \/ Drop(r) \/ Lose(r) PROVE Versions'
  <2>1. Put(r) \/ Insert(r) => Versions'
    BY PutVersions, InsertVersions
  <2>2. Load(r) \/ SavePending(r) \/ SaveArchived(r) \/ Schedule(r) \/ Drop(r) \/ Lose(r) =>
          before' = before
    BY DEF Load, SavePending, SaveArchived, Schedule, Drop, Lose, history
  <2> QED
    BY <1>4, <2>1, <2>2, OtherVersions DEF Serve
<1>5. ASSUME NEW t \in Tasks, Index(t) \/ Stop(t) PROVE Versions'
  <2>1. req' = req /\ before' = before
    BY <1>5 DEF Index, Stop, Fetch, Delete, InsertChunks, Mark, Fail, history
  <2> QED
    BY <1>5, <2>1, TasksKeepRows, OtherVersions
<1>6. ASSUME NEW q \in Questions, Ask(q) \/ Search(q) PROVE Versions'
  BY <1>1, <1>6 DEF Ask, Search, tables, history
<1>7. ASSUME NEW m \in Manuals, Settle(m) PROVE Versions'
  BY <1>1, <1>7 DEF Settle, tables
<1>8. UNCHANGED vars => Versions'
  BY <1>1 DEF vars, tables, history
<1> QED
  BY <1>2, <1>3, <1>4, <1>5, <1>6, <1>7, <1>8 DEF Next

(* A manual whose upload gave the name as it is stored has a greater       *)
(* version than those that were on record when the upload began.           *)
THEOREM NewVersionsAreGreater == Spec => []VersionsGrow
<1>1. Init => Versions
  BY DEF Init, Versions, VersionsGrow, Known, NoRow, NoReq, At, Uploading
<1>2. Versions => VersionsGrow
  BY DEF Versions
<1> QED
  BY <1>1, <1>2, NextVersions, RowsHold, PTL DEF Spec

-----------------------------------------------------------------------------
(* How a step moves a task: one task, for the same manual, that is not at  *)
(* its end.                                                                *)
LEMMA TaskSteps ==
  ASSUME Rows, NEW t \in Tasks, Index(t) \/ Stop(t)
  PROVE  /\ Busy(t) /\ task[t].id \in Manuals /\ task'[t].id = task[t].id
         /\ task'[t].pc \in TaskLabels \ {"none", "load"}
         /\ \A u \in Tasks \ {t} : task'[u] = task[u]
         /\ UNCHANGED <<stored, uploads, scheduled, req, question, history>>
<1>1. Busy(t)
  BY DEF Index, Stop, Fetch, Delete, InsertChunks, Mark, Fail, Busy, TaskAt
<1>2. task[t].id \in Manuals /\ task[t] \in Task(uploads)
  BY <1>1, BusyKnows
<1>3. ASSUME NEW pc, NEW snap, task' = [task EXCEPT ![t].pc = pc, ![t].snap = snap]
      PROVE  /\ task'[t].id = task[t].id /\ task'[t].pc = pc
             /\ \A u \in Tasks \ {t} : task'[u] = task[u]
  BY <1>2, <1>3, RowTypes DEF Task
<1>4. ASSUME NEW pc, TaskGoto(t, pc)
      PROVE  /\ task'[t].id = task[t].id /\ task'[t].pc = pc
             /\ \A u \in Tasks \ {t} : task'[u] = task[u]
  BY <1>2, <1>4, RowTypes DEF Task, TaskGoto
<1>5. ASSUME NEW pc, TaskEnd(t, pc)
      PROVE  /\ task'[t].id = task[t].id /\ task'[t].pc = pc
             /\ \A u \in Tasks \ {t} : task'[u] = task[u]
  BY <1>3, <1>5 DEF TaskEnd
<1>6. {"pdf", "insert", "mark", "fail", "done", "failed", "stopped"} \subseteq TaskLabels \ {"none", "load"}
  BY DEF TaskLabels
<1>7. UNCHANGED <<stored, uploads, scheduled, req, question, history>>
  BY DEF Index, Stop, Fetch, Delete, InsertChunks, Mark, Fail, tables
<1>8. CASE Fetch(t)
  BY <1>1, <1>2, <1>3, <1>6, <1>7, <1>8 DEF Fetch
<1>9. CASE Delete(t)
  BY <1>1, <1>2, <1>4, <1>6, <1>7, <1>9 DEF Delete
<1>10. CASE InsertChunks(t)
  BY <1>1, <1>2, <1>4, <1>6, <1>7, <1>10 DEF InsertChunks
<1>11. CASE Mark(t)
  BY <1>1, <1>2, <1>4, <1>5, <1>6, <1>7, <1>11 DEF Mark
<1>12. CASE Fail(t)
  BY <1>1, <1>2, <1>4, <1>5, <1>6, <1>7, <1>12 DEF Fail
<1>13. CASE Stop(t)
  BY <1>1, <1>2, <1>5, <1>6, <1>7, <1>13 DEF Stop
<1> QED
  BY <1>8, <1>9, <1>10, <1>11, <1>12, <1>13 DEF Index

(* A new task gets a number that none has.                                 *)
LEMMA ScheduleSteps ==
  ASSUME Rows, NEW r \in Requests, Schedule(r) \/ Lose(r)
  PROVE  /\ scheduled + 1 \in Tasks /\ task[scheduled + 1].pc = "none"
         /\ req[r].pc = "schedule" /\ req[r].on \in Manuals /\ End(r)
         /\ task'[scheduled + 1].id = req[r].on
         /\ task'[scheduled + 1].pc \in {"load", "stopped"}
         /\ \A u \in Tasks \ {scheduled + 1} : task'[u] = task[u]
         /\ UNCHANGED <<tables, question, settled, misled, before>>
<1>1. /\ RequestKnows(req[r], manual, stored, uploads) /\ req[r].pc = "schedule" /\ End(r)
      /\ scheduled' = scheduled + 1
  BY RowTypes DEF Schedule, Lose, At
<1>2. req[r].on \in Manuals /\ Takes(req[r])
  BY <1>1 DEF RequestKnows
<1>3. scheduled + 1 \in Tasks /\ scheduled \in Nat
  BY <1>1, <1>2, PlaceFreed, RowTypes DEF Tasks
<1>4. task[scheduled + 1].pc = "none"
  BY <1>3, RowTypes DEF TaskKnows
<1>5. ASSUME NEW pc \in {"load", "stopped"},
             task' = [task EXCEPT ![scheduled + 1] = [NoTask EXCEPT !.pc = pc, !.id = req[r].on]]
      PROVE  /\ task'[scheduled + 1].id = req[r].on /\ task'[scheduled + 1].pc = pc
             /\ \A u \in Tasks \ {scheduled + 1} : task'[u] = task[u]
  BY <1>3, <1>5, RowTypes DEF NoTask
<1>6. UNCHANGED <<tables, question, settled, misled, before>>
  BY DEF Schedule, Lose, history
<1> QED
  BY <1>1, <1>2, <1>3, <1>4, <1>5, <1>6 DEF Schedule, Lose

-----------------------------------------------------------------------------
(* Pending manuals: the task or the request that a pending manual waits    *)
(* for goes on, hands over to a task, or leaves it in another state.       *)
AtWork(m) == \E t \in Tasks : task[t].id = m /\ (Busy(t) \/ TaskAt(t, "stopped"))

AboutToSchedule(m) == \E r \in Requests : At(r, "schedule") /\ req[r].on = m

LEMMA PendingKeeps ==
  ASSUME PendingIsAwaited,
         \A m \in Known' : manual'[m].status = "indexing" =>
           \/ AtWork(m)' \/ AboutToSchedule(m)'
           \/ /\ manual[m].status = "indexing"
              /\ AtWork(m) => AtWork(m)'
              /\ AboutToSchedule(m) => AtWork(m)' \/ AboutToSchedule(m)'
  PROVE  PendingIsAwaited'
<1>1. \A m \in Known' : manual[m].status = "indexing" => m \in Known
  BY DEF Known
<1> QED
  BY <1>1 DEF PendingIsAwaited, AtWork, AboutToSchedule

(* The tasks stay, and whoever was about to schedule one still is. *)
LEMMA PendingUntouched ==
  ASSUME PendingIsAwaited, UNCHANGED <<manual, task>>,
         \A r \in Requests : At(r, "schedule") => req'[r] = req[r]
  PROVE  PendingIsAwaited'
<1>1. \A m : AtWork(m) => AtWork(m)'
  BY DEF AtWork, Busy, TaskAt
<1>2. \A m : AboutToSchedule(m) => AboutToSchedule(m)'
  BY DEF AboutToSchedule, At
<1> QED
  BY <1>1, <1>2, PendingKeeps

LEMMA SavePendingStep ==
  ASSUME Rows, PendingIsAwaited, NEW r \in Requests,
         SavePending(r) \/ SaveArchived(r) \/ Insert(r)
  PROVE  PendingIsAwaited'
<1>1. task' = task /\ req[r] \in Request(uploads)
  BY RowTypes DEF SavePending, SaveArchived, Insert
<1>2. \A m : AtWork(m) => AtWork(m)'
  BY <1>1 DEF AtWork, Busy, TaskAt
<1>3. \A s \in Requests \ {r} : req'[s] = req[s]
  BY RowTypes DEF SavePending, SaveArchived, Insert, End
<1>4. ~At(r, "schedule")
  BY DEF SavePending, SaveArchived, Insert, At
<1>5. \A m : AboutToSchedule(m) => AboutToSchedule(m)'
  BY <1>3, <1>4 DEF AboutToSchedule, At
<1>6. CASE SavePending(r)
  <2>1. req'[r].pc = "schedule" /\ req'[r].on = req[r].on
    BY <1>1, <1>6, RowTypes DEF SavePending, Request
  <2>2. \A m : m = req[r].on => AboutToSchedule(m)'
    BY <2>1 DEF AboutToSchedule, At
  <2>3. \A m \in Manuals : m # req[r].on => manual'[m] = manual[m]
    BY <1>6, RowTypes DEF SavePending, SaveRow
  <2> QED
    BY <1>2, <1>5, <2>2, <2>3, PendingKeeps DEF Known
<1>7. CASE Insert(r)
  <2>1. req'[r].pc = "schedule" /\ req'[r].on = req[r].id
    BY <1>1, <1>7, RowTypes DEF Insert, Request
  <2>2. \A m : m = req[r].id => AboutToSchedule(m)'
    BY <2>1 DEF AboutToSchedule, At
  <2>3. \A m \in Manuals : m # req[r].id => manual'[m] = manual[m]
    BY <1>7, RowTypes DEF Insert, SaveRow
  <2> QED
    BY <1>2, <1>5, <2>2, <2>3, PendingKeeps DEF Known
<1>8. CASE SaveArchived(r)
  <2>1. AsArchived(req[r].snap).status = "archived"
    BY <1>1 DEF AsArchived, Request, Row
  <2>2. \A m \in Manuals : manual'[m] = manual[m] \/ manual'[m].status = "archived"
    BY <1>8, <2>1, RowTypes DEF SaveArchived, SaveRow
  <2> QED
    BY <1>2, <1>5, <2>2, PendingKeeps DEF Known
<1> QED
  BY <1>6, <1>7, <1>8

LEMMA SchedulePending ==
  ASSUME Rows, PendingIsAwaited, NEW r \in Requests, Schedule(r) \/ Lose(r)
  PROVE  PendingIsAwaited'
<1>1. /\ scheduled + 1 \in Tasks /\ task[scheduled + 1].pc = "none"
      /\ task'[scheduled + 1].id = req[r].on
      /\ task'[scheduled + 1].pc \in {"load", "stopped"}
      /\ \A u \in Tasks \ {scheduled + 1} : task'[u] = task[u]
      /\ manual' = manual /\ End(r)
  BY ScheduleSteps DEF tables
<1>2. \A m : m = req[r].on => AtWork(m)'
  BY <1>1 DEF AtWork, Busy, TaskAt
<1>3. \A m : AtWork(m) => AtWork(m)'
  BY <1>1 DEF AtWork, Busy, TaskAt
<1>4. \A s \in Requests \ {r} : req'[s] = req[s]
  BY <1>1, RowTypes DEF End
<1>5. \A m : AboutToSchedule(m) => m = req[r].on \/ AboutToSchedule(m)'
  BY <1>4 DEF AboutToSchedule, At
<1> QED
  BY <1>1, <1>2, <1>3, <1>5, PendingKeeps

LEMMA TaskPending ==
  ASSUME Rows, PendingIsAwaited, NEW t \in Tasks, Index(t) \/ Stop(t)
  PROVE  PendingIsAwaited'
<1> DEFINE i == task[t].id
<1>1. /\ Busy(t) /\ i \in Manuals /\ task'[t].id = i
      /\ task'[t].pc \in TaskLabels \ {"none", "load"}
      /\ \A u \in Tasks \ {t} : task'[u] = task[u]
      /\ req' = req
  BY TaskSteps
<1>2. \A m : AboutToSchedule(m) => AboutToSchedule(m)'
  BY <1>1 DEF AboutToSchedule, At
<1>3. \A m : m # i => (AtWork(m) => AtWork(m)')
  BY <1>1 DEF AtWork, Busy, TaskAt
<1>4. CASE task'[t].pc \notin {"done", "failed"}
  <2>1. \A m : m = i => AtWork(m)'
    BY <1>1, <1>4 DEF AtWork, Busy, TaskAt
  <2>2. \A m \in Manuals : m # i => manual'[m] = manual[m]
    BY RowTypes DEF Index, Stop, Fetch, Delete, InsertChunks, Mark, Fail, SaveRow, tables
  <2> QED
    BY <1>2, <1>3, <2>1, <2>2, PendingKeeps DEF Known
<1>5. CASE task'[t].pc \in {"done", "failed"}
  <2>1. task[t].snap \in Row /\ task[t] \in Task(uploads)
    BY <1>1, BusyKnows
  <2>2. ~Fetch(t) /\ ~Delete(t) /\ ~InsertChunks(t) /\ ~Stop(t)
    BY <1>5, <2>1, RowTypes DEF Fetch, Delete, InsertChunks, Stop, TaskGoto, TaskEnd, Task
  <2>3. ~TaskGoto(t, "fail") /\ ~TaskEnd(t, "stopped")
    BY <1>5, <2>1, RowTypes DEF TaskGoto, TaskEnd, Task
  <2>4. AsIndexed(task[t].snap, CountOf(i)).status = "active"
        /\ AsFailed(task[t].snap).status = "error"
    BY <2>1 DEF AsIndexed, AsFailed, Row
  <2>5. \A m \in Manuals : manual'[m].status = "indexing" => m # i /\ manual'[m] = manual[m]
    BY <2>2, <2>3, <2>4, RowTypes DEF Index, Mark, Fail, SaveRow
  <2> QED
    BY <1>2, <1>3, <2>5, PendingKeeps DEF Known
<1> QED
  BY <1>4, <1>5

LEMMA NextPending == Rows /\ PendingIsAwaited /\ [Next]_vars => PendingIsAwaited'
<1> SUFFICES ASSUME Rows, PendingIsAwaited, [Next]_vars PROVE PendingIsAwaited'
  OBVIOUS
<1>1. UNCHANGED <<req, manual, task>> => PendingIsAwaited'
  BY PendingUntouched
<1>2. ASSUME NEW r \in Requests, NEW on \in {0} \cup Known, NEW padded \in BOOLEAN,
             StartUpload(r, on, padded)
      PROVE  PendingIsAwaited'
  <2>1. UNCHANGED <<manual, task>> /\ \A s \in Requests : At(s, "schedule") => req'[s] = req[s]
    BY <1>2, RowTypes DEF StartUpload, tables, At
  <2> QED
    BY <2>1, PendingUntouched
<1>3. ASSUME NEW r \in Requests, NEW on \in Known, NEW kind \in {"reindex", "archive"},
             Start(r, on, kind)
      PROVE  PendingIsAwaited'
  <2>1. UNCHANGED <<manual, task>> /\ \A s \in Requests : At(s, "schedule") => req'[s] = req[s]
    BY <1>3, RowTypes DEF Start, tables, At
  <2> QED
    BY <2>1, PendingUntouched
<1>4. ASSUME NEW r \in Requests, Load(r) \/ Put(r) \/ Drop(r) PROVE PendingIsAwaited'
  <2>1. UNCHANGED <<manual, task>> /\ ~At(r, "schedule")
    BY <1>4 DEF Load, Put, Drop, tables, At
  <2>2. \A s \in Requests \ {r} : req'[s] = req[s]
    BY <1>4, RowTypes DEF Load, Put, Drop, End
  <2> QED
    BY <2>1, <2>2, PendingUntouched
<1>5. ASSUME NEW r \in Requests, Serve(r) \/ Drop(r) \/ Lose(r) PROVE PendingIsAwaited'
  BY <1>4, <1>5, SavePendingStep, SchedulePending DEF Serve
<1>6. ASSUME NEW q \in Questions, Ask(q) \/ Search(q) PROVE PendingIsAwaited'
  BY <1>1, <1>6 DEF Ask, Search, tables
<1>7. ASSUME NEW m \in Manuals, Settle(m) PROVE PendingIsAwaited'
  BY <1>1, <1>7 DEF Settle, tables
<1>8. UNCHANGED vars => PendingIsAwaited'
  BY <1>1 DEF vars, tables
<1> QED
  BY <1>2, <1>3, <1>5, <1>6, <1>7, <1>8, TaskPending DEF Next

(* A manual that waits to be indexed has a task at work on it or a request *)
(* about to schedule one, unless one of them came to an untimely end.      *)
THEOREM PendingManualsAreAwaited == Spec => []PendingIsAwaited
<1>1. Init => PendingIsAwaited
  BY DEF Init, PendingIsAwaited, Known, NoRow
<1> QED
  BY <1>1, NextPending, RowsHold, PTL DEF Spec

-----------------------------------------------------------------------------
(* Chunks: no task had ended before another that shares a manual's chunks  *)
(* with it began, and a manual whose text should have left chunks has      *)
(* some, or a task that took them away or did not come to its end.         *)
Ended(t) == task[t].pc \in {"done", "failed", "stopped"}

Excused(m) ==
  \E t \in Tasks : task[t].id = m /\ task[t].pc \in {"insert", "fail", "failed", "stopped"}

ActiveIsDone(m) ==
  manual[m].status = "active" =>
    /\ \E t \in Tasks : task[t].id = m /\ TaskAt(t, "done")
    /\ manual[m].count > 0 => m \notin Blank

Chunks ==
  /\ \A t \in Tasks : \A u \in after[t] : Ended(u)
  /\ \A m \in Manuals : \A t \in chunks[m] : task[t].pc # "none" /\ chunks[m] \cap after[t] = {}
  /\ \A t \in Tasks : TaskAt(t, "insert") => chunks[task[t].id] \cap after[t] = {}
  /\ \A t \in Tasks : (TaskAt(t, "mark") \/ TaskAt(t, "done")) =>
       task[t].id \in Blank \/ chunks[task[t].id] # {} \/ Excused(task[t].id)
  /\ \A m \in Manuals : ActiveIsDone(m)

LEMMA ChunksKeep ==
  ASSUME Chunks, UNCHANGED <<chunks, task, after>>,
         \A m \in Manuals : manual'[m].status = "active" => manual'[m] = manual[m]
  PROVE  Chunks'
<1>1. ASSUME NEW m \in Manuals PROVE ActiveIsDone(m)'
  BY DEF Chunks, ActiveIsDone, TaskAt
<1>2. \A m : Excused(m) <=> Excused(m)'
  BY DEF Excused
<1>3. \A t : Ended(t) <=> Ended(t)'
  BY DEF Ended
<1> QED
  BY <1>1, <1>2, <1>3 DEF Chunks, TaskAt

(* A request leaves no row active that it writes. *)
LEMMA RequestChunks ==
  ASSUME Rows, Chunks, NEW r \in Requests, SavePending(r) \/ SaveArchived(r) \/ Insert(r)
  PROVE  Chunks'
<1>1. req[r].snap \in Row
  BY RowTypes DEF Request
<1>2. AsPending(req[r].snap).status = "indexing" /\ AsArchived(req[r].snap).status = "archived"
  BY <1>1 DEF AsPending, AsArchived, Row
<1>3. \A m \in Manuals : manual'[m].status = "active" => manual'[m] = manual[m]
  BY <1>2, RowTypes DEF SavePending, SaveArchived, Insert, SaveRow
<1>4. UNCHANGED <<chunks, task, after>>
  BY DEF SavePending, SaveArchived, Insert, history
<1> QED
  BY <1>3, <1>4, ChunksKeep

(* A new task comes after those that have ended, and has no chunks yet.    *)
LEMMA ScheduleChunks ==
  ASSUME Rows, Chunks, NEW r \in Requests, Schedule(r) \/ Lose(r)
  PROVE  Chunks'
<1> DEFINE n == scheduled + 1
<1>1. /\ n \in Tasks /\ task[n].pc = "none" /\ task'[n].pc \in {"load", "stopped"}
      /\ \A u \in Tasks \ {n} : task'[u] = task[u]
      /\ UNCHANGED <<manual, chunks>>
  BY ScheduleSteps DEF tables
<1>2. \A u \in Tasks : Ended(u) => Ended(u)' /\ u # n
  BY <1>1 DEF Ended
<1>3. \A t \in Tasks : after'[t] = after[t] \/ (t = n /\ \A u \in after'[t] : u \in Tasks /\ Ended(u))
  BY <1>1 DEF Schedule, Lose, history, Rows, TypeOK, Ended
<1>4. after \in [Tasks -> SUBSET Tasks] /\ chunks \in [Manuals -> SUBSET Tasks]
  BY DEF Rows, TypeOK
<1>5. \A t \in Tasks : \A u \in after'[t] : Ended(u)'
  BY <1>2, <1>3, <1>4 DEF Chunks
<1>6. \A m \in Manuals : \A t \in chunks[m] : t \in Tasks /\ t # n
  BY <1>1, <1>4 DEF Chunks
<1>7. \A m \in Manuals : \A t \in chunks[m] : task'[t].pc # "none" /\ chunks[m] \cap after'[t] = {}
  BY <1>1, <1>3, <1>6 DEF Chunks
<1>8. \A t \in Tasks : task'[t].pc \in {"insert", "mark", "done"} => t # n /\ task'[t] = task[t]
  BY <1>1
<1>9. \A m : Excused(m) => Excused(m)'
  BY <1>1 DEF Excused
<1>10. ASSUME NEW m \in Manuals PROVE ActiveIsDone(m)'
  BY <1>1 DEF Chunks, ActiveIsDone, TaskAt
<1>11. \A t \in Tasks : TaskAt(t, "insert")' => chunks'[task'[t].id] \cap after'[t] = {}
  BY <1>1, <1>3, <1>8 DEF Chunks, TaskAt
<1>12. ASSUME NEW t \in Tasks, task'[t].pc \in {"mark", "done"}
       PROVE  task'[t].id \in Blank \/ chunks'[task'[t].id] # {} \/ \E m : m = task'[t].id /\ Excused(m)'
  BY <1>1, <1>8, <1>9, <1>12 DEF Chunks, TaskAt
<1>13. \A t \in Tasks : (TaskAt(t, "mark") \/ TaskAt(t, "done"))' =>
         (task[t].id \in Blank \/ chunks[task[t].id] # {} \/ Excused(task[t].id))'
  BY <1>12 DEF TaskAt, Excused
<1> QED
  BY <1>1, <1>5, <1>7, <1>10, <1>11, <1>13 DEF Chunks

(* A task moves on: it may take the chunks of its manual away, and then it *)
(* is about to insert its own or has failed.                               *)
LEMMA TaskChunks ==
  ASSUME Rows, Chunks, NEW t \in Tasks, NEW i \in Manuals, i = task[t].id, Busy(t),
         task'[t].id = i, after' = after,
         \A u \in Tasks \ {t} : task'[u] = task[u],
         task'[t].pc \in {"pdf", "insert", "fail", "failed", "stopped"},
         task[t].pc \in {"insert", "fail"} => task'[t].pc \in {"fail", "failed", "stopped"},
         \A m \in Manuals : m # i => chunks'[m] = chunks[m],
         \/ chunks'[i] = chunks[i] /\ task'[t].pc # "insert"
         \/ chunks'[i] = {} /\ task'[t].pc \in {"insert", "fail"},
         \A m \in Manuals : manual'[m].status = "active" => manual'[m] = manual[m]
  PROVE  Chunks'
<1>1. after \in [Tasks -> SUBSET Tasks] /\ chunks \in [Manuals -> SUBSET Tasks]
  BY DEF Rows, TypeOK
<1>2. \A u \in Tasks : Ended(u) => Ended(u)'
  BY DEF Ended, Busy
<1>3. \A u \in Tasks : \A v \in after'[u] : Ended(v)'
  BY <1>1, <1>2 DEF Chunks
<1>4. \A m \in Manuals : chunks'[m] \subseteq chunks[m]
  OBVIOUS
<1>5. \A u \in Tasks : task[u].pc # "none" => task'[u].pc # "none"
  OBVIOUS
<1>6. \A m \in Manuals : \A u \in chunks'[m] : task'[u].pc # "none" /\ chunks'[m] \cap after'[u] = {}
  BY <1>1, <1>4, <1>5 DEF Chunks
<1>7. \A u \in Tasks \ {t} : task[u].pc # "none" => task[u].id \in Manuals
  BY RowTypes DEF TaskKnows
<1>8. \A u \in Tasks : TaskAt(u, "insert")' => chunks'[task'[u].id] \cap after'[u] = {}
  BY <1>4, <1>7 DEF Chunks, TaskAt
<1>9. \A m : Excused(m) => Excused(m)'
  BY DEF Excused, Busy
<1>10. chunks'[i] # chunks[i] => \A m : m = i => Excused(m)'
  BY DEF Excused
<1>11. ASSUME NEW u \in Tasks, task'[u].pc \in {"mark", "done"}
       PROVE  task'[u].id \in Blank \/ chunks'[task'[u].id] # {} \/ \E m : m = task'[u].id /\ Excused(m)'
  <2>1. u # t /\ task'[u] = task[u] /\ task[u].id \in Manuals
    BY <1>7, <1>11
  <2>2. task[u].id \in Blank \/ chunks[task[u].id] # {} \/ Excused(task[u].id)
    BY <1>11, <2>1 DEF Chunks, TaskAt
  <2> QED
    BY <1>9, <1>10, <2>1, <2>2
<1>12. \A u \in Tasks : (TaskAt(u, "mark") \/ TaskAt(u, "done"))' =>
         (task[u].id \in Blank \/ chunks[task[u].id] # {} \/ Excused(task[u].id))'
  BY <1>11 DEF TaskAt, Excused
<1>13. ASSUME NEW m \in Manuals PROVE ActiveIsDone(m)'
  BY DEF Chunks, ActiveIsDone, TaskAt, Busy
<1> QED
  BY <1>3, <1>6, <1>8, <1>12, <1>13 DEF Chunks

(* It puts its chunks beside those that other tasks have put there since   *)
(* it began, and none if there is no text.                                 *)
LEMMA InsertedChunks ==
  ASSUME Rows, Chunks, NEW t \in Tasks, NEW i \in Manuals, i = task[t].id,
         TaskAt(t, "insert"), task'[t].id = i, task'[t].pc = "mark",
         \A u \in Tasks \ {t} : task'[u] = task[u],
         chunks' = IF CountOf(i) = 0 THEN chunks ELSE [chunks EXCEPT ![i] = @ \cup {t}],
         UNCHANGED <<manual, after>>
  PROVE  Chunks'
<1>1. after \in [Tasks -> SUBSET Tasks] /\ chunks \in [Manuals -> SUBSET Tasks]
  BY DEF Rows, TypeOK
<1>2. \A u \in Tasks : Ended(u) => Ended(u)' /\ u # t
  BY DEF Ended, TaskAt
<1>3. \A u \in Tasks : \A v \in after[u] : Ended(v)' /\ v # t
  BY <1>1, <1>2 DEF Chunks
<1>4. \A m \in Manuals : chunks'[m] = chunks[m] \/ (m = i /\ chunks'[m] = chunks[m] \cup {t})
  BY <1>1
<1>5. \A u \in Tasks : task[u].pc # "none" => task'[u].pc # "none"
  OBVIOUS
<1>6. ASSUME NEW m \in Manuals, NEW u \in chunks'[m]
      PROVE  task'[u].pc # "none" /\ chunks'[m] \cap after[u] = {}
  <2>1. u \in Tasks
    BY <1>1, <1>4, <1>6
  <2>2. CASE u \in chunks[m]
    BY <1>3, <1>4, <1>5, <2>1, <2>2 DEF Chunks
  <2>3. CASE u = t /\ m = i
    BY <1>3, <1>4, <2>1, <2>3 DEF Chunks
  <2> QED
    BY <1>4, <1>6, <2>2, <2>3
<1>7. \A u \in Tasks \ {t} : task[u].pc # "none" => task[u].id \in Manuals
  BY RowTypes DEF TaskKnows
<1>8. \A u \in Tasks : TaskAt(u, "insert")' => chunks'[task'[u].id] \cap after'[u] = {}
  BY <1>3, <1>4, <1>7 DEF Chunks, TaskAt
<1>9. \A m : m # i => (Excused(m) => Excused(m)')
  BY DEF Excused
<1>10. i \in Blank \/ chunks'[i] # {}
  BY <1>1 DEF CountOf
<1>11. ASSUME NEW u \in Tasks, task'[u].pc \in {"mark", "done"}
       PROVE  task'[u].id \in Blank \/ chunks'[task'[u].id] # {} \/ \E m : m = task'[u].id /\ Excused(m)'
  <2>1. CASE task'[u].id = i
    BY <1>10, <2>1
  <2>2. CASE task'[u].id # i
    <3>1. u # t /\ task'[u] = task[u] /\ task[u].id \in Manuals
      BY <1>7, <1>11, <2>2
    <3>2. task[u].id \in Blank \/ chunks[task[u].id] # {} \/ Excused(task[u].id)
      BY <1>11, <3>1 DEF Chunks, TaskAt
    <3> QED
      BY <1>4, <1>9, <2>2, <3>1, <3>2
  <2> QED
    BY <2>1, <2>2
<1>12. \A u \in Tasks : (TaskAt(u, "mark") \/ TaskAt(u, "done"))' =>
         (task[u].id \in Blank \/ chunks[task[u].id] # {} \/ Excused(task[u].id))'
  BY <1>11 DEF TaskAt, Excused
<1>13. ASSUME NEW m \in Manuals PROVE ActiveIsDone(m)'
  BY DEF Chunks, ActiveIsDone, TaskAt
<1> QED
  BY <1>3, <1>6, <1>8, <1>12, <1>13 DEF Chunks

(* The row it marks becomes active: this task is done with it.             *)
LEMMA MarkedChunks ==
  ASSUME Rows, Chunks, NEW t \in Tasks, NEW i \in Manuals, i = task[t].id,
         TaskAt(t, "mark"), task'[t].id = i, task'[t].pc = "done",
         \A u \in Tasks \ {t} : task'[u] = task[u],
         \A m \in Manuals : m # i => manual'[m] = manual[m],
         manual'[i].count = CountOf(i), UNCHANGED <<chunks, after>>
  PROVE  Chunks'
<1>1. \A u \in Tasks : Ended(u) => Ended(u)'
  BY DEF Ended
<1>2. \A u \in Tasks : \A v \in after[u] : Ended(v)'
  BY <1>1 DEF Chunks, Rows, TypeOK
<1>3. \A m \in Manuals : \A u \in chunks[m] : task'[u].pc # "none" /\ chunks[m] \cap after[u] = {}
  BY DEF Chunks, Rows, TypeOK
<1>4. \A u \in Tasks : TaskAt(u, "insert")' => chunks'[task'[u].id] \cap after'[u] = {}
  BY DEF Chunks, TaskAt
<1>5. \A m : Excused(m) => Excused(m)'
  BY DEF Excused, TaskAt
<1>6. ASSUME NEW u \in Tasks, task'[u].pc \in {"mark", "done"}
      PROVE  task'[u].id \in Blank \/ chunks'[task'[u].id] # {} \/ \E m : m = task'[u].id /\ Excused(m)'
  <2>1. task[u].id \in Blank \/ chunks[task[u].id] # {} \/ Excused(task[u].id)
    BY <1>6 DEF Chunks, TaskAt
  <2> QED
    BY <1>5, <2>1
<1>7. \A u \in Tasks : (TaskAt(u, "mark") \/ TaskAt(u, "done"))' =>
        (task[u].id \in Blank \/ chunks[task[u].id] # {} \/ Excused(task[u].id))'
  BY <1>6 DEF TaskAt, Excused
<1>8. ASSUME NEW m \in Manuals PROVE ActiveIsDone(m)'
  <2>1. CASE m = i
    BY <2>1 DEF ActiveIsDone, TaskAt, CountOf
  <2>2. CASE m # i
    BY <2>2 DEF Chunks, ActiveIsDone, TaskAt
  <2> QED
    BY <2>1, <2>2
<1> QED
  BY <1>2, <1>3, <1>4, <1>7, <1>8 DEF Chunks

LEMMA IndexChunks ==
  ASSUME Rows, Chunks, NEW t \in Tasks, Index(t) \/ Stop(t)
  PROVE  Chunks'
<1> DEFINE i == task[t].id
<1>1. /\ Busy(t) /\ i \in Manuals /\ task'[t].id = i
      /\ \A u \in Tasks \ {t} : task'[u] = task[u] /\ after' = after
  BY TaskSteps DEF history
<1>2. task[t] \in Task(uploads) /\ task[t].snap \in Row /\ after' = after
  BY <1>1, TaskSteps, BusyKnows DEF history
<1>3. chunks \in [Manuals -> SUBSET Tasks] /\ manual \in [Manuals -> Row]
  BY RowTypes
<1>4. ASSUME NEW pc, TaskGoto(t, pc) PROVE task'[t].pc = pc
  BY <1>2, <1>4, RowTypes DEF TaskGoto, Task
<1>5. ASSUME NEW pc, TaskEnd(t, pc) PROVE task'[t].pc = pc
  BY <1>2, <1>5, RowTypes DEF TaskEnd, Task
<1>6. CASE Fetch(t)
  <2>1. task'[t].pc = "pdf" /\ task[t].pc = "load"
    BY <1>2, <1>6, RowTypes DEF Fetch, TaskAt, Task
  <2>2. UNCHANGED <<manual, chunks>>
    BY <1>6 DEF Fetch, tables
  <2> QED
    BY <1>1, <1>2, <2>1, <2>2, TaskChunks
<1>7. CASE Delete(t)
  <2>1. task[t].pc = "pdf" /\ manual' = manual
    BY <1>7 DEF Delete, TaskAt
  <2>2. \/ task'[t].pc \in {"insert", "fail"} /\ chunks'[i] = {}
        \/ task'[t].pc = "fail" /\ chunks'[i] = chunks[i]
    BY <1>1, <1>3, <1>4, <1>7 DEF Delete
  <2>3. \A m \in Manuals : m # i => chunks'[m] = chunks[m]
    BY <1>3, <1>7 DEF Delete
  <2> QED
    BY <1>1, <1>2, <2>1, <2>2, <2>3, TaskChunks
<1>8. CASE InsertChunks(t)
  <2>1. task[t].pc = "insert" /\ manual' = manual
    BY <1>8 DEF InsertChunks, TaskAt
  <2>2. CASE chunks' = chunks /\ TaskGoto(t, "fail")
    BY <1>1, <1>2, <1>4, <2>1, <2>2, TaskChunks
  <2>3. CASE /\ chunks' = IF CountOf(i) = 0 THEN chunks ELSE [chunks EXCEPT ![i] = @ \cup {t}]
             /\ TaskGoto(t, "mark")
    <3>1. task'[t].pc = "mark"
      BY <1>4, <2>3
    <3> HIDE DEF i
    <3> QED
      BY <1>1, <1>2, <2>1, <2>3, <3>1, InsertedChunks DEF TaskAt, i
  <2> QED
    BY <1>8, <2>2, <2>3 DEF InsertChunks
<1>9. CASE Mark(t)
  <2>1. task[t].pc = "mark" /\ chunks' = chunks
    BY <1>9 DEF Mark, TaskAt
  <2>2. CASE manual' = manual /\ TaskGoto(t, "fail")
    BY <1>1, <1>2, <1>4, <2>1, <2>2, TaskChunks
  <2>3. CASE SaveRow(i, AsIndexed(task[t].snap, CountOf(i))) /\ TaskEnd(t, "done")
    <3>1. task'[t].pc = "done"
      BY <1>5, <2>3
    <3>2. AsIndexed(task[t].snap, CountOf(i)).count = CountOf(i)
      BY <1>2 DEF AsIndexed, Row
    <3>3. manual'[i].count = CountOf(i) /\ \A m \in Manuals : m # i => manual'[m] = manual[m]
      BY <1>1, <1>3, <2>3, <3>2 DEF SaveRow
    <3> QED
      BY <1>1, <1>2, <2>1, <3>1, <3>3, MarkedChunks DEF TaskAt
  <2> QED
    BY <1>9, <2>2, <2>3 DEF Mark
<1>10. CASE Fail(t)
  <2>1. task[t].pc = "fail" /\ chunks' = chunks
    BY <1>10 DEF Fail, TaskAt
  <2>2. task'[t].pc \in {"failed", "stopped"}
    BY <1>5, <1>10 DEF Fail
  <2>3. AsFailed(task[t].snap).status = "error"
    BY <1>2 DEF AsFailed, Row
  <2>4. \A m \in Manuals : manual'[m].status = "active" => manual'[m] = manual[m]
    BY <1>3, <1>10, <2>3 DEF Fail, SaveRow
  <2> QED
    BY <1>1, <1>2, <2>1, <2>2, <2>4, TaskChunks
<1>11. CASE Stop(t)
  <2>1. task'[t].pc = "stopped" /\ UNCHANGED <<manual, chunks>>
    BY <1>5, <1>11 DEF Stop, tables
  <2> QED
    BY <1>1, <1>2, <2>1, TaskChunks
<1> QED
  BY <1>6, <1>7, <1>8, <1>9, <1>10, <1>11 DEF Index

LEMMA NextChunks == Rows /\ Chunks /\ [Next]_vars => Chunks'
<1> SUFFICES ASSUME Rows, Chunks, [Next]_vars PROVE Chunks'
  OBVIOUS
<1>1. UNCHANGED <<manual, chunks, task, after>> => Chunks'
  BY ChunksKeep
<1>2. ASSUME NEW r \in Requests, NEW on \in {0} \cup Known, NEW padded \in BOOLEAN,
             StartUpload(r, on, padded)
      PROVE  Chunks'
  BY <1>1, <1>2 DEF StartUpload, tables
<1>3. ASSUME NEW r \in Requests, NEW on \in Known, NEW kind \in {"reindex", "archive"},
             Start(r, on, kind)
      PROVE  Chunks'
  BY <1>1, <1>3 DEF Start, tables, history
<1>4. ASSUME NEW r \in Requests, Load(r) \/ Put(r) \/ Drop(r) PROVE Chunks'
  BY <1>1, <1>4 DEF Load, Put, Drop, tables, history
<1>5. ASSUME NEW r \in Requests, Serve(r) \/ Drop(r) \/ Lose(r) PROVE Chunks'
  BY <1>4, <1>5, RequestChunks, ScheduleChunks DEF Serve
<1>6. ASSUME NEW q \in Questions, Ask(q) \/ Search(q) PROVE Chunks'
  BY <1>1, <1>6 DEF Ask, Search, tables, history
<1>7. ASSUME NEW m \in Manuals, Settle(m) PROVE Chunks'
  BY <1>1, <1>7 DEF Settle, tables
<1>8. UNCHANGED vars => Chunks'
  BY <1>1 DEF vars, tables, history
<1> QED
  BY <1>2, <1>3, <1>5, <1>6, <1>7, <1>8, IndexChunks DEF Next

(* The chunks of a manual are those of one task, or of tasks that ran side *)
(* by side; an active manual that should have chunks has some, unless a    *)
(* task of it is at work on them, failed or was stopped.                   *)
THEOREM ChunksStayTrue == Spec => []ChunksAreTrue
<1>1. Init => Chunks
  BY DEF Init, Chunks, ActiveIsDone, NoRow, NoTask, TaskAt
<1>2. Rows /\ Chunks => ChunksAreTrue
  <2> SUFFICES ASSUME Rows, Chunks, NEW m \in Known PROVE ChunksAreTrue!(m)
    BY DEF ChunksAreTrue
  <2>1. m \in Manuals
    BY DEF Known
  <2>2. ASSUME manual[m].status = "active", manual[m].count > 0, chunks[m] = {} PROVE Excused(m)
    BY <2>1, <2>2 DEF Chunks, ActiveIsDone
  <2> QED
    BY <2>1, <2>2 DEF Chunks, Excused
<1> QED
  BY <1>1, <1>2, NextChunks, RowsHold, PTL DEF Spec

-----------------------------------------------------------------------------
(* Archived for good: of what is under way only a request that has yet to  *)
(* read the row can name a settled manual, and it will be refused.         *)
LeftAlone(m) ==
  /\ Archived(m)
  /\ \A t \in Tasks : Busy(t) => task[t].id # m
  /\ \A r \in Requests : req[r].on = m => At(r, "load")

Settled ==
  /\ \A m \in settled : LeftAlone(m)
  /\ \A q \in Questions : ~question[q].late
  /\ misled = {}

(* A request moves that is not on the manual, or has yet to read its row.  *)
LEMMA RequestLeavesAlone ==
  ASSUME Rows, NEW m \in Manuals, LeftAlone(m), NEW r \in Requests,
         manual'[m] = manual[m], task' = task,
         \A s \in Requests \ {r} : req'[s] = req[s],
         req'[r].on = m => req'[r].pc = "load"
  PROVE  LeftAlone(m)'
  BY DEF LeftAlone, Archived, Busy, At

LEMMA ServeLeavesAlone ==
  ASSUME Rows, NEW m \in Manuals, LeftAlone(m), NEW r \in Requests,
         Serve(r) \/ Drop(r) \/ Lose(r)
  PROVE  LeftAlone(m)'
<1>1. \A s \in Requests \ {r} : req'[s] = req[s]
  BY RowTypes DEF Serve, Load, SavePending, SaveArchived, Put, Insert, Schedule, Drop, Lose, End
<1>2. m # 0 /\ NoReq.on = 0 /\ req[r] \in Request(uploads)
  BY RowTypes DEF Manuals, NoReq
<1>3. End(r) => req'[r].on = 0
  BY <1>2, RowTypes DEF End
<1>4. req[r].pc # "load" => req[r].on # m
  BY DEF LeftAlone, At
<1>5. CASE Load(r)
  <2>1. req[r].on = m => End(r)
    BY <1>5 DEF Load, Refused, LeftAlone, Archived
  <2>2. ~End(r) => req'[r].on = req[r].on
    BY <1>2, <1>5, RowTypes DEF Load, Request
  <2> QED
    BY <1>1, <1>2, <1>3, <1>5, <2>1, <2>2, RequestLeavesAlone DEF Load, tables
<1>6. CASE SavePending(r)
  <2>1. req'[r].on = req[r].on /\ req[r].on # m /\ task' = task
    BY <1>2, <1>4, <1>6, RowTypes DEF SavePending, At, Request
  <2>2. manual'[m] = manual[m]
    BY <1>6, <2>1, RowTypes DEF SavePending, SaveRow
  <2> QED
    BY <1>1, <2>1, <2>2, RequestLeavesAlone
<1>7. CASE SaveArchived(r)
  <2>1. req[r].on # m /\ task' = task
    BY <1>4, <1>7 DEF SaveArchived, At
  <2>2. manual'[m] = manual[m]
    BY <1>7, <2>1, RowTypes DEF SaveArchived, SaveRow
  <2>3. ASSUME req' = [req EXCEPT ![r].pc = "version", ![r].on = 0, ![r].snap = NoRow]
        PROVE  req'[r].on = 0
    <3>1. req'[r] = [req[r] EXCEPT !.pc = "version", !.on = 0, !.snap = NoRow]
      BY <2>3, RowTypes
    <3> QED
      BY <1>2, <3>1 DEF Request
  <2>4. req'[r].on = 0
    BY <1>3, <1>7, <2>3 DEF SaveArchived
  <2> QED
    BY <1>1, <1>2, <2>1, <2>2, <2>4, RequestLeavesAlone
<1>8. CASE Put(r)
  <2>1. req[r].on = 0 /\ manual' = manual /\ task' = task
    BY <1>8, RowTypes DEF Put, At, RequestKnows
  <2>2. ~End(r) => req'[r].on = req[r].on
    BY <1>2, <1>8, RowTypes DEF Put, Request
  <2> QED
    BY <1>1, <1>2, <1>3, <2>1, <2>2, RequestLeavesAlone
<1>9. CASE Insert(r)
  <2>1. manual[req[r].id].status = "none" /\ task' = task
    BY <1>9, InsertKnows DEF Insert, At
  <2>2. req[r].id # m
    BY <2>1 DEF LeftAlone, Archived
  <2>3. req'[r].on = req[r].id
    BY <1>2, <1>9, RowTypes DEF Insert, Request
  <2>4. manual'[m] = manual[m]
    BY <1>9, <2>2, RowTypes DEF Insert, SaveRow
  <2> QED
    BY <1>1, <2>1, <2>2, <2>3, <2>4, RequestLeavesAlone
<1>10. CASE Schedule(r) \/ Lose(r)
  <2>1. /\ End(r) /\ req[r].pc = "schedule" /\ manual' = manual
        /\ task'[scheduled + 1].id = req[r].on
        /\ \A u \in Tasks \ {scheduled + 1} : task'[u] = task[u]
    BY <1>10, ScheduleSteps DEF tables
  <2>2. \A t \in Tasks : Busy(t)' => task'[t].id # m
    BY <1>4, <2>1 DEF LeftAlone, Busy
  <2> QED
    BY <1>1, <1>2, <1>3, <2>1, <2>2 DEF LeftAlone, Archived, At
<1>11. CASE Drop(r)
  BY <1>1, <1>2, <1>3, <1>11, RequestLeavesAlone DEF Drop, tables
<1> QED
  BY <1>5, <1>6, <1>7, <1>8, <1>9, <1>10, <1>11 DEF Serve

LEMMA IndexLeavesAlone ==
  ASSUME Rows, NEW m \in Manuals, LeftAlone(m), NEW t \in Tasks, Index(t) \/ Stop(t)
  PROVE  LeftAlone(m)'
<1>1. /\ Busy(t) /\ task'[t].id = task[t].id /\ req' = req
      /\ \A u \in Tasks \ {t} : task'[u] = task[u]
  BY TaskSteps
<1>2. task[t].id # m
  BY <1>1 DEF LeftAlone
<1>3. manual'[m] = manual[m]
  BY <1>2, RowTypes DEF Index, Stop, Fetch, Delete, InsertChunks, Mark, Fail, SaveRow, tables
<1> QED
  BY <1>1, <1>2, <1>3 DEF LeftAlone, Archived, Busy, At

LEMMA SettledKeeps ==
  ASSUME Rows, Settled, UNCHANGED <<settled, question, misled>>,
         \A m \in Manuals : LeftAlone(m) => LeftAlone(m)'
  PROVE  Settled'
<1>1. settled \subseteq Manuals
  BY DEF Rows, TypeOK
<1> QED
  BY <1>1 DEF Settled

LEMMA NextSettled == Rows /\ Settled /\ [Next]_vars => Settled'
<1> SUFFICES ASSUME Rows, Settled, [Next]_vars PROVE Settled'
  OBVIOUS
<1>1. UNCHANGED <<manual, task, req>> => \A m \in Manuals : LeftAlone(m) <=> LeftAlone(m)'
  BY DEF LeftAlone, Archived, Busy, At
<1>2. ASSUME NEW r \in Requests, NEW on \in {0} \cup Known, NEW padded \in BOOLEAN,
             StartUpload(r, on, padded)
      PROVE  Settled'
  <2>1. /\ UNCHANGED <<settled, question, misled, manual, task>>
        /\ \A s \in Requests \ {r} : req'[s] = req[s]
    BY <1>2, RowTypes DEF StartUpload, tables
  <2>2. req'[r].on = on /\ req'[r].pc = IF on = 0 THEN "version" ELSE "load"
    BY <1>2, RowTypes DEF StartUpload, NoReq
  <2>3. \A m \in Manuals : m # 0
    BY DEF Manuals
  <2> QED
    BY <2>1, <2>2, <2>3, RequestLeavesAlone, SettledKeeps
<1>3. ASSUME NEW r \in Requests, NEW on \in Known, NEW kind \in {"reindex", "archive"},
             Start(r, on, kind)
      PROVE  Settled'
  <2>1. /\ UNCHANGED <<settled, question, misled, manual, task>>
        /\ \A s \in Requests \ {r} : req'[s] = req[s]
    BY <1>3, RowTypes DEF Start, tables, history
  <2>2. req'[r].pc = "load"
    BY <1>3, RowTypes DEF Start, NoReq
  <2> QED
    BY <2>1, <2>2, RequestLeavesAlone, SettledKeeps
<1>4. ASSUME NEW r \in Requests, Serve(r) \/ Drop(r) \/ Lose(r) PROVE Settled'
  <2>1. UNCHANGED <<settled, question, misled>>
    BY <1>4 DEF Serve, Load, SavePending, SaveArchived, Put, Insert, Schedule, Drop, Lose, history
  <2> QED
    BY <1>4, <2>1, ServeLeavesAlone, SettledKeeps
<1>5. ASSUME NEW t \in Tasks, Index(t) \/ Stop(t) PROVE Settled'
  <2>1. UNCHANGED <<settled, question, misled>>
    BY <1>5, TaskSteps DEF history
  <2> QED
    BY <1>5, <2>1, IndexLeavesAlone, SettledKeeps
<1>6. ASSUME NEW q \in Questions, Ask(q) PROVE Settled'
  <2>1. PICK version \in {0} \cup {manual[m].version : m \in Known} :
        \E m \in Asked(version) :
          question' = [question EXCEPT ![q] = [pc |-> "search", on |-> m, late |-> m \in settled]]
    BY <1>6 DEF Ask
  <2>2. PICK m \in Asked(version) :
          question' = [question EXCEPT ![q] = [pc |-> "search", on |-> m, late |-> m \in settled]]
    BY <2>1
  <2>3. ~Archived(m)
    BY <2>2 DEF Asked, Newest, Archived
  <2>4. m \notin settled
    BY <2>3 DEF Settled, LeftAlone
  <2>5. DOMAIN question = Questions
    BY DEF Rows, TypeOK
  <2>6. \A p \in Questions : ~question'[p].late
    BY <2>2, <2>4, <2>5 DEF Settled
  <2>7. UNCHANGED <<settled, misled, manual, task, req>> /\ settled \subseteq Manuals
    BY <1>6 DEF Ask, history, tables, Rows, TypeOK
  <2> QED
    BY <1>1, <2>6, <2>7 DEF Settled
<1>7. ASSUME NEW q \in Questions, Search(q) PROVE Settled'
  <2>1. misled' = {}
    BY <1>7 DEF Search, Settled
  <2>2. \A p \in Questions : ~question'[p].late
    BY <1>7 DEF Search, Settled, NoQuestion, Rows, TypeOK
  <2>3. UNCHANGED <<settled, manual, task, req>> /\ settled \subseteq Manuals
    BY <1>7 DEF Search, tables, Rows, TypeOK
  <2> QED
    BY <1>1, <2>1, <2>2, <2>3 DEF Settled
<1>8. ASSUME NEW m \in Manuals, Settle(m) PROVE Settled'
  <2>1. LeftAlone(m)
    BY <1>8 DEF Settle, LeftAlone
  <2>2. UNCHANGED <<question, misled, manual, task, req>> /\ settled' = settled \cup {m}
    BY <1>8 DEF Settle, tables
  <2>3. settled \subseteq Manuals
    BY DEF Rows, TypeOK
  <2> QED
    BY <1>1, <2>1, <2>2, <2>3 DEF Settled
<1>9. UNCHANGED vars => Settled'
  BY <1>1, SettledKeeps DEF vars, tables, history
<1> QED
  BY <1>2, <1>3, <1>4, <1>5, <1>6, <1>7, <1>8, <1>9 DEF Next

(* A manual found archived with nothing under way stays archived, and no   *)
(* question asked afterwards is answered from it.                          *)
THEOREM SettledStayArchived == Spec => []ArchivedForGood
<1>1. Init => Settled
  BY DEF Init, Settled, NoQuestion
<1>2. Settled => ArchivedForGood
  BY DEF Settled, LeftAlone, ArchivedForGood
<1> QED
  BY <1>1, <1>2, NextSettled, RowsHold, PTL DEF Spec
=============================================================================
