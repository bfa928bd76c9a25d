------------------------ MODULE PhotoPipelineProofs ------------------------
(***************************************************************************)
(* What holds of PhotoPipeline for any number of uploads, event ids and    *)
(* retries.                                                                *)
(*                                                                         *)
(* The argument is about ownership: the photo of an upload carries its     *)
(* name, and only the task of this upload changes it, so that what a task  *)
(* read of its photo some awaits ago still holds (Knows).  The verdict is  *)
(* therefore given once, on a pending photo, and everything told of the    *)
(* photo afterwards repeats it.  The count a refusal carries is stale, but *)
(* refused photos stay refused: it never exceeds the current one.          *)
(***************************************************************************)
EXTENDS PhotoPipeline, TLAPS, FiniteSetTheorems

(* In a table without gaps the greatest number is the number of rows.      *)
LEMMA MaxSeqGapless ==
  ASSUME NEW S, NEW l \in Seq(S), \A i \in DOMAIN l : l[i].seq = i
  PROVE  /\ SeqsOf(l) = 1 .. Len(l)
         /\ MaxSeq(l) = Len(l)
         /\ NextSeq(l) = Len(l) + 1
<1>1. Len(l) \in Nat /\ DOMAIN l = 1 .. Len(l)
  OBVIOUS
<1>2. SeqsOf(l) = 1 .. Len(l)
  BY <1>1 DEF SeqsOf
<1>3. {0} \cup SeqsOf(l) = 0 .. Len(l)
  BY <1>1, <1>2
<1>4. MaxSeq(l) = CHOOSE m \in 0 .. Len(l) : \A n \in 0 .. Len(l) : n <= m
  BY <1>3 DEF MaxSeq
<1>5. \E m \in 0 .. Len(l) : \A n \in 0 .. Len(l) : n <= m
  BY <1>1
<1>6. MaxSeq(l) \in 0 .. Len(l) /\ \A n \in 0 .. Len(l) : n <= MaxSeq(l)
  BY <1>4, <1>5
<1>7. MaxSeq(l) = Len(l)
  BY <1>1, <1>6
<1> QED
  BY <1>2, <1>7 DEF NextSeq

TaskLabels == {"fetch", "judge", "accept", "seq", "append", "count", "refuse", "tell"}

(* What the request r with the record q knows.                             *)
Knows(q, r) ==
  /\ q.pc \in {"idle", "find", "put", "save"} => ~Exists(r)
  /\ q.pc \in {"find", "put", "save", "announce", "schedule"} =>
       q.id \in EventIds /\ q.result = "none"
  /\ q.pc \in {"save", "announce", "schedule"} => r \in objects
  /\ q.pc \in {"announce", "schedule"} =>
       Exists(r) /\ photos[r].status = "pending" /\ photos[r].id = q.id
  /\ q.pc \in TaskLabels \cup {"schedule"} => <<"captured", r>> \in heard
  /\ q.pc \in TaskLabels =>
       q.photo = r /\ q.result = "accepted" /\ Exists(r) /\ photos[r].id = q.id
  /\ q.pc \in {"fetch", "judge", "accept", "count", "refuse"} => photos[r].status = "pending"
  /\ q.pc \in {"seq", "append"} => photos[r].status = "accepted" /\ PhotoEvents(r) = {}
  /\ q.pc = "append" => q.seq \in 1 .. Len(log) + 1
  /\ q.pc = "refuse" => q.prior <= Cardinality(RefusedOf(photos[r].step))
  /\ q.pc = "tell" =>
       photos[r].status # "pending" /\ (photos[r].status = "accepted" => PhotoEvents(r) # {})
  /\ (q.pc = "done" /\ Exists(r) /\ photos[r].status = "accepted") => PhotoEvents(r) # {}
  /\ q.result = "accepted" =>
       q.photo \in Reqs /\ Exists(q.photo) /\ photos[q.photo].id = q.id

Locals == \A r \in Reqs : Knows(req[r], r)

Gapless == \A i \in DOMAIN log : log[i].seq = i

(* An event id has at most one photo.                                      *)
OnePhoto ==
  \A p, q \in Reqs :
    (Exists(p) /\ Exists(q) /\ photos[p].id = photos[q].id) => p = q

IInv ==
  /\ TypeOK
  /\ Gapless
  /\ OnePhoto
  /\ ImageStored /\ OpenedByAccepted /\ HeardIsTrue /\ RetriesEarned
  /\ Locals

LEMMA TypeFacts ==
  ASSUME IInv, NEW r \in Reqs
  PROVE  /\ req \in [Reqs -> Request] /\ req[r] \in Request /\ Knows(req[r], r)
         /\ photos \in [Reqs -> {NoRow} \cup PhotoRow]
         /\ Exists(r) => photos[r] \in PhotoRow
         /\ log \in Seq(EventRow) /\ objects \subseteq Reqs
  BY DEF IInv, TypeOK, Locals, Exists

LEMMA Moves ==
  ASSUME IInv, NEW r \in Reqs, NEW q \in Request, req' = [req EXCEPT ![r] = q]
  PROVE  /\ req' \in [Reqs -> Request]
         /\ req'[r] = q
         /\ \A p \in Reqs : p # r => req'[p] = req[p]
  BY DEF IInv, TypeOK

(* What a step of r may do to the tables.                                  *)
Grows(r) ==
  /\ \A p \in Reqs : p # r => photos'[p] = photos[p]
  /\ Exists(r) => Exists(r)' /\ photos'[r].id = photos[r].id /\ photos'[r].step = photos[r].step
  /\ (Exists(r) /\ photos[r].status \in Refused) => photos'[r].status \in Refused
  /\ objects \subseteq objects'
  /\ heard \subseteq heard'
  /\ log' = log \/ \E e \in EventRow : e.photo = r /\ log' = Append(log, e)

(* Refused photos stay refused.                                            *)
LEMMA RefusedGrow ==
  ASSUME IInv, NEW r \in Reqs, Grows(r), NEW s
  PROVE  /\ RefusedOf(s) \subseteq RefusedOf(s)'
         /\ Cardinality(RefusedOf(s)) \in Nat
         /\ Cardinality(RefusedOf(s)') \in Nat
         /\ Cardinality(RefusedOf(s)) <= Cardinality(RefusedOf(s)')
<1>1. RefusedOf(s) \subseteq RefusedOf(s)'
  BY DEF RefusedOf, Grows, Exists
<1>2. RefusedOf(s)' \subseteq Reqs
  BY DEF RefusedOf
<1>3. IsFiniteSet(RefusedOf(s)')
  BY <1>2, FS_Subset, UploadsAssumption
<1>4. IsFiniteSet(RefusedOf(s)) /\ Cardinality(RefusedOf(s)) <= Cardinality(RefusedOf(s)')
  BY <1>1, <1>3, FS_Subset
<1> QED
  BY <1>1, <1>3, <1>4, FS_CardinalityType

(* A row of r adds nothing to the events of another photo.                 *)
LEMMA EventsGrow ==
  ASSUME IInv, NEW r \in Reqs, Grows(r)
  PROVE  /\ Len(log) \in Nat /\ Len(log') \in Nat /\ Len(log) <= Len(log')
         /\ PhotoEvents(r) \subseteq PhotoEvents(r)'
         /\ \A p \in Reqs : p # r => PhotoEvents(p)' = PhotoEvents(p)
<1>1. log \in Seq(EventRow)
  BY DEF IInv, TypeOK
<1>2. CASE log' = log
  BY <1>1, <1>2 DEF PhotoEvents
<1>3. ASSUME NEW e \in EventRow, e.photo = r, log' = Append(log, e)
      PROVE  /\ Len(log) \in Nat /\ Len(log') \in Nat /\ Len(log) <= Len(log')
             /\ PhotoEvents(r) \subseteq PhotoEvents(r)'
             /\ \A p \in Reqs : p # r => PhotoEvents(p)' = PhotoEvents(p)
  <2>1. /\ Len(log) \in Nat /\ Len(log') = Len(log) + 1
        /\ DOMAIN log = 1 .. Len(log) /\ DOMAIN log' = 1 .. Len(log) + 1
        /\ log'[Len(log) + 1] = e
        /\ \A i \in 1 .. Len(log) : log'[i] = log[i]
    BY <1>1, <1>3
  <2> QED
    BY <1>3, <2>1 DEF PhotoEvents
<1> QED
  BY <1>2, <1>3 DEF Grows

(* What the other requests know stays true.                                *)
LEMMA OthersKnow ==
  ASSUME IInv, NEW r \in Reqs, Grows(r), NEW p \in Reqs, p # r, req'[p] = req[p]
  PROVE  Knows(req[p], p)'
<1>1. Knows(req[p], p) /\ req[p] \in Request
  BY TypeFacts
<1>2. photos'[p] = photos[p] /\ Exists(p)' = Exists(p)
  BY DEF Grows, Exists
<1>3. PhotoEvents(p)' = PhotoEvents(p) /\ Len(log) \in Nat /\ Len(log') \in Nat
      /\ Len(log) <= Len(log')
  BY EventsGrow
<1>4. req[p].seq \in 1 .. Len(log) + 1 => req[p].seq \in 1 .. Len(log') + 1
  BY <1>3
<1>5. req[p].prior \in Nat
  BY <1>1 DEF Request
<1>6. \A n : req[p].prior <= Cardinality(RefusedOf(n)) =>
               req[p].prior <= Cardinality(RefusedOf(n)')
  BY <1>5, RefusedGrow
<1>7. \A o \in Reqs : Exists(o) => Exists(o)' /\ photos'[o].id = photos[o].id
  BY DEF Grows, Exists
<1>8. objects \subseteq objects' /\ heard \subseteq heard'
  BY DEF Grows
<1> QED
  BY <1>1, <1>2, <1>3, <1>4, <1>6, <1>7, <1>8 DEF Knows

LEMMA LocalsKept ==
  ASSUME IInv, NEW r \in Reqs, Grows(r), Knows(req[r], r)',
         \A p \in Reqs : p # r => req'[p] = req[p]
  PROVE  Locals'
  BY OthersKnow DEF Locals

(* A request moves on and the tables stay.                                 *)
LEMMA MoveIInv ==
  ASSUME IInv, NEW r \in Reqs, NEW q \in Request, req' = [req EXCEPT ![r] = q],
         UNCHANGED <<photos, objects, log, heard>>, Knows(req[r], r)'
  PROVE  IInv'
<1>1. Grows(r)
  BY DEF Grows, Exists
<1>2. Locals'
  BY <1>1, Moves, LocalsKept
<1>3. TypeOK'
  BY Moves DEF IInv, TypeOK, Exists
<1>4. Gapless' /\ OnePhoto'
  BY DEF IInv, Gapless, OnePhoto, Exists
<1>5. ImageStored' /\ HeardIsTrue'
  BY DEF IInv, ImageStored, HeardIsTrue, Exists, PhotoEvents
<1>6. OpenedByAccepted'
  BY DEF IInv, OpenedByAccepted, Exists, PhotoEvents
<1>7. RetriesEarned'
  BY DEF IInv, RetriesEarned, RefusedOf, Exists
<1> QED
  BY <1>2, <1>3, <1>4, <1>5, <1>6, <1>7 DEF IInv

(* What a request knows when the tables stay.                              *)
LEMMA SameTables ==
  ASSUME UNCHANGED <<photos, objects, log, heard>>
  PROVE  /\ \A p : Exists(p)' = Exists(p) /\ PhotoEvents(p)' = PhotoEvents(p)
         /\ \A s : RefusedOf(s)' = RefusedOf(s)
  BY DEF Exists, PhotoEvents, RefusedOf

(* A label at which a request knows no more than at the one it leaves.     *)
LEMMA GotoIInv ==
  ASSUME IInv, NEW r \in Reqs, NEW l \in Labels, Goto(r, l),
         UNCHANGED <<photos, objects, log, heard>>,
         Knows([req[r] EXCEPT !.pc = l], r)
  PROVE  IInv'
<1> DEFINE q == [req[r] EXCEPT !.pc = l]
<1>1. req \in [Reqs -> Request] /\ req[r] \in Request
  BY TypeFacts
<1>2. q \in Request /\ req' = [req EXCEPT ![r] = q]
  BY <1>1 DEF Request, Goto
<1>3. req'[r] = q /\ Knows(q, r)
  BY <1>2, Moves
<1> HIDE DEF q
<1>4. Knows(req[r], r)'
  BY <1>3, SameTables DEF Knows
<1> QED
  BY <1>2, <1>4, MoveIInv

(* A request is stopped: its answer stands, what it knew is lost.          *)
LEMMA StopIInv ==
  ASSUME IInv, NEW r \in Reqs, Stop(r), UNCHANGED <<photos, objects, log, heard>>
  PROVE  IInv'
<1> DEFINE result == IF req[r].result = "none" THEN "lost" ELSE req[r].result
           q == [req[r] EXCEPT !.pc = "lost", !.result = result]
<1>1. req \in [Reqs -> Request] /\ req[r] \in Request /\ Knows(req[r], r)
  BY TypeFacts
<1>2. result \in Results /\ (result = "accepted" => req[r].result = "accepted")
  BY <1>1 DEF Request, Results
<1>3. "lost" \in Labels
  BY DEF Labels
<1>4. req' = [req EXCEPT ![r] = q]
  BY <1>1 DEF Stop
<1> HIDE DEF result
<1>5. q \in Request
  BY <1>1, <1>2, <1>3 DEF Request
<1>6. q.pc = "lost" /\ q.result = result /\ q.photo = req[r].photo /\ q.id = req[r].id
  BY <1>1 DEF Request
<1> HIDE DEF q
<1>7. req'[r] = q
  BY <1>4, <1>5, Moves
<1>8. Knows(req[r], r)'
  BY <1>1, <1>2, <1>6, <1>7, SameTables DEF Knows, TaskLabels
<1> QED
  BY <1>4, <1>5, <1>8, MoveIInv

LEMMA UploadIInv ==
  ASSUME IInv, NEW r \in Reqs, Upload(r) PROVE IInv'
<1>1. /\ req \in [Reqs -> Request] /\ ~Exists(r)
      /\ UNCHANGED <<photos, objects, log, heard>>
  BY TypeFacts DEF Upload, At, Knows
<1>2. PICK id \in EventIds, found \in BOOLEAN :
        req' = [req EXCEPT ![r] =
                  [Idle EXCEPT !.id = id, !.step = StepOf(id),
                               !.pc = IF found THEN "find" ELSE "done",
                               !.result = IF found THEN "none" ELSE "not found"]]
  BY DEF Upload
<1> DEFINE q == [Idle EXCEPT !.id = id, !.step = StepOf(id),
                             !.pc = IF found THEN "find" ELSE "done",
                             !.result = IF found THEN "none" ELSE "not found"]
<1>3. q \in Request
  BY StepAssumption DEF Idle, Request, Labels, Results
<1>4. /\ q.pc = IF found THEN "find" ELSE "done"
      /\ q.id = id /\ q.result = IF found THEN "none" ELSE "not found"
  BY DEF Idle
<1> HIDE DEF q
<1>5. req' = [req EXCEPT ![r] = q]
  BY <1>2 DEF q
<1>6. req'[r] = q
  BY <1>3, <1>5, Moves
<1>7. Knows(req[r], r)'
  BY <1>1, <1>4, <1>6, SameTables DEF Knows, TaskLabels
<1> QED
  BY <1>1, <1>3, <1>5, <1>7, MoveIInv

LEMMA FindIInv ==
  ASSUME IInv, NEW r \in Reqs, Find(r) PROVE IInv'
<1>1. /\ req \in [Reqs -> Request] /\ req[r] \in Request
      /\ UNCHANGED <<photos, objects, log, heard>>
      /\ Knows(req[r], r) /\ req[r].pc = "find"
  BY TypeFacts DEF Find, At
<1>2. ~Exists(r) /\ req[r].id \in EventIds /\ req[r].result = "none"
  BY <1>1 DEF Knows
<1>3. CASE Goto(r, "put")
  <2>1. "put" \in Labels
    BY DEF Labels
  <2> DEFINE q == [req[r] EXCEPT !.pc = "put"]
  <2>2. q.pc = "put" /\ q.id = req[r].id /\ q.result = "none"
    BY <1>1, <1>2 DEF Request
  <2> HIDE DEF q
  <2>3. Knows(q, r)
    BY <1>2, <2>2 DEF Knows, TaskLabels
  <2> QED
    BY <1>1, <1>3, <2>1, <2>3, GotoIInv DEF q
<1>4. ASSUME NEW result \in Results, NEW p \in Reqs \cup {NoPhoto},
             req' = [req EXCEPT ![r].pc = "done", ![r].photo = p, ![r].result = result],
             result = "accepted" => p \in Reqs /\ Exists(p) /\ photos[p].id = req[r].id
      PROVE  IInv'
  <2> DEFINE q == [req[r] EXCEPT !.pc = "done", !.photo = p, !.result = result]
  <2>1. "done" \in Labels
    BY DEF Labels
  <2>2. q \in Request
    BY <1>1, <2>1 DEF Request
  <2>3. req' = [req EXCEPT ![r] = q]
    BY <1>1, <1>4
  <2>4. q.pc = "done" /\ q.photo = p /\ q.result = result /\ q.id = req[r].id
    BY <1>1 DEF Request
  <2> HIDE DEF q
  <2>5. req'[r] = q
    BY <2>2, <2>3, Moves
  <2>6. Knows(req[r], r)'
    BY <1>1, <1>2, <1>4, <2>4, <2>5, SameTables DEF Knows, TaskLabels
  <2> QED
    BY <1>1, <2>2, <2>3, <2>6, MoveIInv
<1>5. CASE Finish(r, "invalid")
  <2>1. req[r].photo \in Reqs \cup {NoPhoto} /\ "invalid" \in Results
    BY <1>1 DEF Request, Results
  <2>2. req' = [req EXCEPT ![r].pc = "done", ![r].photo = req[r].photo, ![r].result = "invalid"]
    BY <1>1, <1>5 DEF Finish, Request
  <2> QED
    BY <1>4, <2>1, <2>2
<1>6. ASSUME NEW p \in PhotosOf(req[r].id),
             req' = [req EXCEPT ![r].pc = "done", ![r].photo = p, ![r].result = "accepted"]
      PROVE  IInv'
  <2>1. p \in Reqs /\ Exists(p) /\ photos[p].id = req[r].id
    BY DEF PhotosOf
  <2>2. "accepted" \in Results
    BY DEF Results
  <2> QED
    BY <1>4, <1>6, <2>1, <2>2
<1> QED
  BY <1>3, <1>5, <1>6 DEF Find

(* The image is stored before the row.                                     *)
LEMMA PutIInv ==
  ASSUME IInv, NEW r \in Reqs, Put(r) PROVE IInv'
<1> DEFINE q == [req[r] EXCEPT !.pc = "save"]
<1>1. /\ req \in [Reqs -> Request] /\ req[r] \in Request
      /\ UNCHANGED <<photos, log, heard>> /\ objects' = objects \cup {r}
      /\ Knows(req[r], r) /\ req[r].pc = "put" /\ Goto(r, "save")
  BY TypeFacts DEF Put, At
<1>2. "save" \in Labels
  BY DEF Labels
<1>3. q \in Request /\ req' = [req EXCEPT ![r] = q]
  BY <1>1, <1>2 DEF Request, Goto
<1>4. q.pc = "save" /\ q.id = req[r].id /\ q.result = req[r].result
  BY <1>1 DEF Request
<1> HIDE DEF q
<1>5. req' \in [Reqs -> Request] /\ req'[r] = q /\ \A p \in Reqs : p # r => req'[p] = req[p]
  BY <1>3, Moves
<1>6. Knows(req[r], r)'
  BY <1>1, <1>4, <1>5 DEF Knows, TaskLabels, Exists
<1>7. Grows(r)
  BY <1>1 DEF Grows, Exists
<1>8. Locals'
  BY <1>5, <1>6, <1>7, LocalsKept
<1>9. TypeOK'
  BY <1>1, <1>5 DEF IInv, TypeOK, Exists
<1>10. Gapless' /\ OnePhoto'
  BY <1>1 DEF IInv, Gapless, OnePhoto, Exists
<1>11. ImageStored' /\ HeardIsTrue'
  BY <1>1 DEF IInv, ImageStored, HeardIsTrue, Exists, PhotoEvents
<1>12. OpenedByAccepted'
  BY <1>1 DEF IInv, OpenedByAccepted, Exists, PhotoEvents
<1>13. RetriesEarned'
  BY <1>1 DEF IInv, RetriesEarned, RefusedOf, Exists
<1> QED
  BY <1>8, <1>9, <1>10, <1>11, <1>12, <1>13 DEF IInv

(* The row of r changes, or appears, while the other tables stay.  What    *)
(* was told of r, and its events, are about a row that was decided.        *)
LEMMA RowIInv ==
  ASSUME IInv, NEW r \in Reqs, NEW q \in Request, req' = [req EXCEPT ![r] = q],
         NEW row \in PhotoRow, photos' = [photos EXCEPT ![r] = row],
         UNCHANGED <<objects, log, heard>>,
         Exists(r) => photos[r].status = "pending" /\ row.id = photos[r].id
                      /\ row.step = photos[r].step,
         ~Exists(r) => PhotosOf(row.id) = {} /\ r \in objects,
         row.status = "rejected" => row.retries \in 1 .. MaxRetries,
         row.status = "escalated" => row.retries > MaxRetries,
         row.status \in Refused =>
           \A s : s = row.step => row.retries <= Cardinality(RefusedOf(s)'),
         Knows(req[r], r)'
  PROVE  IInv'
<1>1. /\ req' \in [Reqs -> Request] /\ req'[r] = q
      /\ \A p \in Reqs : p # r => req'[p] = req[p]
  BY Moves
<1>2. /\ photos \in [Reqs -> {NoRow} \cup PhotoRow] /\ photos'[r] = row
      /\ \A p \in Reqs : p # r => photos'[p] = photos[p]
  BY DEF IInv, TypeOK
<1>3. row # NoRow /\ Exists(r)'
  BY <1>2 DEF PhotoRow, NoRow, Statuses, Refused, Exists
<1>4. Grows(r)
  BY <1>2, <1>3 DEF Grows, Refused
<1>5. Locals'
  BY <1>1, <1>4, LocalsKept
<1>6. \A p \in Reqs : p # r => Exists(p)' = Exists(p)
  BY <1>2 DEF Exists
<1>7. TypeOK'
  BY <1>1, <1>2, <1>6 DEF IInv, TypeOK
<1>8. Gapless'
  BY DEF IInv, Gapless
<1>9. OnePhoto'
  BY <1>2, <1>3, <1>6 DEF IInv, OnePhoto, PhotosOf
<1>10. ImageStored'
  BY <1>6 DEF IInv, ImageStored
<1>11. \A i \in DOMAIN log : log[i].photo # r
  BY DEF IInv, OpenedByAccepted
<1>12. \A p \in Reqs : PhotoEvents(p)' = PhotoEvents(p)
  BY DEF PhotoEvents
<1>13. OpenedByAccepted'
  <2>1. log \in Seq(EventRow)
    BY DEF IInv, TypeOK
  <2>2. \A i \in DOMAIN log : log[i] \in EventRow
    BY <2>1
  <2>3. \A i \in DOMAIN log : log[i].photo \in Reqs
    BY <2>2 DEF EventRow
  <2> QED
    BY <1>2, <1>6, <1>11, <1>12, <2>3 DEF IInv, OpenedByAccepted
<1>14. HeardIsTrue'
  <2>1. \A h \in heard : h[2] = r => h[1] = "captured"
    BY DEF IInv, HeardIsTrue, TypeOK
  <2>2. \A h \in heard : h[2] \in Reqs
    BY DEF IInv, TypeOK
  <2> QED
    BY <1>2, <1>3, <1>6, <1>12, <2>1, <2>2 DEF IInv, HeardIsTrue
<1>15. RetriesEarned'
  <2> SUFFICES ASSUME NEW p \in Reqs, Exists(p)', photos'[p].status \in Refused
               PROVE  photos'[p].retries <= Cardinality(RefusedOf(photos[p].step)')
    BY DEF RetriesEarned
  <2>1. CASE p = r
    BY <1>2, <2>1
  <2>2. CASE p # r
    <3>1. photos'[p] = photos[p] /\ Exists(p) /\ photos[p] \in PhotoRow
      BY <1>2, <1>6, <2>2 DEF Exists
    <3>2. photos[p].retries \in Nat
      BY <3>1 DEF PhotoRow
    <3>3. photos[p].retries <= Cardinality(RefusedOf(photos[p].step))
      BY <3>1 DEF IInv, RetriesEarned
    <3>4. \A n : /\ Cardinality(RefusedOf(n)) \in Nat /\ Cardinality(RefusedOf(n)') \in Nat
                 /\ Cardinality(RefusedOf(n)) <= Cardinality(RefusedOf(n)')
      BY <1>4, RefusedGrow
    <3> QED
      BY <3>1, <3>2, <3>3, <3>4
  <2> QED
    BY <2>1, <2>2
<1> QED
  BY <1>5, <1>7, <1>8, <1>9, <1>10, <1>13, <1>14, <1>15 DEF IInv

LEMMA SaveIInv ==
  ASSUME IInv, NEW r \in Reqs, Save(r) PROVE IInv'
<1>1. /\ req \in [Reqs -> Request] /\ req[r] \in Request
      /\ UNCHANGED <<objects, log, heard>>
      /\ Knows(req[r], r) /\ req[r].pc = "save"
  BY TypeFacts DEF Save, At
<1>2. ~Exists(r) /\ r \in objects /\ req[r].id \in EventIds /\ req[r].result = "none"
  BY <1>1 DEF Knows
<1>3. CASE PhotosOf(req[r].id) = {}
  <2> DEFINE q == [req[r] EXCEPT !.pc = "announce"]
             row == NewPhoto(req[r])
  <2>1. "announce" \in Labels
    BY DEF Labels
  <2>2. q \in Request
    BY <1>1, <2>1 DEF Request
  <2>3. q.pc = "announce" /\ q.id = req[r].id /\ q.result = "none"
    BY <1>1, <1>2 DEF Request
  <2>4. /\ req' = [req EXCEPT ![r] = q]
        /\ photos' = [photos EXCEPT ![r] = row]
    BY <1>1, <1>3 DEF Save, Goto
  <2>5. row \in PhotoRow /\ row.status = "pending" /\ row.id = req[r].id
    BY <1>1, <1>2 DEF NewPhoto, PhotoRow, Statuses, Request
  <2> HIDE DEF q, row
  <2>6. req'[r] = q
    BY <2>2, <2>4, Moves
  <2>7. photos'[r] = row /\ Exists(r)'
    BY <2>4, <2>5, TypeFacts DEF Exists, PhotoRow, NoRow, Statuses, Refused
  <2>8. Knows(req[r], r)'
    BY <1>1, <1>2, <2>3, <2>5, <2>6, <2>7 DEF Knows, TaskLabels
  <2>9. row.status \notin Refused
    BY <2>5 DEF Refused
  <2> QED
    BY <1>1, <1>2, <1>3, <2>2, <2>4, <2>5, <2>8, <2>9, RowIInv
<1>4. CASE Stop(r) /\ UNCHANGED photos
  BY <1>1, <1>4, StopIInv
<1> QED
  BY <1>3, <1>4 DEF Save

LEMMA AcceptIInv ==
  ASSUME IInv, NEW r \in Reqs, Accept(r) PROVE IInv'
<1>1. /\ req \in [Reqs -> Request] /\ req[r] \in Request
      /\ UNCHANGED <<objects, log, heard>>
      /\ Knows(req[r], r) /\ req[r].pc = "accept"
  BY TypeFacts DEF Accept, At
<1>2. /\ req[r].photo = r /\ Exists(r) /\ photos[r].status = "pending"
      /\ req[r].result = "accepted" /\ photos[r].id = req[r].id
      /\ <<"captured", r>> \in heard
  BY <1>1 DEF Knows, TaskLabels
<1> DEFINE q == [req[r] EXCEPT !.pc = "seq"]
           row == [photos[r] EXCEPT !.status = "accepted"]
<1>3. "seq" \in Labels
  BY DEF Labels
<1>4. q \in Request
  BY <1>1, <1>3 DEF Request
<1>5. q.pc = "seq" /\ q.id = req[r].id /\ q.result = "accepted" /\ q.photo = r
  BY <1>1, <1>2 DEF Request
<1>6. photos \in [Reqs -> {NoRow} \cup PhotoRow] /\ photos[r] \in PhotoRow
  BY <1>2, TypeFacts
<1>7. req' = [req EXCEPT ![r] = q] /\ photos' = [photos EXCEPT ![r] = row]
  BY <1>1, <1>2, <1>6 DEF Accept, Goto
<1>8. /\ row \in PhotoRow /\ row.status = "accepted"
      /\ row.id = photos[r].id /\ row.step = photos[r].step
  BY <1>6 DEF PhotoRow, Statuses
<1> HIDE DEF q, row
<1>9. req'[r] = q
  BY <1>4, <1>7, Moves
<1>10. photos'[r] = row /\ Exists(r)'
  BY <1>6, <1>7, <1>8 DEF Exists, PhotoRow, NoRow, Statuses, Refused
<1>11. PhotoEvents(r)' = {}
  BY <1>1, <1>2 DEF PhotoEvents, IInv, OpenedByAccepted
<1>12. Knows(req[r], r)'
  BY <1>1, <1>2, <1>5, <1>8, <1>9, <1>10, <1>11 DEF Knows, TaskLabels
<1>13. row.status \notin Refused
  BY <1>8 DEF Refused
<1> QED
  BY <1>1, <1>2, <1>4, <1>7, <1>8, <1>12, <1>13, RowIInv

(* The refusal counts its own photo besides those it counted before.       *)
LEMMA RefuseIInv ==
  ASSUME IInv, NEW r \in Reqs, Refuse(r) PROVE IInv'
<1>1. /\ req \in [Reqs -> Request] /\ req[r] \in Request
      /\ UNCHANGED <<objects, log, heard>>
      /\ Knows(req[r], r) /\ req[r].pc = "refuse"
  BY TypeFacts DEF Refuse, At
<1>2. /\ req[r].photo = r /\ Exists(r) /\ photos[r].status = "pending"
      /\ req[r].result = "accepted" /\ photos[r].id = req[r].id
      /\ <<"captured", r>> \in heard
      /\ req[r].prior <= Cardinality(RefusedOf(photos[r].step))
  BY <1>1 DEF Knows, TaskLabels
<1> DEFINE n == req[r].prior + 1
           v == Verdict(n)
           q == [req[r] EXCEPT !.pc = "tell"]
           row == [photos[r] EXCEPT !.status = v, !.retries = n]
           step == photos[r].step
<1>3. req[r].prior \in Nat /\ n \in Nat /\ n >= 1
  BY <1>1 DEF Request
<1>4. v \in Refused /\ (v = "rejected" => n \in 1 .. MaxRetries)
      /\ (v = "escalated" => n > MaxRetries)
  BY <1>3, RetriesAssumption DEF Verdict, Refused
<1>5. "tell" \in Labels
  BY DEF Labels
<1>6. q \in Request
  BY <1>1, <1>5 DEF Request
<1>7. q.pc = "tell" /\ q.id = req[r].id /\ q.result = "accepted" /\ q.photo = r
  BY <1>1, <1>2 DEF Request
<1>8. photos \in [Reqs -> {NoRow} \cup PhotoRow] /\ photos[r] \in PhotoRow
  BY <1>2, TypeFacts
<1>9. req' = [req EXCEPT ![r] = q] /\ photos' = [photos EXCEPT ![r] = row]
  BY <1>1, <1>2, <1>8 DEF Refuse, Goto
<1> HIDE DEF n, v
<1>10. /\ row \in PhotoRow /\ row.status = v /\ row.retries = n
       /\ row.id = photos[r].id /\ row.step = step
  BY <1>3, <1>4, <1>8 DEF PhotoRow, Statuses
<1> HIDE DEF q, row
<1>11. req'[r] = q
  BY <1>6, <1>9, Moves
<1>12. /\ photos'[r] = row /\ \A p \in Reqs : p # r => photos'[p] = photos[p]
       /\ Exists(r)' /\ row # NoRow
  BY <1>4, <1>8, <1>9, <1>10 DEF Exists, PhotoRow, NoRow, Statuses, Refused
<1>13. \A s : s = step => RefusedOf(s)' = RefusedOf(s) \cup {r} /\ r \notin RefusedOf(s)
  <2>1. r \notin RefusedOf(step)
    BY <1>2 DEF RefusedOf, Refused
  <2>2. \A s : s = step => \A p \in Reqs : p \in RefusedOf(s)' <=> p \in RefusedOf(s) \cup {r}
    BY <1>4, <1>10, <1>12 DEF RefusedOf, Exists
  <2>3. \A s : RefusedOf(s)' \subseteq Reqs /\ RefusedOf(s) \cup {r} \subseteq Reqs
    BY DEF RefusedOf
  <2> QED
    BY <2>1, <2>2, <2>3
<1>14. IsFiniteSet(RefusedOf(step)) /\ Cardinality(RefusedOf(step)) \in Nat
  <2>1. RefusedOf(step) \subseteq Reqs
    BY DEF RefusedOf
  <2> QED
    BY <2>1, FS_Subset, FS_CardinalityType, UploadsAssumption
<1>15. \A s : s = step => n <= Cardinality(RefusedOf(s)')
  <2>1. Cardinality(RefusedOf(step) \cup {r}) = Cardinality(RefusedOf(step)) + 1
    BY <1>13, <1>14, FS_AddElement
  <2>2. n <= Cardinality(RefusedOf(step)) + 1
    BY <1>2, <1>3, <1>14 DEF n
  <2> QED
    BY <1>13, <2>1, <2>2
<1>16. \A s : s = row.step => row.retries <= Cardinality(RefusedOf(s)')
  BY <1>10, <1>15
<1>17. Knows(req[r], r)'
  BY <1>1, <1>2, <1>4, <1>7, <1>10, <1>11, <1>12 DEF Knows, TaskLabels, Refused
<1> QED
  BY <1>1, <1>2, <1>4, <1>6, <1>9, <1>10, <1>16, <1>17, RowIInv

(* A notice is published, about a photo whose row bears it out.            *)
LEMMA NoticeIInv ==
  ASSUME IInv, NEW r \in Reqs, NEW q \in Request, req' = [req EXCEPT ![r] = q],
         UNCHANGED <<photos, objects, log>>,
         NEW t \in {"captured", "accepted", "rejected", "escalated"},
         heard' = heard \cup {<<t, r>>},
         Exists(r),
         t # "captured" => photos[r].status = t /\ <<"captured", r>> \in heard,
         t = "accepted" => PhotoEvents(r) # {},
         Knows(req[r], r)'
  PROVE  IInv'
<1>1. /\ req' \in [Reqs -> Request] /\ \A p \in Reqs : p # r => req'[p] = req[p]
  BY Moves
<1>2. Grows(r)
  BY DEF Grows, Exists
<1>3. Locals'
  BY <1>1, <1>2, LocalsKept
<1>4. TypeOK'
  BY <1>1 DEF IInv, TypeOK, Exists
<1>5. Gapless' /\ OnePhoto' /\ ImageStored'
  BY DEF IInv, Gapless, OnePhoto, ImageStored, Exists
<1>6. OpenedByAccepted'
  BY DEF IInv, OpenedByAccepted, Exists, PhotoEvents
<1>7. HeardIsTrue'
  <2>1. \A p : Exists(p)' = Exists(p) /\ PhotoEvents(p)' = PhotoEvents(p)
    BY DEF Exists, PhotoEvents
  <2> SUFFICES ASSUME NEW h \in heard'
               PROVE  /\ Exists(h[2])
                      /\ h[1] # "captured" =>
                           photos[h[2]].status = h[1] /\ <<"captured", h[2]>> \in heard'
                      /\ h[1] = "accepted" => PhotoEvents(h[2]) # {}
    BY <2>1 DEF HeardIsTrue
  <2>2. CASE h \in heard
    BY <2>2 DEF IInv, HeardIsTrue
  <2>3. CASE h = <<t, r>>
    BY <2>3
  <2> QED
    BY <2>2, <2>3
<1>8. RetriesEarned'
  BY DEF IInv, RetriesEarned, RefusedOf, Exists
<1> QED
  BY <1>3, <1>4, <1>5, <1>6, <1>7, <1>8 DEF IInv

LEMMA AnnounceIInv ==
  ASSUME IInv, NEW r \in Reqs, Announce(r) PROVE IInv'
<1>1. /\ req \in [Reqs -> Request] /\ req[r] \in Request
      /\ UNCHANGED <<photos, objects, log>>
      /\ Knows(req[r], r) /\ req[r].pc = "announce"
      /\ heard' = heard \cup {<<"captured", r>>}
  BY TypeFacts DEF Announce, At
<1>2. /\ Exists(r) /\ photos[r].status = "pending" /\ photos[r].id = req[r].id
      /\ req[r].id \in EventIds /\ req[r].result = "none" /\ r \in objects
  BY <1>1 DEF Knows
<1> DEFINE q == [req[r] EXCEPT !.pc = "schedule"]
<1>3. "schedule" \in Labels
  BY DEF Labels
<1>4. q \in Request
  BY <1>1, <1>3 DEF Request
<1>5. q.pc = "schedule" /\ q.id = req[r].id /\ q.result = "none"
  BY <1>1, <1>2 DEF Request
<1>6. req' = [req EXCEPT ![r] = q]
  BY <1>1 DEF Announce, Goto
<1> HIDE DEF q
<1>7. req'[r] = q
  BY <1>4, <1>6, Moves
<1>8. Knows(req[r], r)'
  BY <1>1, <1>2, <1>5, <1>7 DEF Knows, TaskLabels, Exists
<1> QED
  BY <1>1, <1>2, <1>4, <1>6, <1>8, NoticeIInv

LEMMA TellIInv ==
  ASSUME IInv, NEW r \in Reqs, Tell(r) PROVE IInv'
<1> DEFINE q == [req[r] EXCEPT !.pc = "done"]
           t == photos[r].status
<1>1. /\ req \in [Reqs -> Request] /\ req[r] \in Request
      /\ UNCHANGED <<photos, objects, log>>
      /\ Knows(req[r], r) /\ req[r].pc = "tell"
  BY TypeFacts DEF Tell, At
<1>2. /\ req[r].photo = r /\ req[r].result = "accepted"
      /\ Exists(r) /\ photos[r].id = req[r].id /\ <<"captured", r>> \in heard
      /\ t # "pending" /\ (t = "accepted" => PhotoEvents(r) # {})
  BY <1>1 DEF Knows, TaskLabels
<1>3. t \in {"accepted", "rejected", "escalated"}
  BY <1>2, TypeFacts DEF PhotoRow, Statuses, Refused
<1>4. heard' = heard \cup {<<t, r>>} /\ req' = [req EXCEPT ![r] = q]
  BY <1>1, <1>2 DEF Tell, Goto
<1>5. "done" \in Labels
  BY DEF Labels
<1>6. q \in Request
  BY <1>1, <1>5 DEF Request
<1>7. q.pc = "done" /\ q.id = req[r].id /\ q.result = "accepted" /\ q.photo = r
  BY <1>1, <1>2 DEF Request
<1> HIDE DEF q
<1>8. req'[r] = q
  BY <1>4, <1>6, Moves
<1>9. /\ \A p : Exists(p)' = Exists(p) /\ PhotoEvents(p)' = PhotoEvents(p)
      /\ photos' = photos
  BY <1>1 DEF Exists, PhotoEvents
<1>10. Knows(req[r], r)'
  BY <1>1, <1>2, <1>7, <1>8, <1>9 DEF Knows, TaskLabels
<1> HIDE DEF t
<1>11. t = photos[r].status
  BY DEF t
<1> QED
  BY <1>1, <1>2, <1>3, <1>4, <1>6, <1>10, <1>11, NoticeIInv

LEMMA ScheduleIInv ==
  ASSUME IInv, NEW r \in Reqs, Schedule(r) PROVE IInv'
<1>1. /\ req \in [Reqs -> Request] /\ req[r] \in Request
      /\ UNCHANGED <<photos, objects, log, heard>>
      /\ Knows(req[r], r) /\ req[r].pc = "schedule"
  BY TypeFacts DEF Schedule, At
<1>2. /\ Exists(r) /\ photos[r].status = "pending" /\ photos[r].id = req[r].id
      /\ <<"captured", r>> \in heard
  BY <1>1 DEF Knows
<1> DEFINE q == [req[r] EXCEPT !.pc = "fetch", !.photo = r, !.result = "accepted"]
<1>3. "fetch" \in Labels /\ "accepted" \in Results
  BY DEF Labels, Results
<1>4. q \in Request
  BY <1>1, <1>3 DEF Request
<1>5. q.pc = "fetch" /\ q.id = req[r].id /\ q.result = "accepted" /\ q.photo = r
  BY <1>1 DEF Request
<1>6. req' = [req EXCEPT ![r] = q]
  BY <1>1 DEF Schedule
<1> HIDE DEF q
<1>7. req'[r] = q
  BY <1>4, <1>6, Moves
<1>8. Knows(req[r], r)'
  BY <1>1, <1>2, <1>5, <1>7, SameTables DEF Knows, TaskLabels
<1> QED
  BY <1>1, <1>4, <1>6, <1>8, MoveIInv

(* The task goes on with its pending photo.                                *)
LEMMA TaskIInv ==
  ASSUME IInv, NEW r \in Reqs, req[r].pc \in {"fetch", "judge"},
         NEW l \in {"judge", "accept", "count"}, Goto(r, l),
         UNCHANGED <<photos, objects, log, heard>>
  PROVE  IInv'
<1> DEFINE q == [req[r] EXCEPT !.pc = l]
<1>1. req[r] \in Request /\ Knows(req[r], r)
  BY TypeFacts
<1>2. q.pc = l /\ q.id = req[r].id /\ q.result = req[r].result /\ q.photo = req[r].photo
  BY <1>1 DEF Request
<1>3. l \in Labels
  BY DEF Labels
<1> HIDE DEF q
<1>4. Knows(q, r)
  BY <1>1, <1>2 DEF Knows, TaskLabels
<1> QED
  BY <1>3, <1>4, GotoIInv DEF q

LEMMA FetchIInv ==
  ASSUME IInv, NEW r \in Reqs, Fetch(r) PROVE IInv'
<1>1. /\ UNCHANGED <<photos, objects, log, heard>>
      /\ Knows(req[r], r) /\ req[r].pc = "fetch"
  BY TypeFacts DEF Fetch, At
<1>2. req[r].photo = r /\ photos[r].status = "pending"
  BY <1>1 DEF Knows, TaskLabels
<1>3. Goto(r, "judge") \/ Stop(r)
  BY <1>2 DEF Fetch
<1> QED
  BY <1>1, <1>3, TaskIInv, StopIInv

LEMMA JudgeIInv ==
  ASSUME IInv, NEW r \in Reqs, Judge(r) PROVE IInv'
<1>1. UNCHANGED <<photos, objects, log, heard>> /\ req[r].pc = "judge"
  BY DEF Judge, At
<1>2. Goto(r, "accept") \/ Goto(r, "count")
  BY DEF Judge
<1> QED
  BY <1>1, <1>2, TaskIInv

LEMMA NextSeqFact ==
  ASSUME IInv
  PROVE  /\ log \in Seq(EventRow) /\ Len(log) \in Nat /\ DOMAIN log = 1 .. Len(log)
         /\ NextSeq(log) = Len(log) + 1
<1>1. log \in Seq(EventRow) /\ \A i \in DOMAIN log : log[i].seq = i
  BY DEF IInv, TypeOK, Gapless
<1> QED
  BY <1>1, MaxSeqGapless

LEMMA ReadSeqIInv ==
  ASSUME IInv, NEW r \in Reqs, ReadSeq(r) PROVE IInv'
<1>1. /\ req \in [Reqs -> Request] /\ req[r] \in Request
      /\ UNCHANGED <<photos, objects, log, heard>>
      /\ Knows(req[r], r) /\ req[r].pc = "seq"
  BY TypeFacts DEF ReadSeq, At
<1>2. /\ req[r].photo = r /\ req[r].result = "accepted" /\ Exists(r)
      /\ photos[r].id = req[r].id /\ <<"captured", r>> \in heard
      /\ photos[r].status = "accepted" /\ PhotoEvents(r) = {}
  BY <1>1 DEF Knows, TaskLabels
<1> DEFINE n == NextSeq(log)
           q == [req[r] EXCEPT !.pc = "append", !.seq = n]
<1>3. n \in 1 .. Len(log) + 1 /\ n \in Nat
  BY NextSeqFact
<1>4. "append" \in Labels
  BY DEF Labels
<1>5. req' = [req EXCEPT ![r] = q]
  BY <1>1 DEF ReadSeq
<1> HIDE DEF n
<1>6. q \in Request
  BY <1>1, <1>3, <1>4 DEF Request
<1>7. /\ q.pc = "append" /\ q.seq = n /\ q.id = req[r].id
      /\ q.result = "accepted" /\ q.photo = r
  BY <1>1, <1>2 DEF Request
<1> HIDE DEF q
<1>8. req'[r] = q /\ log' = log
  BY <1>1, <1>5, <1>6, Moves
<1>9. Knows(req[r], r)'
  BY <1>1, <1>2, <1>3, <1>7, <1>8, SameTables DEF Knows, TaskLabels
<1> QED
  BY <1>1, <1>5, <1>6, <1>9, MoveIInv

LEMMA CountRefusedIInv ==
  ASSUME IInv, NEW r \in Reqs, CountRefused(r) PROVE IInv'
<1>1. /\ req \in [Reqs -> Request] /\ req[r] \in Request
      /\ UNCHANGED <<photos, objects, log, heard>>
      /\ Knows(req[r], r) /\ req[r].pc = "count"
  BY TypeFacts DEF CountRefused, At
<1>2. /\ req[r].photo = r /\ req[r].result = "accepted" /\ Exists(r)
      /\ photos[r].id = req[r].id /\ <<"captured", r>> \in heard
      /\ photos[r].status = "pending"
  BY <1>1 DEF Knows, TaskLabels
<1> DEFINE n == Cardinality(RefusedOf(photos[r].step))
           q == [req[r] EXCEPT !.pc = "refuse", !.prior = n]
<1>3. n \in Nat
  <2>1. RefusedOf(photos[r].step) \subseteq Reqs
    BY DEF RefusedOf
  <2> QED
    BY <2>1, FS_Subset, FS_CardinalityType, UploadsAssumption
<1>4. "refuse" \in Labels
  BY DEF Labels
<1>5. req' = [req EXCEPT ![r] = q]
  BY <1>1, <1>2 DEF CountRefused
<1>6. n = Cardinality(RefusedOf(photos[r].step))' /\ n <= n
  BY <1>1, <1>3 DEF RefusedOf, Exists
<1> HIDE DEF n
<1>7. q \in Request
  BY <1>1, <1>3, <1>4 DEF Request
<1>8. /\ q.pc = "refuse" /\ q.prior = n /\ q.id = req[r].id
      /\ q.result = "accepted" /\ q.photo = r
  BY <1>1, <1>2 DEF Request
<1> HIDE DEF q
<1>9. req'[r] = q
  BY <1>5, <1>7, Moves
<1>10. Knows(req[r], r)'
  BY <1>1, <1>2, <1>6, <1>8, <1>9, SameTables DEF Knows, TaskLabels
<1> QED
  BY <1>1, <1>5, <1>7, <1>10, MoveIInv

(* The photo event of the accepted photo is stored: it is its first.       *)
LEMMA StoredIInv ==
  ASSUME IInv, NEW r \in Reqs, At(r, "append"), Goto(r, "tell"),
         UNCHANGED <<photos, objects, heard>>,
         NEW w, w = PhotoEvent(req[r]), w.seq = Len(log) + 1, log' = Append(log, w)
  PROVE  IInv'
<1> DEFINE q == [req[r] EXCEPT !.pc = "tell"]
<1>1. /\ req \in [Reqs -> Request] /\ req[r] \in Request
      /\ Knows(req[r], r) /\ req[r].pc = "append"
  BY TypeFacts DEF At
<1>2. /\ req[r].photo = r /\ req[r].result = "accepted" /\ Exists(r)
      /\ photos[r].id = req[r].id /\ <<"captured", r>> \in heard
      /\ photos[r].status = "accepted" /\ PhotoEvents(r) = {}
  BY <1>1 DEF Knows, TaskLabels
<1>3. photos[r] \in PhotoRow /\ photos[r].step \in Nat /\ req[r].seq \in Nat
  BY <1>1, <1>2, TypeFacts DEF PhotoRow, Request
<1>4. w \in EventRow /\ w.photo = r /\ w.step = photos[r].step
  BY <1>2, <1>3 DEF PhotoEvent, EventRow
<1>5. "tell" \in Labels
  BY DEF Labels
<1>6. q \in Request /\ req' = [req EXCEPT ![r] = q]
  BY <1>1, <1>5 DEF Request, Goto
<1>7. q.pc = "tell" /\ q.id = req[r].id /\ q.result = "accepted" /\ q.photo = r
  BY <1>1, <1>2 DEF Request
<1> HIDE DEF q
<1>8. /\ req' \in [Reqs -> Request] /\ req'[r] = q
      /\ \A p \in Reqs : p # r => req'[p] = req[p]
  BY <1>6, Moves
<1>9. Grows(r)
  BY <1>4 DEF Grows, Exists
<1>10. /\ log \in Seq(EventRow) /\ Len(log) \in Nat /\ DOMAIN log = 1 .. Len(log)
       /\ DOMAIN log' = 1 .. Len(log) + 1 /\ log'[Len(log) + 1] = w
       /\ \A i \in 1 .. Len(log) : log'[i] = log[i]
       /\ log' \in Seq(EventRow)
  BY <1>4, NextSeqFact
<1>11. \A p : Exists(p)' = Exists(p)
  BY DEF Exists
<1>12. Len(log) + 1 \in PhotoEvents(r)'
  BY <1>4, <1>10 DEF PhotoEvents
<1>13. Knows(req[r], r)'
  BY <1>2, <1>7, <1>8, <1>11, <1>12 DEF Knows, TaskLabels
<1>14. Locals'
  BY <1>8, <1>9, <1>13, LocalsKept
<1>15. TypeOK'
  BY <1>8, <1>10, <1>11 DEF IInv, TypeOK
<1>16. Gapless'
  BY <1>10 DEF IInv, Gapless
<1>17. OnePhoto' /\ ImageStored'
  BY <1>11 DEF IInv, OnePhoto, ImageStored
<1>18. OpenedByAccepted'
  <2>1. \A i \in DOMAIN log' :
          /\ Exists(log'[i].photo)
          /\ photos[log'[i].photo].status = "accepted"
          /\ photos[log'[i].photo].step = log'[i].step
    BY <1>2, <1>4, <1>10 DEF IInv, OpenedByAccepted
  <2>2. \A p \in Reqs : \A i, j \in PhotoEvents(p)' : i = j
    <3> SUFFICES ASSUME NEW p \in Reqs, NEW i \in PhotoEvents(p)', NEW j \in PhotoEvents(p)'
                 PROVE  i = j
      OBVIOUS
    <3>1. CASE p = r
      <4>1. \A k \in PhotoEvents(r)' : k = Len(log) + 1
        BY <1>2, <1>10 DEF PhotoEvents
      <4> QED
        BY <3>1, <4>1
    <3>2. CASE p # r
      BY <3>2, <1>9, EventsGrow DEF IInv, OpenedByAccepted
    <3> QED
      BY <3>1, <3>2
  <2> QED
    BY <1>11, <2>1, <2>2 DEF OpenedByAccepted
<1>19. HeardIsTrue'
  <2>1. \A p \in Reqs : PhotoEvents(p) # {} => PhotoEvents(p)' # {}
    BY <1>9, EventsGrow
  <2>2. \A h \in heard : h[2] \in Reqs
    BY DEF IInv, TypeOK
  <2> QED
    BY <1>11, <2>1, <2>2 DEF IInv, HeardIsTrue
<1>20. RetriesEarned'
  BY DEF IInv, RetriesEarned, RefusedOf, Exists
<1> QED
  BY <1>14, <1>15, <1>16, <1>17, <1>18, <1>19, <1>20 DEF IInv

LEMMA AppendEventIInv ==
  ASSUME IInv, NEW r \in Reqs, AppendEvent(r) PROVE IInv'
<1> DEFINE w == PhotoEvent(req[r])
<1>1. At(r, "append") /\ UNCHANGED <<photos, objects, heard>>
  BY DEF AppendEvent
<1>2. CASE AppendOutcome(log, w) = "stored" /\ log' = Append(log, w) /\ Goto(r, "tell")
  <2>1. w.seq = NextSeq(log)
    BY <1>2 DEF AppendOutcome
  <2>2. w.seq = Len(log) + 1
    BY <2>1, NextSeqFact
  <2> HIDE DEF w
  <2>3. w = PhotoEvent(req[r])
    BY DEF w
  <2> QED
    BY <1>1, <1>2, <2>2, <2>3, StoredIInv
<1>3. CASE Stop(r) /\ UNCHANGED log
  BY <1>1, <1>3, StopIInv
<1> QED
  BY <1>2, <1>3 DEF AppendEvent

LEMMA InitIInv == Init => IInv
<1> SUFFICES ASSUME Init PROVE IInv
  OBVIOUS
<1>1. Idle \in Request
  BY DEF Idle, Request, Labels, Results
<1>2. \A p \in Reqs : ~Exists(p) /\ req[p] = Idle
  BY DEF Init, Exists
<1>3. TypeOK
  BY <1>1, <1>2 DEF Init, TypeOK
<1>4. Gapless /\ OnePhoto /\ ImageStored
  BY <1>2 DEF Init, Gapless, OnePhoto, ImageStored
<1>5. OpenedByAccepted /\ HeardIsTrue
  BY DEF Init, OpenedByAccepted, HeardIsTrue, PhotoEvents
<1>6. RetriesEarned
  BY <1>2 DEF RetriesEarned
<1>7. Locals
  BY <1>2 DEF Locals, Knows, Idle, TaskLabels
<1> QED
  BY <1>3, <1>4, <1>5, <1>6, <1>7 DEF IInv

LEMMA NextIInv == IInv /\ [Next]_vars => IInv'
<1> SUFFICES ASSUME IInv, [Next]_vars PROVE IInv'
  OBVIOUS
<1>1. ASSUME NEW r \in Reqs, Upload(r) PROVE IInv'
  BY <1>1, UploadIInv
<1>2. ASSUME NEW r \in Reqs, Step(r) PROVE IInv'
  <2>1. CASE Find(r)
    BY <2>1, FindIInv
  <2>2. CASE Put(r)
    BY <2>2, PutIInv
  <2>3. CASE Save(r)
    BY <2>3, SaveIInv
  <2>4. CASE Announce(r)
    BY <2>4, AnnounceIInv
  <2>5. CASE Schedule(r)
    BY <2>5, ScheduleIInv
  <2>6. CASE Fetch(r)
    BY <2>6, FetchIInv
  <2>7. CASE Judge(r)
    BY <2>7, JudgeIInv
  <2>8. CASE Accept(r)
    BY <2>8, AcceptIInv
  <2>9. CASE ReadSeq(r)
    BY <2>9, ReadSeqIInv
  <2>10. CASE AppendEvent(r)
    BY <2>10, AppendEventIInv
  <2>11. CASE CountRefused(r)
    BY <2>11, CountRefusedIInv
  <2>12. CASE Refuse(r)
    BY <2>12, RefuseIInv
  <2>13. CASE Tell(r)
    BY <2>13, TellIInv
  <2> QED
    BY <1>2, <2>1, <2>2, <2>3, <2>4, <2>5, <2>6, <2>7, <2>8, <2>9, <2>10, <2>11, <2>12,
       <2>13 DEF Step
<1>3. ASSUME NEW r \in Reqs, Crash(r) PROVE IInv'
  BY <1>3, StopIInv DEF Crash
<1>4. CASE UNCHANGED vars
  <2>1. UNCHANGED <<photos, objects, log, heard, req>>
    BY <1>4 DEF vars
  <2>2. Locals'
    <3> SUFFICES ASSUME NEW p \in Reqs PROVE Knows(req[p], p)'
      BY DEF Locals
    <3>1. Knows(req[p], p) /\ req' = req
      BY <2>1, TypeFacts
    <3> QED
      BY <2>1, <3>1, SameTables DEF Knows
  <2>3. TypeOK' /\ Gapless' /\ OnePhoto' /\ ImageStored'
    BY <2>1 DEF IInv, TypeOK, Gapless, OnePhoto, ImageStored, Exists
  <2>4. OpenedByAccepted' /\ HeardIsTrue'
    BY <2>1 DEF IInv, OpenedByAccepted, HeardIsTrue, Exists, PhotoEvents
  <2>5. RetriesEarned'
    BY <2>1 DEF IInv, RetriesEarned, RefusedOf, Exists
  <2> QED
    BY <2>2, <2>3, <2>4, <2>5 DEF IInv
<1> QED
  BY <1>1, <1>2, <1>3, <1>4 DEF Next

LEMMA Inductive == Spec => []IInv
  BY InitIInv, NextIInv, PTL DEF Spec

(* Types, and the range of the retries of a refused photo.                 *)
THEOREM TypeCorrect == Spec => []TypeOK
<1>1. IInv => TypeOK
  BY DEF IInv
<1> QED
  BY <1>1, Inductive, PTL

(* An event id has one photo, and an upload taken over is answered with    *)
(* it, whatever retries and double taps there are.                         *)
THEOREM AnswersCorrect == Spec => []AnswersNameThePhoto
<1>1. IInv => AnswersNameThePhoto
  <2> SUFFICES ASSUME IInv, NEW r \in Reqs, req[r].result = "accepted"
               PROVE  PhotosOf(req[r].id) = {req[r].photo}
    BY DEF AnswersNameThePhoto
  <2>1. Knows(req[r], r)
    BY TypeFacts
  <2>2. req[r].photo \in Reqs /\ Exists(req[r].photo) /\ photos[req[r].photo].id = req[r].id
    BY <2>1 DEF Knows
  <2> QED
    BY <2>2 DEF IInv, OnePhoto, PhotosOf
<1> QED
  BY <1>1, Inductive, PTL

(* A photo on record has its image in the object storage.                  *)
THEOREM ImagesStored == Spec => []ImageStored
<1>1. IInv => ImageStored
  BY DEF IInv
<1> QED
  BY <1>1, Inductive, PTL

(* The gate of a step is opened by one event, of an accepted photo of this *)
(* step.                                                                   *)
THEOREM GatesOpenedByAccepted == Spec => []OpenedByAccepted
<1>1. IInv => OpenedByAccepted
  BY DEF IInv
<1> QED
  BY <1>1, Inductive, PTL

(* A task that ran to its end has opened the gate for its accepted photo.  *)
THEOREM AcceptedOpenTheGate == Spec => []AcceptedOpens
<1>1. IInv => AcceptedOpens
  BY DEF IInv, Locals, Knows, AcceptedOpens, At
<1> QED
  BY <1>1, Inductive, PTL

(* Subscribers are told nothing of a photo that is not on record.          *)
THEOREM NoticesTrue == Spec => []HeardIsTrue
<1>1. IInv => HeardIsTrue
  BY DEF IInv
<1> QED
  BY <1>1, Inductive, PTL

(* Stale as it is, the count of retries never exceeds the refusals.        *)
THEOREM RetriesAreEarned == Spec => []RetriesEarned
<1>1. IInv => RetriesEarned
  BY DEF IInv
<1> QED
  BY <1>1, Inductive, PTL

(* A step that writes a photo finds it pending: verdicts are final.        *)
THEOREM VerdictsAreFinal == Spec => VerdictIsFinal
<1>1. IInv /\ [Next]_vars =>
        [\A p \in Reqs :
           (Exists(p) /\ photos[p].status # "pending") => photos'[p] = photos[p]]_vars
  <2> SUFFICES ASSUME IInv, Next, NEW p \in Reqs, Exists(p), photos[p].status # "pending"
               PROVE  photos'[p] = photos[p]
    OBVIOUS
  <2>1. photos \in [Reqs -> {NoRow} \cup PhotoRow]
    BY TypeFacts
  <2>2. PICK r \in Reqs : Upload(r) \/ Step(r) \/ Crash(r)
    BY DEF Next
  <2>3. Knows(req[r], r)
    BY TypeFacts
  <2>4. CASE Save(r)
    BY <2>1, <2>3, <2>4 DEF Save, At, Knows
  <2>5. CASE Accept(r)
    <3>1. req[r].photo = r /\ photos[r].status = "pending"
      BY <2>3, <2>5 DEF Accept, At, Knows, TaskLabels
    <3> QED
      BY <2>1, <2>5, <3>1 DEF Accept
  <2>6. CASE Refuse(r)
    <3>1. req[r].photo = r /\ photos[r].status = "pending"
      BY <2>3, <2>6 DEF Refuse, At, Knows, TaskLabels
    <3> QED
      BY <2>1, <2>6, <3>1 DEF Refuse
  <2>7. CASE UNCHANGED photos
    BY <2>7
  <2> QED
    BY <2>2, <2>4, <2>5, <2>6, <2>7
       DEF Upload, Step, Crash, Find, Put, Announce, Schedule, Fetch, Judge, ReadSeq,
           AppendEvent, CountRefused, Tell
<1> QED
  BY <1>1, Inductive, PTL DEF Spec, VerdictIsFinal

(* Answers and notices about photos are true of the record. *)
THEOREM PhotosTrue == Spec => []PhotosAreTrue
<1>1. AnswersNameThePhoto /\ ImageStored /\ HeardIsTrue => PhotosAreTrue
  BY DEF PhotosAreTrue
<1> QED
  BY AnswersCorrect, ImagesStored, NoticesTrue, <1>1, PTL

(* Gates are opened by accepted photos, escalations earned by refused ones. *)
THEOREM GatesAreEarned == Spec => []GateIsEarned
<1>1. OpenedByAccepted /\ AcceptedOpens /\ RetriesEarned => GateIsEarned
  BY DEF GateIsEarned
<1> QED
  BY GatesOpenedByAccepted, AcceptedOpenTheGate, RetriesAreEarned, <1>1, PTL
=============================================================================
