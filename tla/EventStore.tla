----------------------------- MODULE EventStore -----------------------------
(***************************************************************************)
(* Concurrent requests that record and publish events of one session       *)
(* (PostSessionEventUseCase, AppendEventUseCase and the two _emit_ws       *)
(* helpers) on the Postgres adapter.  Every await on the database is one   *)
(* step: next_seq and append are two transactions, so another request may  *)
(* run between them, and publishing comes after the commit.                *)
(*                                                                         *)
(* A request is                                                            *)
(*   "client"  a measurement or a finding POSTed with an id of the client; *)
(*   "system"  emit_system_event without a client id;                      *)
(*   "notice"  photo.captured, photo.rejected, report.updated ...: it asks *)
(*             for the next number and publishes, but stores nothing.      *)
(***************************************************************************)
EXTENDS SessionEvents

CONSTANTS
  Reqs,        \* requests, each handled once
  EventIds     \* ids clients choose; two requests with one id are a retry

ASSUME FreshAssumption == Fresh \notin EventIds

VARIABLES
  log,         \* the session_event rows
  bus,         \* what was published to the session's subscribers, in order
  closed,      \* the session row says finalized
  req          \* [Reqs -> the local state of the handler]

vars == <<log, bus, closed, req>>

Kinds    == {"client", "system", "notice"}
Labels   == {"idle", "find", "load", "check", "seq", "append", "publish", "done"}
Failures == {"refused", "invalid", "conflict", "duplicate", "lost"}
Results  == {"none", "accepted"} \cup Failures

Request ==
  [pc : Labels, kind : Kinds, id : EventIds \cup {Fresh}, valid : BOOLEAN,
   seq : Nat, result : Results]

Idle == [pc |-> "idle", kind |-> "client", id |-> Fresh, valid |-> TRUE,
         seq |-> 0, result |-> "none"]

Init ==
  /\ log = <<>>
  /\ bus = <<>>
  /\ closed = FALSE
  /\ req = [r \in Reqs |-> Idle]

-----------------------------------------------------------------------------
At(r, label) == req[r].pc = label

Goto(r, label) == req' = [req EXCEPT ![r].pc = label]

Finish(r, result) ==
  req' = [req EXCEPT ![r].pc = "done", ![r].result = result]

(* The handler returns the number of a stored event. *)
Accept(r, seq) ==
  req' = [req EXCEPT ![r].pc = "done", ![r].result = "accepted", ![r].seq = seq]

(* POST /events of a measurement or finding. *)
PostEvent(r) ==
  /\ At(r, "idle")
  /\ \E id \in EventIds, valid \in BOOLEAN :
       req' = [req EXCEPT ![r] = [Idle EXCEPT !.pc = "find", !.id = id, !.valid = valid]]
  /\ UNCHANGED <<log, bus, closed>>

(* emit_system_event, or a notice that is only published. *)
EmitEvent(r) ==
  /\ At(r, "idle")
  /\ \E kind \in {"system", "notice"} :
       req' = [req EXCEPT ![r] = [Idle EXCEPT !.pc = "seq", !.kind = kind]]
  /\ UNCHANGED <<log, bus, closed>>

(* find_by_event_id: a retry is answered with the number of the original. *)
Find(r) ==
  /\ At(r, "find")
  /\ IF Known(log, req[r].id) THEN Accept(r, RowOf(log, req[r].id).seq)
                              ELSE Goto(r, "load")
  /\ UNCHANGED <<log, bus, closed>>

(* A finalized session takes no more events of clients. *)
Load(r) ==
  /\ At(r, "load")
  /\ IF closed THEN Finish(r, "refused") ELSE Goto(r, "check")
  /\ UNCHANGED <<log, bus, closed>>

(* get_by_event_id once more, then validate_rest_event_payload. *)
Check(r) ==
  /\ At(r, "check")
  /\ IF Known(log, req[r].id) THEN Accept(r, RowOf(log, req[r].id).seq)
     ELSE IF req[r].valid THEN Goto(r, "seq") ELSE Finish(r, "invalid")
  /\ UNCHANGED <<log, bus, closed>>

(* next_seq, a transaction of its own. *)
ReadMax(r) ==                       \* mutation: the greatest number, not the next
  /\ At(r, "seq")
  /\ req' = [req EXCEPT ![r].seq = MaxSeq(log),
                        ![r].pc = IF req[r].kind = "notice" THEN "publish" ELSE "append"]
  /\ UNCHANGED <<log, bus, closed>>

ReadSeq(r) ==
  /\ At(r, "seq")
  /\ req' = [req EXCEPT ![r].seq = NextSeq(log),
                        ![r].pc = IF req[r].kind = "notice" THEN "publish" ELSE "append"]
  /\ UNCHANGED <<log, bus, closed>>

(* append: store the row, or fail because the number or the id is taken. *)
Row(r) == [id |-> req[r].id, seq |-> req[r].seq, type |-> req[r].kind, step |-> 0]

StoreOrIgnore(r) ==                 \* mutation: ON CONFLICT DO NOTHING
  /\ At(r, "append")
  /\ Goto(r, "publish")
  /\ log' = IF AppendOutcome(log, Row(r)) = "stored" THEN Append(log, Row(r)) ELSE log
  /\ UNCHANGED <<bus, closed>>

Store(r) ==
  /\ At(r, "append")
  /\ LET outcome == AppendOutcome(log, Row(r))
     IN  IF outcome = "stored"
         THEN Goto(r, "publish") /\ log' = Append(log, Row(r))
         ELSE Finish(r, outcome) /\ UNCHANGED log
  /\ UNCHANGED <<bus, closed>>

(* bus.publish, then the answer. *)
Publish(r) ==
  /\ At(r, "publish")
  /\ bus' = Append(bus, [id |-> req[r].id, seq |-> req[r].seq, kind |-> req[r].kind])
  /\ Accept(r, req[r].seq)
  /\ UNCHANGED <<log, closed>>

(* The instance stops: what the handler had in memory is gone. *)
Crash(r) ==
  /\ ~At(r, "idle") /\ ~At(r, "done")
  /\ Finish(r, "lost")
  /\ UNCHANGED <<log, bus, closed>>

(* Another component finalizes the session. *)
Close ==
  /\ ~closed
  /\ closed' = TRUE
  /\ UNCHANGED <<log, bus, req>>

Step(r) ==
  Find(r) \/ Load(r) \/ Check(r) \/ ReadSeq(r) \/ Store(r) \/ Publish(r)

Next ==
  \/ \E r \in Reqs : PostEvent(r) \/ EmitEvent(r) \/ Step(r) \/ Crash(r)
  \/ Close

Spec == Init /\ [][Next]_vars

-----------------------------------------------------------------------------
RowType == [id : EventIds \cup {Fresh}, seq : Nat, type : Kinds, step : Nat]

TypeOK ==
  /\ log \in Seq(RowType)
  /\ bus \in Seq([id : EventIds \cup {Fresh}, seq : Nat, kind : Kinds])
  /\ closed \in BOOLEAN
  /\ req \in [Reqs -> Request]

(* The numbers of the stored events are 1, 2, 3 ... without a gap, however *)
(* many requests race between next_seq and append (clients catch up with   *)
(* since_seq, which is sound only then).                                   *)
Gapless == \A i \in DOMAIN log : log[i].seq = i

(* An id chosen by a client is stored once, although the two look-ups that *)
(* precede the INSERT run in transactions of their own.                    *)
StoredOnce ==
  \A i, j \in DOMAIN log :
    (log[i].id = log[j].id /\ log[i].id # Fresh) => i = j

(* What a client is told holds of the table: the number in the answer to   *)
(* an accepted event is the number of the row with its id, so a retry and  *)
(* the original get the same answer.                                       *)
AnswersNameTheRow ==
  \A r \in Reqs :
    (req[r].result = "accepted" /\ req[r].kind # "notice") =>
      /\ req[r].seq \in DOMAIN log
      /\ log[req[r].seq].id = req[r].id

(* An append that fails on a stale number lost to another append: the      *)
(* number it had been given is in the table.  The optimistic scheme never  *)
(* rejects everybody.                                                      *)
ConflictMeansProgress ==
  \A r \in Reqs : req[r].result = "conflict" => SeqTaken(log, req[r].seq)

(* Answers are true of the table, those that accept and those that refuse. *)
AnswersAreTrue == AnswersNameTheRow /\ ConflictMeansProgress

(* A subscriber never hears of an event that a catch-up with since_seq     *)
(* would not return: publishing follows the commit.  And it hears of every *)
(* event that is stored, unless the request that stored it has yet to      *)
(* publish or was cut off: a refused request, or a retry that is answered  *)
(* with the number of the original, leaves nothing unpublished.            *)
Names(m, i) == m.kind # "notice" /\ m.seq = i /\ m.id = log[i].id

PublishedIsStored ==
  /\ \A k \in DOMAIN bus :
       bus[k].kind # "notice" => \E i \in DOMAIN log : Names(bus[k], i)
  /\ \A i \in DOMAIN log :
       \/ \E k \in DOMAIN bus : Names(bus[k], i)
       \/ \E r \in Reqs : Names(req[r], i) /\ (At(r, "publish") \/ req[r].result = "lost")

(* The store implements the log it promises. *)
Acks == {[id |-> req[r].id, seq |-> req[r].seq] :
           r \in {q \in Reqs : req[q].result = "accepted" /\ req[q].kind # "notice"}}

Ids == [i \in DOMAIN log |-> log[i].id]

Promise == INSTANCE EventLog WITH log <- Ids, acks <- Acks

Implements == Promise!Spec
=============================================================================
