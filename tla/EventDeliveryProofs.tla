------------------------- MODULE EventDeliveryProofs ------------------------
(***************************************************************************)
(* What holds of an event on its way to those who follow a session.        *)
(* EventStore, which numbers and records it, for any number of requests    *)
(* and any set of client ids: the safety invariants, from one inductive    *)
(* invariant, and the implementation of EventLog.  SessionSocket, which    *)
(* brings it to connections and builders, for any number of events,        *)
(* connections and instances: the safety invariants, in three layers.      *)
(* The two share no variable; each part speaks of its own specification.   *)
(***************************************************************************)
EXTENDS EventStore, SessionSocket, FiniteSetTheorems, TLAPS


(* In a table without gaps the greatest number is the number of rows.      *)
LEMMA MaxSeqGapless ==
  ASSUME NEW S, NEW l \in Seq(S), \A i \in DOMAIN l : l[i].seq = i
  PROVE  /\ SeqsOf(l) = 1 .. Len(l)
         /\ MaxSeq(l) = Len(l)
         /\ NextSeq(l) = Len(l) + 1
<1>1. Len(l) \in Nat /\ DOMAIN l = 1 .. Len(l)
  OBVIOUS
<1>2. SeqsOf(l) = 1 .. Len(l)
  BY <1>1 DEF SeqsOf
<1>3. {0} \cup SeqsOf(l) = 0 .. Len(l)
  BY <1>1, <1>2
<1>4. MaxSeq(l) = CHOOSE m \in 0 .. Len(l) : \A n \in 0 .. Len(l) : n <= m
  BY <1>3 DEF MaxSeq
<1>5. \E m \in 0 .. Len(l) : \A n \in 0 .. Len(l) : n <= m
  BY <1>1
<1>6. MaxSeq(l) \in 0 .. Len(l) /\ \A n \in 0 .. Len(l) : n <= MaxSeq(l)
  BY <1>4, <1>5
<1>7. MaxSeq(l) = Len(l)
  BY <1>1, <1>6
<1> QED
  BY <1>2, <1>7 DEF NextSeq

(* A row is stored only at the end of the table, and a client's id once.   *)
LEMMA StoredAtEnd ==
  ASSUME NEW S, NEW l \in Seq(S), \A i \in DOMAIN l : l[i].seq = i,
         NEW w, w.seq \in 1 .. Len(l) + 1
  PROVE  /\ AppendOutcome(l, w) = "stored" =>
              w.seq = Len(l) + 1 /\ ~IdTaken(l, w.id)
         /\ AppendOutcome(l, w) = "conflict" => w.seq \in DOMAIN l
         /\ AppendOutcome(l, w) \in {"stored", "conflict", "duplicate"}
<1>1. NextSeq(l) = Len(l) + 1
  BY MaxSeqGapless
<1> QED
  BY <1>1 DEF AppendOutcome

(* The row found for a known id is at the position its number says.        *)
LEMMA FoundRow ==
  ASSUME NEW S, NEW l \in Seq(S), \A i \in DOMAIN l : l[i].seq = i,
         NEW id, Known(l, id)
  PROVE  /\ RowOf(l, id).seq \in DOMAIN l
         /\ l[RowOf(l, id).seq].id = id
<1> DEFINE i == CHOOSE k \in DOMAIN l : l[k].id = id
<1>1. i \in DOMAIN l /\ l[i].id = id
  BY DEF Known
<1>2. RowOf(l, id) = l[i]
  BY DEF RowOf
<1> QED
  BY <1>1, <1>2

(***************************************************************************)
(* The strengthening.  Between next_seq and append a request holds a       *)
(* number that the table has not passed by more than one; between append   *)
(* and publish it holds the number of its row; a conflict was a number of  *)
(* the table.                                                              *)
(***************************************************************************)
PendingNumber ==
  \A r \in Reqs :
    At(r, "append") => /\ req[r].kind # "notice"
                       /\ req[r].seq \in 1 .. Len(log) + 1

PendingPublish ==
  \A r \in Reqs :
    (At(r, "publish") /\ req[r].kind # "notice") =>
      /\ req[r].seq \in DOMAIN log
      /\ log[req[r].seq].id = req[r].id

LostNumber ==
  \A r \in Reqs : req[r].result = "conflict" => req[r].seq \in DOMAIN log

Unanswered == \A r \in Reqs : ~At(r, "done") => req[r].result = "none"

PublishedRow ==
  \A k \in DOMAIN bus :
    bus[k].kind # "notice" =>
      /\ bus[k].seq \in DOMAIN log
      /\ log[bus[k].seq].id = bus[k].id

IInv ==
  /\ TypeOK
  /\ Gapless
  /\ StoredOnce
  /\ AnswersNameTheRow
  /\ PendingNumber
  /\ PendingPublish
  /\ LostNumber
  /\ Unanswered
  /\ PublishedRow

-----------------------------------------------------------------------------
LEMMA InitIInv == Init => IInv
<1> SUFFICES ASSUME Init PROVE IInv
  OBVIOUS
<1>1. Idle \in Request /\ Idle.pc = "idle" /\ Idle.result = "none"
  BY DEF Idle, Request, Kinds, Labels, Results
<1>2. \A r \in Reqs : req[r].pc = "idle" /\ req[r].result = "none"
  BY <1>1 DEF Init
<1>e. /\ <<>> \in Seq(RowType)
      /\ <<>> \in Seq([id : EventIds \cup {Fresh}, seq : Nat, kind : Kinds])
  OBVIOUS
<1>3. TypeOK
  BY <1>1, <1>e DEF Init, TypeOK
<1>4. DOMAIN log = {} /\ DOMAIN bus = {}
  BY DEF Init
<1> QED
  BY <1>1, <1>2, <1>3, <1>4
  DEF IInv, Gapless, StoredOnce, AnswersNameTheRow, PendingNumber, PendingPublish,
      LostNumber, Unanswered, PublishedRow, At

(* A step that only moves one request, from r0 to r1, and leaves the table *)
(* and the wire alone keeps the invariant when the new local state does.   *)
LEMMA MoveRequest ==
  ASSUME IInv, NEW r \in Reqs, NEW q \in Request,
         req' = [req EXCEPT ![r] = q],
         log' = log, bus' = bus, closed' \in BOOLEAN,
         q.pc # "done" => q.result = "none",
         q.result = "conflict" => q.seq \in DOMAIN log,
         q.pc = "append" => q.kind # "notice" /\ q.seq \in 1 .. Len(log) + 1,
         (q.kind # "notice" /\ (q.pc = "publish" \/ q.result = "accepted")) =>
            q.seq \in DOMAIN log /\ log[q.seq].id = q.id
  PROVE  IInv'
<1>1. req' \in [Reqs -> Request] /\ req'[r] = q
  BY DEF IInv, TypeOK
<1>2. \A s \in Reqs : s # r => req'[s] = req[s]
  BY DEF IInv, TypeOK
<1>3. TypeOK'
  BY <1>1 DEF IInv, TypeOK
<1>4. Gapless' /\ StoredOnce' /\ PublishedRow'
  BY DEF IInv, Gapless, StoredOnce, PublishedRow
<1>5. AnswersNameTheRow'
  BY <1>1, <1>2 DEF IInv, AnswersNameTheRow
<1>6. PendingNumber'
  BY <1>1, <1>2 DEF IInv, PendingNumber, At
<1>7. PendingPublish'
  BY <1>1, <1>2 DEF IInv, PendingPublish, At
<1>8. LostNumber' /\ Unanswered'
  BY <1>1, <1>2 DEF IInv, LostNumber, Unanswered, At
<1> QED
  BY <1>3, <1>4, <1>5, <1>6, <1>7, <1>8 DEF IInv

(* The three ways a handler moves on.                                      *)
LEMMA GotoIInv ==
  ASSUME IInv, NEW r \in Reqs, NEW label \in Labels \ {"append", "publish", "done"},
         ~At(r, "done"), Goto(r, label), UNCHANGED <<log, bus, closed>>
  PROVE  IInv'
<1> DEFINE q == [req[r] EXCEPT !.pc = label]
<1>1. req \in [Reqs -> Request] /\ req[r] \in Request /\ closed \in BOOLEAN
  BY DEF IInv, TypeOK
<1>2. req' = [req EXCEPT ![r] = q]
  BY <1>1 DEF Goto
<1>3. q \in Request /\ q.pc = label /\ q.result = req[r].result
  BY <1>1 DEF Request
<1>4. req[r].result = "none"
  BY DEF IInv, Unanswered
<1> HIDE DEF q
<1> QED
  BY <1>1, <1>2, <1>3, <1>4, MoveRequest

LEMMA FinishIInv ==
  ASSUME IInv, NEW r \in Reqs, NEW result \in Failures,
         result = "conflict" => req[r].seq \in DOMAIN log,
         Finish(r, result), UNCHANGED <<log, bus, closed>>
  PROVE  IInv'
<1> DEFINE q == [req[r] EXCEPT !.pc = "done", !.result = result]
<1>1. req \in [Reqs -> Request] /\ req[r] \in Request /\ closed \in BOOLEAN
  BY DEF IInv, TypeOK
<1>2. req' = [req EXCEPT ![r] = q]
  BY <1>1 DEF Finish
<1>3. q \in Request /\ q.pc = "done" /\ q.result = result /\ q.seq = req[r].seq
  BY <1>1 DEF Request, Labels, Results
<1>4. result # "accepted"
  BY DEF Failures
<1> HIDE DEF q
<1> QED
  BY <1>1, <1>2, <1>3, <1>4, MoveRequest

LEMMA AcceptIInv ==
  ASSUME IInv, NEW r \in Reqs, NEW seq \in Nat,
         req[r].kind # "notice" => seq \in DOMAIN log /\ log[seq].id = req[r].id,
         Accept(r, seq), UNCHANGED <<log, bus, closed>>
  PROVE  IInv'
<1> DEFINE q == [req[r] EXCEPT !.pc = "done", !.result = "accepted", !.seq = seq]
<1>1. req \in [Reqs -> Request] /\ req[r] \in Request /\ closed \in BOOLEAN
  BY DEF IInv, TypeOK
<1>2. req' = [req EXCEPT ![r] = q]
  BY <1>1 DEF Accept
<1>3. /\ q \in Request /\ q.pc = "done" /\ q.result = "accepted" /\ q.seq = seq
      /\ q.id = req[r].id /\ q.kind = req[r].kind
  BY <1>1 DEF Request, Labels, Results
<1> HIDE DEF q
<1> QED
  BY <1>1, <1>2, <1>3, MoveRequest

(* The append transaction: the table grows by the row, or stays.           *)
LEMMA StoreIInv ==
  ASSUME IInv, NEW r \in Reqs, Store(r)
  PROVE  IInv'
<1> DEFINE row == Row(r)
           q == [req[r] EXCEPT !.pc = "publish"]
<1>1. /\ req \in [Reqs -> Request] /\ req[r] \in Request
      /\ log \in Seq(RowType) /\ Len(log) \in Nat /\ DOMAIN log = 1 .. Len(log)
  BY DEF IInv, TypeOK
<1>2. req[r].pc = "append" /\ req[r].kind # "notice" /\ req[r].seq \in 1 .. Len(log) + 1
  BY DEF Store, At, IInv, PendingNumber
<1>3. row \in RowType /\ row.seq = req[r].seq /\ row.id = req[r].id
  BY <1>1 DEF Row, Request, RowType
<1>4. \A i \in DOMAIN log : log[i].seq = i
  BY DEF IInv, Gapless
<1>5. /\ AppendOutcome(log, row) = "stored" => row.seq = Len(log) + 1 /\ ~IdTaken(log, row.id)
      /\ AppendOutcome(log, row) = "conflict" => row.seq \in DOMAIN log
      /\ AppendOutcome(log, row) \in {"stored", "conflict", "duplicate"}
  BY <1>1, <1>2, <1>3, <1>4, StoredAtEnd
<1>6. CASE AppendOutcome(log, row) = "stored"
  <2>1. /\ log' = Append(log, row) /\ bus' = bus /\ closed' = closed
        /\ req' = [req EXCEPT ![r] = q]
    BY <1>1, <1>6 DEF Store, Goto
  <2>2. /\ log' \in Seq(RowType) /\ DOMAIN log' = 1 .. Len(log) + 1 /\ Len(log') = Len(log) + 1
        /\ \A i \in DOMAIN log : log'[i] = log[i]
        /\ log'[Len(log) + 1] = row
    BY <1>1, <1>3, <2>1
  <2>3. /\ q \in Request /\ q.pc = "publish" /\ q.seq = req[r].seq /\ q.id = req[r].id
        /\ q.kind = req[r].kind /\ q.result = req[r].result
    BY <1>1 DEF Request, Labels
  <2> HIDE DEF q, row
  <2>4. req' \in [Reqs -> Request] /\ req'[r] = q /\ \A s \in Reqs : s # r => req'[s] = req[s]
    BY <1>1, <2>1, <2>3
  <2>5. row.seq = Len(log) + 1 /\ req[r].result = "none" /\ ~IdTaken(log, row.id)
    BY <1>2, <1>5, <1>6 DEF IInv, Unanswered, At
  <2>6. TypeOK'
    BY <2>1, <2>2, <2>4 DEF IInv, TypeOK
  <2>7. Gapless'
    BY <1>1, <1>4, <2>2, <2>5 DEF Gapless
  <2>8. StoredOnce'
    <3> SUFFICES ASSUME NEW i \in DOMAIN log', NEW j \in DOMAIN log',
                        log'[i].id = log'[j].id, log'[i].id # Fresh
                 PROVE  i = j
      BY DEF StoredOnce
    <3>1. \A k \in DOMAIN log : row.id # Fresh => log[k].id # row.id
      BY <2>5 DEF IdTaken, Known
    <3>2. CASE i \in DOMAIN log /\ j \in DOMAIN log
      BY <2>2, <3>2 DEF IInv, StoredOnce
    <3>3. CASE i = Len(log) + 1 /\ j \in DOMAIN log
      BY <2>2, <3>1, <3>3
    <3>4. CASE j = Len(log) + 1 /\ i \in DOMAIN log
      BY <2>2, <3>1, <3>4
    <3> QED
      BY <1>1, <2>2, <3>2, <3>3, <3>4
  <2>9. AnswersNameTheRow'
    BY <1>1, <2>2, <2>3, <2>4, <2>5 DEF IInv, AnswersNameTheRow
  <2>10. PendingNumber'
    BY <1>1, <2>2, <2>3, <2>4 DEF IInv, PendingNumber, At
  <2>11. PendingPublish'
    BY <1>1, <1>3, <2>2, <2>3, <2>4, <2>5 DEF IInv, PendingPublish, At
  <2>12. LostNumber' /\ Unanswered'
    BY <1>1, <2>2, <2>3, <2>4, <2>5 DEF IInv, LostNumber, Unanswered, At
  <2>13. PublishedRow'
    BY <1>1, <2>1, <2>2 DEF IInv, PublishedRow
  <2> QED
    BY <2>6, <2>7, <2>8, <2>9, <2>10, <2>11, <2>12, <2>13 DEF IInv
<1>7. CASE AppendOutcome(log, row) # "stored"
  <2>1. /\ AppendOutcome(log, row) \in Failures
        /\ Finish(r, AppendOutcome(log, row)) /\ UNCHANGED <<log, bus, closed>>
        /\ AppendOutcome(log, row) = "conflict" => req[r].seq \in DOMAIN log
    BY <1>3, <1>5, <1>7 DEF Store, Failures
  <2> QED
    BY <2>1, FinishIInv
<1> QED
  BY <1>6, <1>7

(* Publication: the wire grows by the event, which is stored.              *)
LEMMA PublishIInv ==
  ASSUME IInv, NEW r \in Reqs, Publish(r)
  PROVE  IInv'
<1> DEFINE q == [req[r] EXCEPT !.pc = "done", !.result = "accepted", !.seq = req[r].seq]
           m == [id |-> req[r].id, seq |-> req[r].seq, kind |-> req[r].kind]
<1>1. /\ req \in [Reqs -> Request] /\ req[r] \in Request
      /\ bus \in Seq([id : EventIds \cup {Fresh}, seq : Nat, kind : Kinds])
      /\ Len(bus) \in Nat /\ DOMAIN bus = 1 .. Len(bus)
  BY DEF IInv, TypeOK
<1>2. /\ req' = [req EXCEPT ![r] = q] /\ bus' = Append(bus, m)
      /\ log' = log /\ closed' = closed
  BY <1>1 DEF Publish, Accept
<1>3. /\ q \in Request /\ q.pc = "done" /\ q.result = "accepted" /\ q.seq = req[r].seq
      /\ q.id = req[r].id /\ q.kind = req[r].kind
  BY <1>1 DEF Request, Labels, Results
<1>4. /\ m \in [id : EventIds \cup {Fresh}, seq : Nat, kind : Kinds]
      /\ m.kind # "notice" => m.seq \in DOMAIN log /\ log[m.seq].id = m.id
      /\ req[r].kind # "notice" => req[r].seq \in DOMAIN log /\ log[req[r].seq].id = req[r].id
  BY <1>1 DEF Publish, At, IInv, PendingPublish, Request
<1> HIDE DEF q, m
<1>5. req' \in [Reqs -> Request] /\ req'[r] = q /\ \A s \in Reqs : s # r => req'[s] = req[s]
  BY <1>1, <1>2, <1>3
<1>6. /\ bus' \in Seq([id : EventIds \cup {Fresh}, seq : Nat, kind : Kinds])
      /\ DOMAIN bus' = 1 .. Len(bus) + 1
      /\ \A k \in DOMAIN bus : bus'[k] = bus[k]
      /\ bus'[Len(bus) + 1] = m
  BY <1>1, <1>2, <1>4
<1>7. TypeOK' /\ Gapless' /\ StoredOnce'
  BY <1>2, <1>5, <1>6 DEF IInv, TypeOK, Gapless, StoredOnce
<1>8. AnswersNameTheRow'
  BY <1>2, <1>3, <1>4, <1>5 DEF IInv, AnswersNameTheRow
<1>9. PendingNumber' /\ PendingPublish'
  BY <1>2, <1>3, <1>5 DEF IInv, PendingNumber, PendingPublish, At
<1>10. LostNumber' /\ Unanswered'
  BY <1>2, <1>3, <1>5 DEF IInv, LostNumber, Unanswered, At
<1>11. PublishedRow'
  <2> SUFFICES ASSUME NEW k \in DOMAIN bus', bus'[k].kind # "notice"
               PROVE  bus'[k].seq \in DOMAIN log /\ log[bus'[k].seq].id = bus'[k].id
    BY <1>2 DEF PublishedRow
  <2>1. CASE k \in DOMAIN bus
    BY <1>6, <2>1 DEF IInv, PublishedRow
  <2>2. CASE k = Len(bus) + 1
    BY <1>4, <1>6, <2>2
  <2> QED
    BY <1>1, <1>6, <2>1, <2>2
<1> QED
  BY <1>7, <1>8, <1>9, <1>10, <1>11 DEF IInv

LEMMA NextIInv == IInv /\ [Next]_vars => IInv'
<1> SUFFICES ASSUME IInv, [Next]_vars PROVE IInv'
  OBVIOUS
<1> USE FreshAssumption
<1>t. req \in [Reqs -> Request] /\ log \in Seq(RowType) /\ closed \in BOOLEAN
  BY DEF IInv, TypeOK
<1>l. /\ {"load", "check", "seq"} \subseteq Labels \ {"append", "publish", "done"}
      /\ {"refused", "invalid", "lost"} \subseteq Failures \ {"conflict"}
  BY DEF Labels, Failures
<1>n. NextSeq(log) = Len(log) + 1 /\ Len(log) \in Nat /\ DOMAIN log = 1 .. Len(log)
  BY <1>t, MaxSeqGapless DEF IInv, Gapless
<1>1. ASSUME NEW r \in Reqs, PostEvent(r) PROVE IInv'
  <2>1. PICK id \in EventIds, valid \in BOOLEAN :
          req' = [req EXCEPT ![r] = [Idle EXCEPT !.pc = "find", !.id = id, !.valid = valid]]
    BY <1>1 DEF PostEvent
  <2> DEFINE q == [Idle EXCEPT !.pc = "find", !.id = id, !.valid = valid]
  <2>2. q \in Request /\ q.pc = "find" /\ q.result = "none"
    BY DEF Idle, Request, Labels, Kinds, Results
  <2> HIDE DEF q
  <2> QED
    BY <1>1, <1>t, <2>1, <2>2, MoveRequest DEF PostEvent, q
<1>2. ASSUME NEW r \in Reqs, EmitEvent(r) PROVE IInv'
  <2>1. PICK made \in {"system", "notice"} :
          req' = [req EXCEPT ![r] = [Idle EXCEPT !.pc = "seq", !.kind = made]]
    BY <1>2 DEF EmitEvent
  <2> DEFINE q == [Idle EXCEPT !.pc = "seq", !.kind = made]
  <2>2. q \in Request /\ q.pc = "seq" /\ q.result = "none"
    BY DEF Idle, Request, Labels, Kinds, Results
  <2> HIDE DEF q
  <2> QED
    BY <1>2, <1>t, <2>1, <2>2, MoveRequest DEF EmitEvent, q
<1>3. ASSUME NEW r \in Reqs, Find(r) PROVE IInv'
  <2>1. CASE Known(log, req[r].id)
    <3>1. RowOf(log, req[r].id).seq \in DOMAIN log
          /\ log[RowOf(log, req[r].id).seq].id = req[r].id
      BY <1>t, <2>1, FoundRow DEF IInv, Gapless
    <3> QED
      BY <1>3, <1>t, <1>n, <2>1, <3>1, AcceptIInv DEF Find
  <2>2. CASE ~Known(log, req[r].id)
    BY <1>3, <1>l, <2>2, GotoIInv DEF Find, At
  <2> QED
    BY <2>1, <2>2
<1>4. ASSUME NEW r \in Reqs, Load(r) PROVE IInv'
  <2>1. CASE closed
    BY <1>4, <1>l, <2>1, FinishIInv DEF Load
  <2>2. CASE ~closed
    BY <1>4, <1>l, <2>2, GotoIInv DEF Load, At
  <2> QED
    BY <2>1, <2>2
<1>5. ASSUME NEW r \in Reqs, Check(r) PROVE IInv'
  <2>1. CASE Known(log, req[r].id)
    <3>1. RowOf(log, req[r].id).seq \in DOMAIN log
          /\ log[RowOf(log, req[r].id).seq].id = req[r].id
      BY <1>t, <2>1, FoundRow DEF IInv, Gapless
    <3> QED
      BY <1>5, <1>t, <1>n, <2>1, <3>1, AcceptIInv DEF Check
  <2>2. CASE ~Known(log, req[r].id) /\ req[r].valid
    BY <1>5, <1>l, <2>2, GotoIInv DEF Check, At
  <2>3. CASE ~Known(log, req[r].id) /\ ~req[r].valid
    BY <1>5, <1>l, <2>3, FinishIInv DEF Check
  <2> QED
    BY <2>1, <2>2, <2>3
<1>6. ASSUME NEW r \in Reqs, ReadSeq(r) PROVE IInv'
  <2> DEFINE label == IF req[r].kind = "notice" THEN "publish" ELSE "append"
             n == Len(log) + 1
             q == [req[r] EXCEPT !.seq = n, !.pc = label]
  <2>1. req' = [req EXCEPT ![r] = q]
    BY <1>6, <1>t, <1>n DEF ReadSeq
  <2>2. req[r] \in Request /\ req[r].result = "none"
    BY <1>6, <1>t DEF ReadSeq, At, IInv, Unanswered
  <2>3. label \in Labels /\ label # "done"
        /\ (req[r].kind = "notice" => label = "publish")
        /\ (req[r].kind # "notice" => label = "append")
    BY DEF Labels
  <2>n. n \in Nat /\ n \in 1 .. Len(log) + 1
    BY <1>n
  <2> HIDE DEF label, n
  <2>4. /\ q \in Request /\ q.result = "none" /\ q.kind = req[r].kind
        /\ q.seq = n /\ q.pc = label
    BY <2>n, <2>2, <2>3 DEF Request
  <2>5. /\ q.pc = "append" => q.kind # "notice" /\ q.seq \in 1 .. Len(log) + 1
        /\ ~(q.kind # "notice" /\ (q.pc = "publish" \/ q.result = "accepted"))
    BY <2>n, <2>3, <2>4
  <2> HIDE DEF q
  <2> QED
    BY <1>6, <1>t, <2>1, <2>3, <2>4, <2>5, MoveRequest DEF ReadSeq
<1>7. ASSUME NEW r \in Reqs, Store(r) PROVE IInv'
  BY <1>7, StoreIInv
<1>8. ASSUME NEW r \in Reqs, Publish(r) PROVE IInv'
  BY <1>8, PublishIInv
<1>9. ASSUME NEW r \in Reqs, Crash(r) PROVE IInv'
  BY <1>9, <1>l, FinishIInv DEF Crash
<1>10. CASE Close
  BY <1>10 DEF Close, IInv, TypeOK, Gapless, StoredOnce, AnswersNameTheRow, PendingNumber,
       PendingPublish, LostNumber, Unanswered, PublishedRow, At
<1>11. CASE UNCHANGED vars
  BY <1>11 DEF vars, IInv, TypeOK, Gapless, StoredOnce, AnswersNameTheRow, PendingNumber,
       PendingPublish, LostNumber, Unanswered, PublishedRow, At
<1> QED
  BY <1>1, <1>2, <1>3, <1>4, <1>5, <1>6, <1>7, <1>8, <1>9, <1>10, <1>11 DEF Next, Step

-----------------------------------------------------------------------------
LEMMA InvariantIInv == Spec => []IInv
<1> QED
  BY InitIInv, NextIInv, PTL DEF Spec

(* Every state is well typed, for any number of requests.                  *)
THEOREM TypeCorrect == Spec => []TypeOK
<1>1. IInv => TypeOK
  BY DEF IInv
<1> QED
  BY <1>1, InvariantIInv, PTL

(* The stored numbers are 1, 2, 3 ... whatever the interleaving of the     *)
(* next_seq and append transactions.                                       *)
THEOREM NumbersGapless == Spec => []Gapless
<1>1. IInv => Gapless
  BY DEF IInv
<1> QED
  BY <1>1, InvariantIInv, PTL

(* A client's id is stored at most once.                                   *)
THEOREM IdsStoredOnce == Spec => []StoredOnce
<1>1. IInv => StoredOnce
  BY DEF IInv
<1> QED
  BY <1>1, InvariantIInv, PTL

(* The number in an answer is the number of the row with the client's id.  *)
THEOREM AnswersCorrect == Spec => []AnswersNameTheRow
<1>1. IInv => AnswersNameTheRow
  BY DEF IInv
<1> QED
  BY <1>1, InvariantIInv, PTL

(* A rejected number was taken by a row.                                   *)
THEOREM ConflictsLostARace == Spec => []ConflictMeansProgress
<1>1. IInv => ConflictMeansProgress
  <2> SUFFICES ASSUME IInv, NEW r \in Reqs, req[r].result = "conflict"
               PROVE  SeqTaken(log, req[r].seq)
    BY DEF ConflictMeansProgress
  <2>1. req[r].seq \in DOMAIN log
    BY DEF IInv, LostNumber
  <2>2. log[req[r].seq].seq = req[r].seq
    BY <2>1 DEF IInv, Gapless
  <2> QED
    BY <2>1, <2>2 DEF SeqTaken, SeqsOf
<1> QED
  BY <1>1, InvariantIInv, PTL

(* A row that was stored is on the wire, or its request has yet to publish *)
(* it or was cut off.                                                      *)
Telling(r, i) == Names(req[r], i) /\ (At(r, "publish") \/ req[r].result = "lost")

StoredIsTold ==
  \A i \in DOMAIN log :
    (\E k \in DOMAIN bus : Names(bus[k], i)) \/ (\E r \in Reqs : Telling(r, i))

(* A request that has stored nothing, or has ended, speaks for no row.     *)
LEMMA OthersTell ==
  ASSUME IInv, StoredIsTold, NEW r \in Reqs, UNCHANGED <<log, bus>>,
         \A s \in Reqs : s # r => req'[s] = req[s],
         \A i \in DOMAIN log : Telling(r, i) => Telling(r, i)'
  PROVE  StoredIsTold'
<1> SUFFICES ASSUME NEW i \in DOMAIN log
             PROVE  \/ \E k \in DOMAIN bus : Names(bus[k], i)'
                    \/ \E s \in Reqs : Telling(s, i)'
  BY DEF StoredIsTold
<1>1. \A k \in DOMAIN bus : Names(bus[k], i) => Names(bus[k], i)'
  BY DEF Names
<1>2. \A s \in Reqs : Telling(s, i) => Telling(s, i)'
  BY DEF Telling, Names, At
<1> QED
  BY <1>1, <1>2 DEF StoredIsTold

LEMMA StoreTells ==
  ASSUME IInv, StoredIsTold, NEW r \in Reqs, Store(r) PROVE StoredIsTold'
<1> DEFINE row == Row(r)
<1>1. /\ req \in [Reqs -> Request] /\ req[r] \in Request /\ req[r].result = "none"
      /\ log \in Seq(RowType) /\ Len(log) \in Nat /\ DOMAIN log = 1 .. Len(log)
      /\ req[r].pc = "append" /\ req[r].kind # "notice" /\ req[r].seq \in 1 .. Len(log) + 1
  BY DEF Store, At, IInv, TypeOK, PendingNumber, Unanswered
<1>2. /\ \A s \in Reqs : s # r => req'[s] = req[s]
      /\ \A i \in DOMAIN log : ~Telling(r, i)
      /\ bus' = bus
  BY <1>1 DEF Store, Goto, Finish, Telling, At
<1>3. row \in RowType /\ row.seq = req[r].seq /\ row.id = req[r].id
  BY <1>1 DEF Row, Request, RowType
<1>4. AppendOutcome(log, row) = "stored" => row.seq = Len(log) + 1
  BY <1>1, <1>3, StoredAtEnd DEF IInv, Gapless
<1>5. CASE AppendOutcome(log, row) = "stored"
  <2>1. log' = Append(log, row) /\ req' = [req EXCEPT ![r].pc = "publish"]
    BY <1>5 DEF Store, Goto
  <2>2. /\ DOMAIN log' = 1 .. Len(log) + 1
        /\ \A i \in DOMAIN log : log'[i] = log[i]
        /\ log'[Len(log) + 1] = row
    BY <1>1, <1>3, <2>1
  <2>3. /\ req'[r].pc = "publish" /\ req'[r].seq = req[r].seq
        /\ req'[r].id = req[r].id /\ req'[r].kind = req[r].kind
    BY <1>1, <2>1 DEF Request
  <2> HIDE DEF row
  <2>4. \A i \in DOMAIN log' : i = Len(log) + 1 => Telling(r, i)'
    BY <1>1, <1>3, <1>4, <1>5, <2>2, <2>3 DEF Telling, Names, At
  <2>5. ASSUME NEW i \in DOMAIN log
        PROVE  \/ \E k \in DOMAIN bus : Names(bus[k], i)'
               \/ \E s \in Reqs : Telling(s, i)'
    <3>1. \A k \in DOMAIN bus : Names(bus[k], i) => Names(bus[k], i)'
      BY <1>2, <2>2 DEF Names
    <3>2. \A s \in Reqs : Telling(s, i) => Telling(s, i)'
      BY <1>2, <2>2 DEF Telling, Names, At
    <3> QED
      BY <3>1, <3>2 DEF StoredIsTold
  <2>6. \A i \in DOMAIN log' : i \in DOMAIN log \/ i = Len(log) + 1
    BY <1>1, <2>2
  <2>7. \A i \in DOMAIN log' :
          \/ \E k \in DOMAIN bus : Names(bus[k], i)'
          \/ \E s \in Reqs : Telling(s, i)'
    BY <2>4, <2>5, <2>6
  <2> QED
    BY <1>2, <2>7 DEF StoredIsTold
<1>6. CASE AppendOutcome(log, row) # "stored"
  <2>1. log' = log
    BY <1>6 DEF Store
  <2> QED
    BY <1>2, <2>1, OthersTell
<1> QED
  BY <1>5, <1>6

LEMMA PublishTells ==
  ASSUME IInv, StoredIsTold, NEW r \in Reqs, Publish(r) PROVE StoredIsTold'
<1> DEFINE m == [id |-> req[r].id, seq |-> req[r].seq, kind |-> req[r].kind]
<1>1. /\ req \in [Reqs -> Request] /\ req[r].pc = "publish" /\ req[r].result = "none"
      /\ bus \in Seq([id : EventIds \cup {Fresh}, seq : Nat, kind : Kinds])
      /\ Len(bus) \in Nat /\ DOMAIN bus = 1 .. Len(bus)
  BY DEF Publish, At, IInv, TypeOK, Unanswered
<1>2. /\ bus' = Append(bus, m) /\ log' = log
      /\ \A s \in Reqs : s # r => req'[s] = req[s]
  BY <1>1 DEF Publish, Accept
<1>3. /\ m.id = req[r].id /\ m.seq = req[r].seq /\ m.kind = req[r].kind
  OBVIOUS
<1>4. m \in [id : EventIds \cup {Fresh}, seq : Nat, kind : Kinds]
  <2>1. req[r] \in Request
    BY <1>1
  <2> QED
    BY <2>1 DEF Request
<1> HIDE DEF m
<1>5. /\ DOMAIN bus' = 1 .. Len(bus) + 1 /\ bus'[Len(bus) + 1] = m
      /\ \A k \in DOMAIN bus : bus'[k] = bus[k]
  BY <1>1, <1>2, <1>4
<1>6. ASSUME NEW i \in DOMAIN log
      PROVE  \/ \E k \in DOMAIN bus' : Names(bus[k], i)'
             \/ \E s \in Reqs : Telling(s, i)'
  <2>1. \A k \in DOMAIN bus : Names(bus[k], i) => k \in DOMAIN bus' /\ Names(bus[k], i)'
    BY <1>1, <1>2, <1>5 DEF Names
  <2>2. \A s \in Reqs \ {r} : Telling(s, i) => Telling(s, i)'
    BY <1>2 DEF Telling, Names, At
  <2>3. Telling(r, i) => \A k \in DOMAIN bus' : k = Len(bus) + 1 => Names(bus[k], i)'
    BY <1>1, <1>2, <1>3, <1>5 DEF Telling, Names
  <2>4. Len(bus) + 1 \in DOMAIN bus'
    BY <1>1, <1>5
  <2>5. Telling(r, i) => \E k \in DOMAIN bus' : Names(bus[k], i)'
    BY <2>3, <2>4
  <2> QED
    BY <2>1, <2>2, <2>5 DEF StoredIsTold
<1> QED
  BY <1>2, <1>6 DEF StoredIsTold

LEMMA NextTells == IInv /\ StoredIsTold /\ [Next]_vars => StoredIsTold'
<1> SUFFICES ASSUME IInv, StoredIsTold, [Next]_vars PROVE StoredIsTold'
  OBVIOUS
<1>1. ASSUME NEW r \in Reqs, PostEvent(r) \/ EmitEvent(r) \/ Find(r) \/ Load(r) \/ Check(r) \/ ReadSeq(r)
      PROVE  StoredIsTold'
  <2>1. req[r].pc \notin {"publish", "done"} /\ req[r].result = "none" /\ UNCHANGED <<log, bus>>
    BY <1>1 DEF PostEvent, EmitEvent, Find, Load, Check, ReadSeq, At, IInv, Unanswered
  <2>2. \A s \in Reqs : s # r => req'[s] = req[s]
    BY <1>1 DEF IInv, TypeOK, PostEvent, EmitEvent, Find, Load, Check, ReadSeq, Accept, Goto, Finish
  <2>3. \A i \in DOMAIN log : ~Telling(r, i)
    BY <2>1 DEF Telling, At
  <2> QED
    BY <2>1, <2>2, <2>3, OthersTell
<1>2. ASSUME NEW r \in Reqs, Crash(r) PROVE StoredIsTold'
  <2>1. /\ UNCHANGED <<log, bus>> /\ \A s \in Reqs : s # r => req'[s] = req[s]
        /\ req'[r].result = "lost" /\ req'[r].id = req[r].id
        /\ req'[r].seq = req[r].seq /\ req'[r].kind = req[r].kind
    BY <1>2 DEF Crash, Finish, IInv, TypeOK, Request
  <2>2. \A i \in DOMAIN log : Telling(r, i) => Telling(r, i)'
    BY <2>1 DEF Telling, Names
  <2> QED
    BY <2>1, <2>2, OthersTell
<1>3. ASSUME UNCHANGED <<log, bus, req>> PROVE StoredIsTold'
  BY <1>3 DEF StoredIsTold, Telling, Names, At
<1> QED
  BY <1>1, <1>2, <1>3, StoreTells, PublishTells DEF Next, Step, Close, vars

(* What was published, notices apart, can be caught up with; and what was  *)
(* stored is published, unless its request has yet to do so or was cut off. *)
THEOREM PublishedStored == Spec => []PublishedIsStored
<1>1. Init => StoredIsTold
  BY DEF Init, StoredIsTold
<1>2. IInv /\ StoredIsTold => PublishedIsStored
  BY DEF IInv, PublishedIsStored, PublishedRow, Gapless, StoredIsTold, Telling, Names
<1> QED
  BY <1>1, <1>2, NextTells, InvariantIInv, PTL DEF Spec

-----------------------------------------------------------------------------
(* The store implements the log of EventLog.                               *)

LEMMA InitRefines == Init => Promise!Init
<1> SUFFICES ASSUME Init PROVE Promise!Init
  OBVIOUS
<1>1. \A r \in Reqs : req[r].result = "none"
  BY DEF Init, Idle
<1>2. Acks = {}
  BY <1>1 DEF Acks
<1>3. Ids = <<>>
  BY DEF Init, Ids
<1> QED
  BY <1>2, <1>3 DEF Promise!Init

(* Moving a request without answering it changes nothing a client sees.    *)
LEMMA SilentMove ==
  ASSUME IInv, NEW r \in Reqs, NEW q,
         req' = [req EXCEPT ![r] = q], log' = log,
         q.result # "accepted" \/ q.kind = "notice",
         req[r].result = "none"
  PROVE  UNCHANGED <<Ids, Acks>>
<1>1. req'[r] = q /\ \A s \in Reqs : s # r => req'[s] = req[s]
  BY DEF IInv, TypeOK
<1>2. Acks' = Acks
  BY <1>1 DEF Acks
<1>3. Ids' = Ids
  BY DEF Ids
<1> QED
  BY <1>2, <1>3

(* An answer is an Ack of the row it names.                                *)
LEMMA AcceptRefines ==
  ASSUME IInv, NEW r \in Reqs, NEW seq \in Nat, ~At(r, "done"),
         req[r].kind # "notice" => seq \in DOMAIN log /\ log[seq].id = req[r].id,
         Accept(r, seq), log' = log
  PROVE  [Promise!Next]_(Promise!vars)
<1> DEFINE q == [req[r] EXCEPT !.pc = "done", !.result = "accepted", !.seq = seq]
<1>1. req \in [Reqs -> Request] /\ req[r] \in Request /\ req[r].result = "none"
  BY DEF IInv, TypeOK, Unanswered
<1>2. req' = [req EXCEPT ![r] = q]
  BY <1>1 DEF Accept
<1>3. q.result = "accepted" /\ q.seq = seq /\ q.id = req[r].id /\ q.kind = req[r].kind
  BY <1>1 DEF Request
<1> HIDE DEF q
<1>4. req'[r] = q /\ \A s \in Reqs : s # r => req'[s] = req[s]
  BY <1>1, <1>2
<1>5. Ids' = Ids
  BY DEF Ids
<1>6. CASE req[r].kind = "notice"
  BY <1>1, <1>2, <1>3, <1>6, SilentMove DEF Promise!vars
<1>7. CASE req[r].kind # "notice"
  <2>1. seq \in DOMAIN Ids /\ Ids[seq] = req[r].id
    BY <1>7 DEF Ids
  <2>2. Acks' = Acks \cup {[id |-> req[r].id, seq |-> seq]}
    BY <1>1, <1>3, <1>4, <1>7 DEF Acks
  <2>3. Promise!Ack(seq)
    BY <1>5, <2>1, <2>2 DEF Promise!Ack
  <2> QED
    BY <2>1, <2>3 DEF Promise!Next
<1> QED
  BY <1>6, <1>7

LEMMA StoreRefines ==
  ASSUME IInv, NEW r \in Reqs, Store(r)
  PROVE  [Promise!Next]_(Promise!vars)
<1> DEFINE row == Row(r)
<1>1. /\ req \in [Reqs -> Request] /\ req[r] \in Request /\ req[r].result = "none"
      /\ log \in Seq(RowType) /\ Len(log) \in Nat /\ DOMAIN log = 1 .. Len(log)
      /\ req[r].seq \in 1 .. Len(log) + 1
  BY DEF Store, At, IInv, TypeOK, PendingNumber, Unanswered
<1>2. row \in RowType /\ row.seq = req[r].seq /\ row.id = req[r].id
  BY <1>1 DEF Row, Request, RowType, IInv, PendingNumber
<1> HIDE DEF row
<1>3. /\ AppendOutcome(log, row) = "stored" => ~IdTaken(log, row.id)
      /\ AppendOutcome(log, row) \in {"stored", "conflict", "duplicate"}
  BY <1>1, <1>2, StoredAtEnd DEF IInv, Gapless
<1>4. CASE AppendOutcome(log, row) = "stored"
  <2> DEFINE q == [req[r] EXCEPT !.pc = "publish"]
  <2>1. log' = Append(log, row) /\ req' = [req EXCEPT ![r] = q]
    BY <1>1, <1>4 DEF Store, Goto, row
  <2>2. q.result = "none"
    BY <1>1 DEF Request
  <2> HIDE DEF q
  <2>3. req'[r] = q /\ \A s \in Reqs : s # r => req'[s] = req[s]
    BY <1>1, <2>1
  <2>4. Acks' = Acks
    BY <1>1, <2>2, <2>3 DEF Acks
  <2>5. /\ DOMAIN Ids = 1 .. Len(log) /\ Len(Ids) = Len(log)
        /\ Ids \in Seq(EventIds \cup {Fresh})
        /\ \A i \in 1 .. Len(log) : Ids[i] = log[i].id
    <3>0. \A i \in 1 .. Len(log) : log[i] \in RowType
      BY <1>1
    <3>1. \A i \in 1 .. Len(log) : log[i].id \in EventIds \cup {Fresh}
      BY <3>0 DEF RowType
    <3>2. Ids = [i \in 1 .. Len(log) |-> log[i].id]
      BY <1>1 DEF Ids
    <3>3. Ids \in Seq(EventIds \cup {Fresh})
      BY <1>1, <3>1, <3>2
    <3>4. DOMAIN Ids = 1 .. Len(log) /\ \A i \in 1 .. Len(log) : Ids[i] = log[i].id
      BY <3>2
    <3> QED
      BY <1>1, <3>3, <3>4
  <2>6. Ids' = Append(Ids, row.id)
    BY <1>1, <1>2, <2>1, <2>5 DEF Ids
  <2>7. row.id \in EventIds \cup {Fresh}
    BY <1>2 DEF RowType
  <2>8. row.id = Fresh \/ ~Promise!Recorded(row.id)
    BY <1>1, <1>3, <1>4, <2>5 DEF IdTaken, Known, Promise!Recorded
  <2>9. Promise!Record(row.id)
    BY <2>4, <2>6, <2>8 DEF Promise!Record
  <2> QED
    BY <2>7, <2>9 DEF Promise!Next
<1>5. CASE AppendOutcome(log, row) # "stored"
  <2> DEFINE q == [req[r] EXCEPT !.pc = "done", !.result = AppendOutcome(log, row)]
  <2>1. log' = log /\ req' = [req EXCEPT ![r] = q]
    BY <1>1, <1>5 DEF Store, Finish, row
  <2>2. q.result # "accepted"
    BY <1>1, <1>3 DEF Request
  <2> HIDE DEF q
  <2> QED
    BY <1>1, <2>1, <2>2, SilentMove DEF Promise!vars
<1> QED
  BY <1>4, <1>5

LEMMA NextRefines == IInv /\ [Next]_vars => [Promise!Next]_(Promise!vars)
<1> SUFFICES ASSUME IInv, [Next]_vars PROVE [Promise!Next]_(Promise!vars)
  OBVIOUS
<1>t. req \in [Reqs -> Request] /\ log \in Seq(RowType)
      /\ DOMAIN log = 1 .. Len(log) /\ Len(log) \in Nat
      /\ \A i \in DOMAIN log : log[i].seq = i
  BY DEF IInv, TypeOK, Gapless
<1>u. ASSUME NEW r \in Reqs, ~At(r, "done") PROVE req[r].result = "none" /\ req[r] \in Request
  BY <1>t, <1>u DEF IInv, Unanswered
<1>f. ASSUME NEW r \in Reqs, ~At(r, "done"), NEW result \in Failures, Finish(r, result), log' = log
      PROVE  UNCHANGED <<Ids, Acks>>
  <2> DEFINE q == [req[r] EXCEPT !.pc = "done", !.result = result]
  <2>1. req' = [req EXCEPT ![r] = q]
    BY <1>t, <1>f DEF Finish
  <2>2. q.result # "accepted"
    BY <1>f, <1>u DEF Request, Failures
  <2> HIDE DEF q
  <2> QED
    BY <1>f, <1>u, <2>1, <2>2, SilentMove
<1>g. ASSUME NEW r \in Reqs, ~At(r, "done"), NEW label, Goto(r, label), log' = log
      PROVE  UNCHANGED <<Ids, Acks>>
  <2> DEFINE q == [req[r] EXCEPT !.pc = label]
  <2>1. req' = [req EXCEPT ![r] = q]
    BY <1>t, <1>g DEF Goto
  <2>2. q.result = "none"
    BY <1>g, <1>u DEF Request
  <2> HIDE DEF q
  <2> QED
    BY <1>g, <1>u, <2>1, <2>2, SilentMove
<1>k. {"refused", "invalid", "lost"} \subseteq Failures
  BY DEF Failures
<1>1. ASSUME NEW r \in Reqs, PostEvent(r) PROVE UNCHANGED <<Ids, Acks>>
  <2>1. PICK id \in EventIds, valid \in BOOLEAN :
          req' = [req EXCEPT ![r] = [Idle EXCEPT !.pc = "find", !.id = id, !.valid = valid]]
    BY <1>1 DEF PostEvent
  <2> DEFINE q == [Idle EXCEPT !.pc = "find", !.id = id, !.valid = valid]
  <2>2. q.result # "accepted" /\ req[r].result = "none"
    BY <1>1, <1>u DEF Idle, PostEvent, At
  <2> HIDE DEF q
  <2> QED
    BY <1>1, <2>1, <2>2, SilentMove DEF PostEvent, q
<1>2. ASSUME NEW r \in Reqs, EmitEvent(r) PROVE UNCHANGED <<Ids, Acks>>
  <2>1. PICK made \in {"system", "notice"} :
          req' = [req EXCEPT ![r] = [Idle EXCEPT !.pc = "seq", !.kind = made]]
    BY <1>2 DEF EmitEvent
  <2> DEFINE q == [Idle EXCEPT !.pc = "seq", !.kind = made]
  <2>2. q.result # "accepted" /\ req[r].result = "none"
    BY <1>2, <1>u DEF Idle, EmitEvent, At
  <2> HIDE DEF q
  <2> QED
    BY <1>2, <2>1, <2>2, SilentMove DEF EmitEvent, q
<1>3. ASSUME NEW r \in Reqs, Find(r) PROVE [Promise!Next]_(Promise!vars)
  <2>1. CASE Known(log, req[r].id)
    <3>1. RowOf(log, req[r].id).seq \in DOMAIN log
          /\ log[RowOf(log, req[r].id).seq].id = req[r].id
      BY <1>t, <2>1, FoundRow
    <3> QED
      BY <1>3, <1>t, <2>1, <3>1, AcceptRefines DEF Find, At
  <2>2. CASE ~Known(log, req[r].id)
    BY <1>3, <1>g, <2>2 DEF Find, At, Promise!vars
  <2> QED
    BY <2>1, <2>2
<1>4. ASSUME NEW r \in Reqs, Load(r) PROVE UNCHANGED <<Ids, Acks>>
  BY <1>4, <1>f, <1>g, <1>k DEF Load, At
<1>5. ASSUME NEW r \in Reqs, Check(r) PROVE [Promise!Next]_(Promise!vars)
  <2>1. CASE Known(log, req[r].id)
    <3>1. RowOf(log, req[r].id).seq \in DOMAIN log
          /\ log[RowOf(log, req[r].id).seq].id = req[r].id
      BY <1>t, <2>1, FoundRow
    <3> QED
      BY <1>5, <1>t, <2>1, <3>1, AcceptRefines DEF Check, At
  <2>2. CASE ~Known(log, req[r].id)
    BY <1>5, <1>f, <1>g, <1>k, <2>2 DEF Check, At, Promise!vars
  <2> QED
    BY <2>1, <2>2
<1>6. ASSUME NEW r \in Reqs, ReadSeq(r) PROVE UNCHANGED <<Ids, Acks>>
  <2> DEFINE q == [req[r] EXCEPT !.seq = NextSeq(log),
                     !.pc = IF req[r].kind = "notice" THEN "publish" ELSE "append"]
  <2>1. req' = [req EXCEPT ![r] = q]
    BY <1>6, <1>t DEF ReadSeq
  <2>2. req[r].result = "none" /\ req[r] \in Request
    BY <1>6, <1>u DEF ReadSeq, At
  <2>3. q.result = "none"
    BY <2>2 DEF Request
  <2> HIDE DEF q
  <2> QED
    BY <1>6, <2>1, <2>2, <2>3, SilentMove DEF ReadSeq
<1>7. ASSUME NEW r \in Reqs, Store(r) PROVE [Promise!Next]_(Promise!vars)
  BY <1>7, StoreRefines
<1>8. ASSUME NEW r \in Reqs, Publish(r) PROVE [Promise!Next]_(Promise!vars)
  <2>1. /\ req[r].seq \in Nat /\ ~At(r, "done") /\ Accept(r, req[r].seq) /\ log' = log
        /\ req[r].kind # "notice" => req[r].seq \in DOMAIN log /\ log[req[r].seq].id = req[r].id
    BY <1>8, <1>t DEF Publish, At, IInv, PendingPublish, Request
  <2> QED
    BY <2>1, AcceptRefines
<1>9. ASSUME NEW r \in Reqs, Crash(r) PROVE UNCHANGED <<Ids, Acks>>
  BY <1>9, <1>f, <1>k DEF Crash
<1>10. CASE Close
  BY <1>10 DEF Close, Ids, Acks, Promise!vars
<1>11. CASE UNCHANGED vars
  BY <1>11 DEF vars, Ids, Acks, Promise!vars
<1> QED
  BY <1>1, <1>2, <1>3, <1>4, <1>5, <1>6, <1>7, <1>8, <1>9, <1>10, <1>11
  DEF Next, Step, Promise!vars

(* Every behaviour of the store is a behaviour of the append-only log: ids *)
(* of clients are recorded once, in an order that never changes, and every *)
(* answer names the place of its event.                                    *)
THEOREM StoreImplementsLog == Spec => Implements
<1>1. Init => Promise!Init
  BY InitRefines
<1>2. IInv /\ [Next]_vars => [Promise!Next]_(Promise!vars)
  BY NextRefines
<1> QED
  BY <1>1, <1>2, InvariantIInv, PTL DEF Spec, Implements, Promise!Spec

(* Every answer of the store, acceptance or conflict, is true of the table. *)
THEOREM AnswersTrue == Spec => []AnswersAreTrue
<1>1. AnswersNameTheRow /\ ConflictMeansProgress => AnswersAreTrue
  BY DEF AnswersAreTrue
<1> QED
  BY AnswersCorrect, ConflictsLostARace, <1>1, PTL

-----------------------------------------------------------------------------
(* From the bus to those who follow the session.  Shape: types, and where  *)
(* a connection and an event are in their lives.                           *)
Connected  == {"subscribe", "first", "replay", "send", "live", "leave"}
Subscribed == Connected \ {"subscribe"}

PubShape ==
  /\ kind \in {"memory", "redis"} /\ stored \in 0 .. MaxEvents
  /\ pub \in [Numbers -> Publisher]
  /\ \A p \in Numbers : PubAt(p, "idle") <=> p > stored

ConnShape ==
  /\ conn \in [Conns -> Connection]
  /\ \A c \in Conns : conn[c].items \subseteq 1 .. stored
  /\ managed = {c \in Conns : conn[c].pc \in Connected}
  /\ subs = {c \in Conns : conn[c].pc \in Subscribed}

ShownShape == last \in 0 .. stored /\ shown \subseteq Conns \X (1 .. stored)

RedisShape ==
  /\ listener \in [Insts -> {"off", "joining", "on", "dead"}]
  /\ inbox \in [Insts -> Seq(Numbers)]
  /\ built \in [Insts -> [Numbers -> Nat]]

SocketShape == PubShape /\ ConnShape /\ ShownShape /\ RedisShape

LEMMA InitShape == SocketInit => SocketShape
<1> SUFFICES ASSUME SocketInit PROVE SocketShape
  OBVIOUS
<1>1. Home \in Insts /\ MaxEvents \in Nat
  BY HomeAssumption, BoundAssumption
<1>2. PubShape
  <2>1. [pc |-> "idle", inst |-> Home, left |-> {}] \in Publisher
    BY <1>1 DEF Publisher, PubLabels
  <2> QED
    BY <1>1, <2>1 DEF SocketInit, PubShape, PubAt, Numbers
<1>3. ConnShape
  <2>1. [pc |-> "idle", net |-> "none", since |-> 0, items |-> {}, ended |-> FALSE,
         beat |-> "off"] \in Connection
    BY DEF Connection, ConnLabels, Nets
  <2> QED
    BY <2>1 DEF SocketInit, ConnShape, Connected, Subscribed
<1>4. ShownShape
  BY DEF SocketInit, ShownShape
<1>5. RedisShape
  BY DEF SocketInit, RedisShape
<1> QED
  BY <1>2, <1>3, <1>4, <1>5 DEF SocketShape

(* A publisher moves on.                                                   *)
Moves(p, pc, left) ==
  /\ pub' \in [Numbers -> Publisher]
  /\ \A e \in Numbers : pub'[e].inst = pub[e].inst
  /\ \A e \in Numbers : e # p => pub'[e] = pub[e]
  /\ pub'[p].pc = pc /\ pub'[p].left = left

LEMMA PubMoves ==
  ASSUME PubShape, NEW p \in Numbers, NEW pc \in PubLabels, NEW left \in SUBSET Conns,
         pub' = [pub EXCEPT ![p].pc = pc, ![p].left = left]
  PROVE  Moves(p, pc, left)
  BY DEF PubShape, Publisher, Moves

LEMMA PubGoes ==
  ASSUME PubShape, NEW p \in Numbers, NEW pc \in PubLabels, PubGoto(p, pc)
  PROVE  Moves(p, pc, pub[p].left)
  BY DEF PubShape, Publisher, Moves, PubGoto

(* What a step of a publisher can be. *)
LEMMA PublisherSteps ==
  ASSUME PubShape, ConnShape, NEW p \in Numbers, PublishOn(p) \/ CrashPublisher(p)
  PROVE  /\ pub[p].pc \in {"publish", "join", "redis", "local", "deliver", "build"}
         /\ \E pc \in PubLabels \ {"idle", "publish"} : \E left \in SUBSET Conns :
              Moves(p, pc, left)
         /\ UNCHANGED <<kind, stored, connVars>>
<1>1. pub[p].left \in SUBSET Conns /\ pub[p].pc \in PubLabels
  BY DEF PubShape, Publisher
<1>2. CASE Copy(p)
  <2> DEFINE pc == IF subs = {} THEN "build" ELSE "deliver"
  <2>1. pc \in PubLabels \ {"idle", "publish"} /\ subs \in SUBSET Conns
    BY DEF PubLabels, ConnShape
  <2>2. Moves(p, pc, subs)
    BY <1>2, <2>1, PubMoves DEF Copy
  <2> QED
    BY <1>2, <2>1, <2>2 DEF Copy, PubAt
<1>3. ASSUME pub' = Failing(p) PROVE Moves(p, "failed", {})
  BY <1>3, PubMoves DEF Failing, PubLabels
<1>4. CASE Deliver(p)
  <2>1. PubAt(p, "deliver") /\ UNCHANGED <<kind, stored, connVars>>
    BY <1>4 DEF Deliver
  <2>2. CASE pub' = Failing(p)
    BY <1>3, <2>1, <2>2 DEF PubAt, PubLabels
  <2>3. ASSUME NEW c \in pub[p].left,
               pub' = [pub EXCEPT ![p].left = @ \ {c},
                                  ![p].pc = IF pub[p].left = {c} THEN "build" ELSE @]
        PROVE  Moves(p, IF pub[p].left = {c} THEN "build" ELSE "deliver", pub[p].left \ {c})
    BY <1>1, <2>1, <2>3 DEF PubShape, Publisher, PubLabels, Moves, PubAt
  <2>4. CASE \E c \in pub[p].left :
               pub' = [pub EXCEPT ![p].left = @ \ {c},
                                  ![p].pc = IF pub[p].left = {c} THEN "build" ELSE @]
    BY <1>1, <2>1, <2>3, <2>4 DEF PubAt, PubLabels
  <2> QED
    BY <1>4, <2>2, <2>4 DEF Deliver
<1>5. CASE Build(p)
  <2>1. PubAt(p, "build") /\ UNCHANGED <<kind, stored, connVars>>
    BY <1>5 DEF Build
  <2>2. PubGoto(p, "done") => Moves(p, "done", pub[p].left)
    BY PubGoes DEF PubLabels
  <2> QED
    BY <1>1, <1>3, <1>5, <2>1, <2>2 DEF Build, PubAt, PubLabels
<1>6. CASE EnsureRedis(p) \/ Join(p) \/ RedisPublish(p)
  <2>1. \A pc \in {"join", "redis", "build"} : PubGoto(p, pc) => Moves(p, pc, pub[p].left)
    BY PubGoes DEF PubLabels
  <2> QED
    BY <1>1, <1>6, <2>1 DEF EnsureRedis, Join, RedisPublish, PubAt, PubLabels
<1>7. CASE CrashPublisher(p)
  <2>1. pub[p].pc \in {"publish", "join", "redis", "local", "deliver", "build"}
    BY <1>1, <1>7 DEF CrashPublisher, Running, PubLabels
  <2> QED
    BY <1>3, <1>7, <2>1 DEF CrashPublisher, PubLabels
<1> QED
  BY <1>2, <1>4, <1>5, <1>6, <1>7 DEF PublishOn

LEMMA PublisherShape ==
  ASSUME SocketShape, NEW p \in Numbers, PublishOn(p) \/ CrashPublisher(p)
  PROVE  SocketShape'
<1>1. PubShape /\ ConnShape /\ ShownShape /\ RedisShape
  BY DEF SocketShape
<1>2. PICK pc \in PubLabels \ {"idle", "publish"}, left \in SUBSET Conns : Moves(p, pc, left)
  BY <1>1, PublisherSteps
<1>3. UNCHANGED <<kind, stored, connVars>> /\ pub[p].pc # "idle"
  BY <1>1, PublisherSteps
<1>4. PubShape'
  BY <1>1, <1>2, <1>3 DEF PubShape, Moves, PubAt
<1>5. ConnShape'
  BY <1>1, <1>3 DEF ConnShape, connVars
<1>6. ShownShape'
  <2>1. CASE Deliver(p)
    <3>1. p \in 1 .. stored /\ stored \in Nat
      BY <1>1, <1>3 DEF PubShape, PubAt, Numbers
    <3>2. \A c \in pub[p].left : c \in Conns
      BY <1>1 DEF PubShape, Publisher
    <3>3. last' \in {last, Max2(last, p)} /\ (shown' = shown \/ \E c \in Conns : shown' = shown \cup {<<c, p>>})
      BY <2>1, <3>2 DEF Deliver
    <3>4. Max2(last, p) \in 0 .. stored
      BY <1>1, <3>1 DEF ShownShape, Max2
    <3> QED
      BY <1>1, <1>3, <3>1, <3>3, <3>4 DEF ShownShape
  <2>2. CASE ~Deliver(p)
    BY <1>1, <1>3, <2>2 DEF ShownShape, PublishOn, CrashPublisher, Copy, Build, EnsureRedis, Join,
       RedisPublish
  <2> QED
    BY <2>1, <2>2
<1>7. RedisShape'
  <2>1. pub[p].inst \in Insts
    BY <1>1 DEF PubShape, Publisher
  <2>2. CASE EnsureRedis(p)
    BY <1>1, <2>1, <2>2 DEF RedisShape, EnsureRedis
  <2>3. CASE Join(p)
    BY <1>1, <2>1, <2>3 DEF RedisShape, Join
  <2>4. CASE RedisPublish(p)
    <3>1. \A i \in Insts : inbox[i] \in Seq(Numbers) /\ Append(inbox[i], p) \in Seq(Numbers)
      BY <1>1 DEF RedisShape
    <3>2. inbox' \in [Insts -> Seq(Numbers)]
      BY <2>4, <3>1 DEF RedisPublish
    <3> QED
      BY <1>1, <2>4, <3>2 DEF RedisShape, RedisPublish
  <2>5. CASE Build(p)
    <3>1. built' = [built EXCEPT ![pub[p].inst][p] = @ + 1] /\ UNCHANGED redisVars
      BY <2>5 DEF Build
    <3> QED
      BY <1>1, <2>1, <3>1 DEF RedisShape, redisVars
  <2>6. CASE Copy(p) \/ Deliver(p) \/ CrashPublisher(p)
    BY <1>1, <2>6 DEF RedisShape, Copy, Deliver, CrashPublisher, redisVars
  <2> QED
    BY <2>2, <2>3, <2>4, <2>5, <2>6 DEF PublishOn
<1> QED
  BY <1>4, <1>5, <1>6, <1>7 DEF SocketShape

LEMMA StoreMoves ==
  ASSUME PubShape, NEW p \in Numbers, StoreEvent(p)
  PROVE  /\ pub' \in [Numbers -> Publisher] /\ pub'[p].pc = "publish"
         /\ \A e \in Numbers : e # p => pub'[e] = pub[e]
         /\ stored \in Nat /\ p = stored + 1 /\ stored' = p
         /\ UNCHANGED <<kind, connVars, last, shown, redisVars, built>>
<1>1. PICK i \in Insts : pub' = [pub EXCEPT ![p] = [@ EXCEPT !.pc = "publish", !.inst = i]]
  BY HomeAssumption DEF StoreEvent
<1> DEFINE q == [pub[p] EXCEPT !.pc = "publish", !.inst = i]
<1>2. q \in Publisher /\ q.pc = "publish"
  BY DEF PubShape, Publisher, PubLabels
<1>3. pub' = [pub EXCEPT ![p] = q]
  BY <1>1
<1> HIDE DEF q
<1> QED
  BY <1>2, <1>3 DEF PubShape, StoreEvent

LEMMA StoreShape ==
  ASSUME SocketShape, NEW p \in Numbers, StoreEvent(p) PROVE SocketShape'
<1>1. PubShape /\ ConnShape /\ ShownShape /\ RedisShape
  BY DEF SocketShape
<1>2. /\ pub' \in [Numbers -> Publisher] /\ pub'[p].pc = "publish"
      /\ \A e \in Numbers : e # p => pub'[e] = pub[e]
      /\ stored \in Nat /\ p = stored + 1 /\ stored' = p
      /\ UNCHANGED <<kind, connVars, last, shown, redisVars, built>>
  BY <1>1, StoreMoves
<1>3. PubShape'
  BY <1>1, <1>2 DEF PubShape, PubAt, Numbers
<1>4. 1 .. stored \subseteq 1 .. stored' /\ 0 .. stored \subseteq 0 .. stored'
  BY <1>2
<1>5. ConnShape'
  BY <1>1, <1>2, <1>4 DEF ConnShape, connVars
<1>6. ShownShape'
  BY <1>1, <1>2, <1>4 DEF ShownShape
<1> QED
  BY <1>1, <1>2, <1>3, <1>5, <1>6 DEF SocketShape, RedisShape, redisVars

LEMMA ListenShape ==
  ASSUME SocketShape, NEW i \in Insts, Listen(i) PROVE SocketShape'
<1>1. PubShape /\ ConnShape /\ ShownShape /\ RedisShape
  BY DEF SocketShape
<1>2. inbox[i] \in Seq(Numbers) /\ inbox[i] # <<>>
  BY <1>1 DEF Listen, RedisShape
<1>3. Head(inbox[i]) \in Numbers /\ Tail(inbox[i]) \in Seq(Numbers)
  BY <1>2
<1>4. inbox' \in [Insts -> Seq(Numbers)] /\ built' \in [Insts -> [Numbers -> Nat]]
  BY <1>1, <1>3 DEF Listen, RedisShape
<1>5. listener' \in [Insts -> {"off", "joining", "on", "dead"}]
  BY <1>1 DEF Listen, RedisShape
<1> QED
  BY <1>1, <1>4, <1>5 DEF Listen, SocketShape, PubShape, ConnShape, ShownShape, RedisShape,
     connVars, PubAt

(* A connection moves on.                                                  *)
ConnBecomes(c, q) ==
  /\ conn' \in [Conns -> Connection] /\ conn'[c] = q
  /\ \A d \in Conns : d # c => conn'[d] = conn[d]

LEMMA ConnMoves ==
  ASSUME ConnShape, NEW c \in Conns, NEW q \in Connection, conn' = [conn EXCEPT ![c] = q]
  PROVE  ConnBecomes(c, q)
  BY DEF ConnShape, ConnBecomes

(* It stays where it is, with the bus and the manager.                     *)
LEMMA ConnMovesShape ==
  ASSUME SocketShape, NEW c \in Conns, NEW q, ConnBecomes(c, q),
         q.items \subseteq 1 .. stored,
         managed' = IF q.pc \in Connected THEN managed \cup {c} ELSE managed \ {c},
         subs' = IF q.pc \in Subscribed THEN subs \cup {c} ELSE subs \ {c},
         ShownShape', UNCHANGED <<kind, stored, pub, redisVars, built>>
  PROVE  SocketShape'
<1>1. ConnShape'
  <2>1. \A d \in Conns : conn'[d].items \subseteq 1 .. stored
    BY DEF SocketShape, ConnShape, ConnBecomes
  <2>2. managed' = {d \in Conns : conn'[d].pc \in Connected}
    BY DEF SocketShape, ConnShape, ConnBecomes
  <2>3. subs' = {d \in Conns : conn'[d].pc \in Subscribed}
    BY DEF SocketShape, ConnShape, ConnBecomes
  <2> QED
    BY <2>1, <2>2, <2>3 DEF ConnShape, ConnBecomes
<1> QED
  BY <1>1 DEF SocketShape, PubShape, RedisShape, PubAt, redisVars

(* What a step of a connection can be: it is placed with the bus and the   *)
(* manager, and the app keeps what it was shown on the others.             *)
Placed(c, q) ==
  /\ q \in Connection /\ ConnBecomes(c, q) /\ q.items \subseteq 1 .. stored
  /\ managed' = IF q.pc \in Connected THEN managed \cup {c} ELSE managed \ {c}
  /\ subs' = IF q.pc \in Subscribed THEN subs \cup {c} ELSE subs \ {c}
  /\ ShownShape'
  /\ \A s \in shown : s[1] # c => s \in shown'
  /\ UNCHANGED <<kind, stored, pub, redisVars, built>>

(* It is heard of on an open connection only, from the replay on.          *)
Hears(q) == q.pc \in {"send", "live"} /\ q.net = "open" /\ ~q.ended

Replayed(q) == {e \in 1 .. stored : e > q.since /\ e <= q.since + ReplayLimit}

StillHears(c, q) ==
  /\ q.since = conn[c].since
  /\ \/ conn[c].pc = "replay" /\ q.pc = "send" /\ q.items = Replayed(q) /\ c \in subs
     \/ /\ Hears(conn[c]) /\ q.pc = "live" /\ shown \subseteq shown'
        /\ conn[c].pc = "send" => \A e \in conn[c].items : <<c, e>> \in shown'

Follows(c) ==
  \E q : Placed(c, q) /\ (Hears(q) => StillHears(c, q))

LEMMA InPlace ==
  ASSUME ConnShape, NEW c \in Conns, NEW pc, 
         conn[c].pc \in Connected <=> pc \in Connected,
         conn[c].pc \in Subscribed <=> pc \in Subscribed
  PROVE  /\ managed = IF pc \in Connected THEN managed \cup {c} ELSE managed \ {c}
         /\ subs = IF pc \in Subscribed THEN subs \cup {c} ELSE subs \ {c}
<1>1. c \in managed <=> pc \in Connected
  BY DEF ConnShape
<1>2. c \in subs <=> pc \in Subscribed
  BY DEF ConnShape
<1> QED
  BY <1>1, <1>2

LEMMA OpenFollows ==
  ASSUME SocketShape, NEW c \in Conns, Open(c) \/ Drop(c) \/ Reject(c) PROVE Follows(c)
<1>1. ConnShape /\ ShownShape /\ conn[c] \in Connection /\ last \in Nat
      /\ conn[c].items \subseteq 1 .. stored
  BY DEF SocketShape, ConnShape, ShownShape
<1>2. CASE Open(c)
  <2> DEFINE q == [conn[c] EXCEPT !.pc = "auth", !.net = "open", !.since = last]
  <2>1. q \in Connection /\ q.items \subseteq 1 .. stored /\ q.pc = "auth"
    BY <1>1 DEF Connection, ConnLabels, Nets
  <2>2. conn' = [conn EXCEPT ![c] = q]
    BY <1>2 DEF Open
  <2> HIDE DEF q
  <2>3. ConnBecomes(c, q)
    BY <1>1, <2>1, <2>2, ConnMoves
  <2>4. /\ managed = IF q.pc \in Connected THEN managed \cup {c} ELSE managed \ {c}
        /\ subs = IF q.pc \in Subscribed THEN subs \cup {c} ELSE subs \ {c}
    BY <1>1, <1>2, <2>1, InPlace DEF Open, ConnAt, Connected, Subscribed
  <2>5. Placed(c, q)
    BY <1>1, <1>2, <2>1, <2>3, <2>4 DEF Placed, Open, ShownShape
  <2> QED
    BY <2>1, <2>5 DEF Follows, Hears
<1>3. CASE Drop(c)
  <2>1. PICK net \in {"closed", "gone"} : conn' = [conn EXCEPT ![c].net = net]
    BY <1>3 DEF Drop
  <2> DEFINE q == [conn[c] EXCEPT !.net = net]
  <2>2. q \in Connection /\ q.items \subseteq 1 .. stored /\ q.pc = conn[c].pc /\ q.net # "open"
    BY <1>1 DEF Connection, Nets
  <2>3. conn' = [conn EXCEPT ![c] = q]
    BY <2>1
  <2> HIDE DEF q
  <2>4. ConnBecomes(c, q)
    BY <1>1, <2>2, <2>3, ConnMoves
  <2>5. /\ managed = IF q.pc \in Connected THEN managed \cup {c} ELSE managed \ {c}
        /\ subs = IF q.pc \in Subscribed THEN subs \cup {c} ELSE subs \ {c}
    BY <1>1, <2>2, InPlace
  <2>6. Placed(c, q)
    BY <1>1, <1>3, <2>2, <2>4, <2>5 DEF Placed, Drop, ShownShape
  <2> QED
    BY <2>2, <2>6 DEF Follows, Hears
<1>4. CASE Reject(c)
  <2> DEFINE q == Over(c)
  <2>1. q \in Connection /\ q.items \subseteq 1 .. stored /\ q.pc = "done"
    BY <1>1 DEF Connection, ConnLabels, Nets, Over
  <2>2. conn' = [conn EXCEPT ![c] = q]
    BY <1>4 DEF Reject
  <2> HIDE DEF q
  <2>3. ConnBecomes(c, q)
    BY <1>1, <2>1, <2>2, ConnMoves
  <2>4. /\ managed = IF q.pc \in Connected THEN managed \cup {c} ELSE managed \ {c}
        /\ subs = IF q.pc \in Subscribed THEN subs \cup {c} ELSE subs \ {c}
    BY <1>1, <1>4, <2>1, InPlace DEF Reject, ConnAt, Connected, Subscribed
  <2>5. Placed(c, q)
    BY <1>1, <1>4, <2>1, <2>3, <2>4 DEF Placed, Reject, ShownShape
  <2> QED
    BY <2>1, <2>5 DEF Follows, Hears
<1> QED
  BY <1>2, <1>3, <1>4

LEMMA ConnLeaves ==
  ASSUME ConnShape, NEW c \in Conns, conn' = [conn EXCEPT ![c].pc = "leave", ![c].ended = TRUE]
  PROVE  \E q \in Connection : ConnBecomes(c, q) /\ q.pc = "leave" /\ q.items = conn[c].items
<1> DEFINE q == [conn[c] EXCEPT !.pc = "leave", !.ended = TRUE]
<1>1. q \in Connection /\ q.pc = "leave" /\ q.items = conn[c].items
  BY DEF ConnShape, Connection, ConnLabels
<1>2. conn' = [conn EXCEPT ![c] = q]
  OBVIOUS
<1> HIDE DEF q
<1> QED
  BY <1>1, <1>2, ConnMoves

LEMMA ConnGoes ==
  ASSUME ConnShape, NEW c \in Conns, NEW pc \in ConnLabels, ConnGoto(c, pc)
  PROVE  \E q \in Connection :
           /\ ConnBecomes(c, q) /\ q.pc = pc /\ q.items = conn[c].items /\ q.since = conn[c].since
           /\ q.ended = conn[c].ended /\ q.net = conn[c].net
<1> DEFINE q == [conn[c] EXCEPT !.pc = pc]
<1>1. /\ q \in Connection /\ q.pc = pc /\ q.items = conn[c].items /\ q.since = conn[c].since
      /\ q.ended = conn[c].ended /\ q.net = conn[c].net
  BY DEF ConnShape, Connection
<1>2. conn' = [conn EXCEPT ![c] = q]
  BY DEF ConnGoto
<1> HIDE DEF q
<1> QED
  BY <1>1, <1>2, ConnMoves

LEMMA SubscribeFollows ==
  ASSUME SocketShape, NEW c \in Conns,
         Connect(c) \/ Subscribe(c) \/ First(c) \/ Disconnected(c)
  PROVE  Follows(c)
<1>1. ConnShape /\ ShownShape /\ conn[c] \in Connection
      /\ conn[c].items \subseteq 1 .. stored
  BY DEF SocketShape, ConnShape
<1>2. UNCHANGED <<kind, stored, pub, last, shown, redisVars, built>>
  BY DEF Connect, Subscribe, First, Disconnected
<1>3. PICK q \in Connection :
        /\ ConnBecomes(c, q) /\ q.items = conn[c].items
        /\ q.pc = IF Connect(c) THEN "subscribe" ELSE IF Subscribe(c) THEN "first" ELSE q.pc
        /\ ~Connect(c) /\ ~Subscribe(c) => q.pc \in {"replay", "leave"}
  <2>1. CASE Connect(c)
    BY <1>1, <2>1, ConnGoes DEF Connect, ConnLabels
  <2>2. CASE Subscribe(c)
    <3>1. ~Connect(c)
      BY <2>2 DEF Subscribe, Connect, ConnAt
    <3> QED
      BY <1>1, <2>2, <3>1, ConnGoes DEF Subscribe, ConnLabels
  <2>3. CASE First(c) \/ Disconnected(c)
    <3>1. ~Connect(c) /\ ~Subscribe(c)
      BY <2>3 DEF First, Disconnected, Subscribe, Connect, ConnAt
    <3>2. \/ ConnGoto(c, "replay") \/ ConnGoto(c, "leave")
          \/ conn' = [conn EXCEPT ![c].pc = "leave", ![c].ended = TRUE]
      BY <2>3 DEF First, Disconnected
    <3>3. ASSUME conn' = [conn EXCEPT ![c].pc = "leave", ![c].ended = TRUE]
          PROVE  \E q \in Connection : ConnBecomes(c, q) /\ q.items = conn[c].items /\ q.pc = "leave"
      BY <1>1, <3>3, ConnLeaves
    <3>4. ASSUME NEW pc \in {"replay", "leave"}, ConnGoto(c, pc)
          PROVE  \E q \in Connection : ConnBecomes(c, q) /\ q.items = conn[c].items /\ q.pc = pc
      BY <1>1, <3>4, ConnGoes DEF ConnLabels
    <3> QED
      BY <3>1, <3>2, <3>3, <3>4
  <2> QED
    BY <2>1, <2>2, <2>3
<1>4. /\ managed' = IF q.pc \in Connected THEN managed \cup {c} ELSE managed \ {c}
      /\ subs' = IF q.pc \in Subscribed THEN subs \cup {c} ELSE subs \ {c}
  <2>1. CASE Connect(c)
    <3>1. c \notin subs
      BY <1>1, <2>1 DEF Connect, ConnShape, ConnAt, Subscribed, Connected
    <3> QED
      BY <1>3, <2>1, <3>1 DEF Connect, Connected, Subscribed
  <2>2. CASE Subscribe(c)
    <3>1. c \in managed /\ ~Connect(c)
      BY <1>1, <2>2 DEF Subscribe, Connect, ConnShape, ConnAt, Connected
    <3> QED
      BY <1>3, <2>2, <3>1 DEF Subscribe, Connected, Subscribed
  <2>3. CASE First(c) \/ Disconnected(c)
    <3>1. ~Connect(c) /\ ~Subscribe(c) /\ UNCHANGED <<managed, subs>>
      BY <2>3 DEF First, Disconnected, Subscribe, Connect, ConnAt
    <3>2. conn[c].pc \in Subscribed /\ conn[c].pc \in Connected /\ q.pc \in Subscribed /\ q.pc \in Connected
      BY <1>3, <2>3, <3>1 DEF First, Disconnected, ConnAt, Connected, Subscribed
    <3> QED
      BY <1>1, <3>1, <3>2, InPlace
  <2> QED
    BY <2>1, <2>2, <2>3
<1>5. Placed(c, q)
  BY <1>1, <1>2, <1>3, <1>4 DEF Placed, ShownShape
<1> QED
  BY <1>3, <1>5 DEF Follows, Hears

LEMMA ReplayFollows ==
  ASSUME SocketShape, NEW c \in Conns, Replay(c) PROVE Follows(c)
<1>1. /\ ConnShape /\ ShownShape /\ conn[c] \in Connection /\ conn[c].pc = "replay"
      /\ stored \in Nat /\ 1 .. stored \subseteq Numbers
  BY BoundAssumption DEF SocketShape, ConnShape, PubShape, Replay, ConnAt, Numbers
<1> DEFINE q == [conn[c] EXCEPT !.pc = "send", !.items = Replayed(conn[c])]
<1>2. /\ q \in Connection /\ q.pc = "send" /\ q.items = Replayed(conn[c])
      /\ q.since = conn[c].since /\ q.net = conn[c].net /\ q.ended = conn[c].ended
  BY <1>1 DEF Connection, ConnLabels, Replayed
<1>3. conn' = [conn EXCEPT ![c] = q]
  BY DEF Replay, Replayed
<1> HIDE DEF q
<1>4. ConnBecomes(c, q)
  BY <1>1, <1>2, <1>3, ConnMoves
<1>5. /\ managed = IF q.pc \in Connected THEN managed \cup {c} ELSE managed \ {c}
      /\ subs = IF q.pc \in Subscribed THEN subs \cup {c} ELSE subs \ {c}
  BY <1>1, <1>2, InPlace DEF Connected, Subscribed
<1>6. Placed(c, q)
  BY <1>1, <1>2, <1>4, <1>5 DEF Placed, Replay, ShownShape, Replayed
<1>7. c \in subs /\ Replayed(q) = Replayed(conn[c])
  BY <1>1, <1>2 DEF ConnShape, Subscribed, Connected, Replayed
<1> QED
  BY <1>1, <1>2, <1>6, <1>7 DEF Follows, StillHears

LEMMA TheOnly ==
  ASSUME NEW S \in SUBSET Numbers, Cardinality(S) = 1
  PROVE  (CHOOSE e \in S : TRUE) \in S
<1>1. S # {}
  BY FS_EmptySet
<1> QED
  BY <1>1

LEMMA SendFollows ==
  ASSUME SocketShape, NEW c \in Conns, Send(c) PROVE Follows(c)
<1>1. /\ ConnShape /\ ShownShape /\ conn[c] \in Connection /\ conn[c].pc = "send"
      /\ conn[c].items \subseteq 1 .. stored /\ conn[c].items \in SUBSET Numbers
      /\ stored \in Nat /\ last \in 0 .. stored
  BY DEF SocketShape, ConnShape, PubShape, ShownShape, Send, ConnAt, Connection
<1>2. \A pc \in {"live", "leave"} :
        /\ managed = IF pc \in Connected THEN managed \cup {c} ELSE managed \ {c}
        /\ subs = IF pc \in Subscribed THEN subs \cup {c} ELSE subs \ {c}
  BY <1>1, InPlace DEF Connected, Subscribed
<1>3. UNCHANGED <<kind, stored, pub, subs, managed, redisVars, built>>
  BY DEF Send
<1>4. CASE /\ conn' = [conn EXCEPT ![c].pc = "live", ![c].items = {}, ![c].beat = "wait"]
           /\ IF conn[c].net = "open"
              THEN /\ shown' = shown \cup {<<c, e>> : e \in conn[c].items}
                   /\ last' = IF Cardinality(conn[c].items) = 1
                              THEN Max2(last, CHOOSE e \in conn[c].items : TRUE) ELSE last
              ELSE UNCHANGED <<shown, last>>
  <2> DEFINE q == [conn[c] EXCEPT !.pc = "live", !.items = {}, !.beat = "wait"]
  <2>1. /\ q \in Connection /\ q.pc = "live" /\ q.items = {} /\ q.since = conn[c].since
        /\ q.net = conn[c].net /\ q.ended = conn[c].ended
    BY <1>1 DEF Connection, ConnLabels
  <2>2. conn' = [conn EXCEPT ![c] = q]
    BY <1>4
  <2> HIDE DEF q
  <2>3. ConnBecomes(c, q)
    BY <1>1, <2>1, <2>2, ConnMoves
  <2>4. ShownShape' /\ shown \subseteq shown'
        /\ (conn[c].net = "open" => \A e \in conn[c].items : <<c, e>> \in shown')
    <3>1. Cardinality(conn[c].items) = 1 =>
            Max2(last, CHOOSE e \in conn[c].items : TRUE) \in 0 .. stored
      <4> DEFINE e == CHOOSE e \in conn[c].items : TRUE
      <4>1. Cardinality(conn[c].items) = 1 => e \in conn[c].items
        BY <1>1, TheOnly
      <4> HIDE DEF e
      <4>2. Cardinality(conn[c].items) = 1 => Max2(last, e) \in 0 .. stored
        BY <1>1, <4>1 DEF Max2
      <4> QED
        BY <4>2 DEF e
    <3>2. last' \in 0 .. stored
      BY <1>1, <1>4, <3>1
    <3>3. shown \subseteq shown' /\ shown' \subseteq Conns \X (1 .. stored)
          /\ (conn[c].net = "open" => \A e \in conn[c].items : <<c, e>> \in shown')
      BY <1>1, <1>4 DEF ShownShape
    <3> QED
      BY <1>3, <3>2, <3>3 DEF ShownShape
  <2>5. Placed(c, q)
    BY <1>2, <1>3, <2>1, <2>3, <2>4 DEF Placed
  <2> QED
    BY <1>1, <2>1, <2>4, <2>5 DEF Follows, Hears, StillHears
<1>5. CASE conn' = [conn EXCEPT ![c].pc = "leave", ![c].items = {}] /\ UNCHANGED <<shown, last>>
  <2> DEFINE q == [conn[c] EXCEPT !.pc = "leave", !.items = {}]
  <2>1. q \in Connection /\ q.pc = "leave" /\ q.items = {}
    BY <1>1 DEF Connection, ConnLabels
  <2>2. conn' = [conn EXCEPT ![c] = q]
    BY <1>5
  <2> HIDE DEF q
  <2>3. ConnBecomes(c, q)
    BY <1>1, <2>1, <2>2, ConnMoves
  <2>4. Placed(c, q)
    BY <1>1, <1>2, <1>3, <1>5, <2>1, <2>3 DEF Placed, ShownShape
  <2> QED
    BY <2>1, <2>4 DEF Follows, Hears
<1> QED
  BY <1>4, <1>5 DEF Send

(* The heartbeat may close the connection, but opens none. *)
LEMMA BeatFollows ==
  ASSUME SocketShape, NEW c \in Conns, Ping(c) \/ Pong(c) \/ CheckPong(c) PROVE Follows(c)
<1>1. /\ ConnShape /\ ShownShape /\ conn[c] \in Connection /\ conn[c].pc = "live"
      /\ conn[c].items \subseteq 1 .. stored
  BY DEF SocketShape, ConnShape, Ping, Pong, CheckPong, ConnAt
<1>2. UNCHANGED <<kind, stored, pub, subs, managed, last, shown, redisVars, built>>
  BY DEF Ping, Pong, CheckPong
<1>3. \E beat \in {"off", "wait", "asked", "answered"} : \E net \in {conn[c].net, "closed"} :
        \E ended \in {conn[c].ended, TRUE} :
          conn' = [conn EXCEPT ![c] =
                     [conn[c] EXCEPT !.beat = beat, !.net = net, !.ended = ended]]
  <2> DEFINE Beats(beat, net, ended) ==
               [conn[c] EXCEPT !.beat = beat, !.net = net, !.ended = ended]
  <2>1. \A beat : [conn[c] EXCEPT !.beat = beat] = Beats(beat, conn[c].net, conn[c].ended)
    BY <1>1 DEF Connection
  <2>2. [conn[c] EXCEPT !.beat = "off", !.net = "closed"] = Beats("off", "closed", conn[c].ended)
    BY <1>1 DEF Connection
  <2>3. [conn[c] EXCEPT !.beat = "off", !.ended = TRUE] = Beats("off", conn[c].net, TRUE)
    BY <1>1 DEF Connection
  <2>4. \/ \E beat \in {"asked", "answered", "wait"} :
             conn' = [conn EXCEPT ![c] = [conn[c] EXCEPT !.beat = beat]]
        \/ conn' = [conn EXCEPT ![c] = [conn[c] EXCEPT !.beat = "off", !.net = "closed"]]
        \/ conn' = [conn EXCEPT ![c] = [conn[c] EXCEPT !.beat = "off", !.ended = TRUE]]
    BY DEF Ping, Pong, CheckPong
  <2> HIDE DEF Beats
  <2>5. \/ \E beat \in {"asked", "answered", "wait"} :
             conn' = [conn EXCEPT ![c] = Beats(beat, conn[c].net, conn[c].ended)]
        \/ conn' = [conn EXCEPT ![c] = Beats("off", "closed", conn[c].ended)]
        \/ conn' = [conn EXCEPT ![c] = Beats("off", conn[c].net, TRUE)]
    BY <2>1, <2>2, <2>3, <2>4
  <2> QED
    BY <2>5 DEF Beats
<1>4. PICK beat \in {"off", "wait", "asked", "answered"}, net \in {conn[c].net, "closed"},
           ended \in {conn[c].ended, TRUE} :
        conn' = [conn EXCEPT ![c] =
                   [conn[c] EXCEPT !.beat = beat, !.net = net, !.ended = ended]]
  BY <1>3
<1> DEFINE q == [conn[c] EXCEPT !.beat = beat, !.net = net, !.ended = ended]
<1>5. /\ q \in Connection /\ q.pc = "live" /\ q.items = conn[c].items /\ q.since = conn[c].since
      /\ q.net \in {conn[c].net, "closed"} /\ q.ended \in {conn[c].ended, TRUE}
  BY <1>1 DEF Connection, Nets
<1> HIDE DEF q
<1>6. ConnBecomes(c, q)
  BY <1>1, <1>4, <1>5, ConnMoves DEF q
<1>7. /\ managed = IF q.pc \in Connected THEN managed \cup {c} ELSE managed \ {c}
      /\ subs = IF q.pc \in Subscribed THEN subs \cup {c} ELSE subs \ {c}
  BY <1>1, <1>5, InPlace
<1>8. Placed(c, q)
  BY <1>1, <1>2, <1>5, <1>6, <1>7 DEF Placed, ShownShape
<1>9. Hears(q) => StillHears(c, q)
  BY <1>1, <1>2, <1>5 DEF Hears, StillHears
<1> QED
  BY <1>8, <1>9 DEF Follows

LEMMA LeaveFollows ==
  ASSUME SocketShape, NEW c \in Conns, Leave(c) PROVE Follows(c)
<1>1. ConnShape /\ ShownShape /\ conn[c] \in Connection
  BY DEF SocketShape, ConnShape
<1> DEFINE q == Over(c)
<1>2. q \in Connection /\ q.items \subseteq 1 .. stored /\ q.pc = "done"
  BY <1>1 DEF Connection, ConnLabels, Nets, Over
<1>3. conn' = [conn EXCEPT ![c] = q]
  BY DEF Leave
<1> HIDE DEF q
<1>4. ConnBecomes(c, q)
  BY <1>1, <1>2, <1>3, ConnMoves
<1>5. Placed(c, q)
  BY <1>1, <1>2, <1>4 DEF Placed, Leave, ShownShape, Connected, Subscribed
<1> QED
  BY <1>2, <1>5 DEF Follows, Hears

LEMMA ConnectionFollows ==
  ASSUME SocketShape, NEW c \in Conns, Open(c) \/ Drop(c) \/ Pong(c) \/ Serve(c) \/ Beat(c)
  PROVE  Follows(c)
  BY OpenFollows, SubscribeFollows, ReplayFollows, SendFollows, BeatFollows, LeaveFollows
     DEF Serve, Beat

LEMMA NextShape == SocketShape /\ [SocketNext]_socketVars => SocketShape'
<1> SUFFICES ASSUME SocketShape, [SocketNext]_socketVars PROVE SocketShape'
  OBVIOUS
<1>1. CASE UNCHANGED socketVars
  BY <1>1 DEF socketVars, connVars, redisVars, SocketShape, PubShape, ConnShape, ShownShape,
     RedisShape, PubAt
<1>2. ASSUME NEW c \in Conns, Follows(c) PROVE SocketShape'
  BY <1>2, ConnMovesShape DEF Follows, Placed
<1> QED
  BY <1>1, <1>2, PublisherShape, StoreShape, ListenShape, ConnectionFollows DEF SocketNext

LEMMA SocketShapeHolds == SocketSpec => []SocketShape
  BY InitShape, NextShape, PTL DEF SocketSpec

(* Every state is well typed; the bus has handlers of connections of the   *)
(* manager only, and nobody was shown an event that is not stored.         *)
THEOREM SocketTypeCorrect == SocketSpec => []SocketTypeOK
<1>1. SocketShape => SocketTypeOK
  BY DEF SocketShape, PubShape, ConnShape, ShownShape, RedisShape, SocketTypeOK, Connected, Subscribed
<1> QED
  BY <1>1, SocketShapeHolds, PTL

-----------------------------------------------------------------------------
(* Covered: from the replay on, what an open connection has not shown is   *)
(* in the batch that is about to be sent, or beyond it, or its publisher   *)
(* has not come to it.                                                     *)
Awaits(c, e) ==
  \/ pub[e].pc \in {"publish", "failed"}
  \/ pub[e].pc = "deliver" /\ c \in pub[e].left

Knows(c, e) ==
  \/ <<c, e>> \in shown
  \/ conn[c].pc = "send" /\ e \in conn[c].items
  \/ e > conn[c].since + ReplayLimit
  \/ Awaits(c, e)

Covered ==
  kind = "memory" =>
    \A c \in Conns : Hears(conn[c]) => \A e \in conn[c].since + 1 .. stored : Knows(c, e)

(* A publisher that goes on has told the connection, or has yet to.        *)
LEMMA StillAwaits ==
  ASSUME SocketShape, kind = "memory", NEW p \in Numbers, PublishOn(p) \/ CrashPublisher(p),
         NEW c \in Conns, Hears(conn[c])
  PROVE  /\ shown \subseteq shown'
         /\ \A e \in Numbers : Awaits(c, e) => Awaits(c, e)' \/ <<c, e>> \in shown'
<1>1. PubShape /\ ConnShape /\ conn[c].pc \in {"send", "live"}
  BY DEF SocketShape, Hears
<1>2. PICK pc \in PubLabels \ {"idle", "publish"}, left \in SUBSET Conns : Moves(p, pc, left)
  BY <1>1, PublisherSteps
<1>3. shown \subseteq shown'
  BY DEF PublishOn, CrashPublisher, Copy, Deliver, Build, EnsureRedis, Join, RedisPublish
<1>4. \A e \in Numbers : e # p => (Awaits(c, e) => Awaits(c, e)')
  BY <1>2 DEF Moves, Awaits
<1>5. Awaits(c, p) => Awaits(c, p)' \/ <<c, p>> \in shown'
  <2>1. ASSUME pub' = Failing(p) PROVE pub'[p].pc = "failed"
    BY <1>1, <2>1 DEF PubShape, Publisher, Failing
  <2>2. CASE Copy(p)
    <3>1. c \in subs
      BY <1>1 DEF ConnShape, Subscribed, Connected
    <3>2. pub'[p].pc = "deliver" /\ pub'[p].left = subs
      BY <1>1, <2>2, <3>1 DEF PubShape, Publisher, Copy
    <3> QED
      BY <3>1, <3>2 DEF Awaits
  <2>3. CASE Deliver(p)
    <3> DEFINE Told(d, outcome) ==
                 /\ pub' = IF outcome = "raised" THEN Failing(p)
                           ELSE [pub EXCEPT ![p].left = @ \ {d},
                                            ![p].pc = IF pub[p].left = {d} THEN "build" ELSE @]
                 /\ shown' = IF outcome = "got" THEN shown \cup {<<d, p>>} ELSE shown
    <3>0. PICK d \in pub[p].left : \E outcome \in Outcomes(d) : Told(d, outcome)
      BY <2>3 DEF Deliver
    <3>1. PICK outcome \in Outcomes(d) : Told(d, outcome)
      BY <3>0
    <3>2. CASE outcome = "raised"
      BY <2>1, <3>1, <3>2 DEF Awaits
    <3>3. CASE outcome # "raised" /\ d = c
      <4>1. outcome = "got"
        BY <1>1, <3>3 DEF Hears, Outcomes
      <4> QED
        BY <3>1, <3>3, <4>1
    <3>4. CASE outcome # "raised" /\ d # c
      <4>1. pub[p].pc = "deliver"
        BY <2>3 DEF Deliver, PubAt
      <4>2. c \in pub[p].left => /\ pub[p].left # {d} /\ c \in pub[p].left \ {d}
        BY <3>4
      <4>3. c \in pub[p].left => pub'[p].pc = "deliver" /\ c \in pub'[p].left
        BY <1>1, <3>1, <3>4, <4>1, <4>2 DEF PubShape, Publisher
      <4> QED
        BY <4>1, <4>3 DEF Awaits
    <3> QED
      BY <3>2, <3>3, <3>4
  <2>4. CASE CrashPublisher(p)
    BY <2>1, <2>4 DEF CrashPublisher, Awaits
  <2>5. CASE Build(p) \/ EnsureRedis(p) \/ Join(p) \/ RedisPublish(p)
    <3>1. ~Awaits(c, p)
      BY <2>5 DEF Build, EnsureRedis, Join, RedisPublish, PubAt, Awaits
    <3> QED
      BY <3>1
  <2> QED
    BY <2>2, <2>3, <2>4, <2>5 DEF PublishOn
<1> QED
  BY <1>3, <1>4, <1>5

LEMMA ConnectionCovers ==
  ASSUME SocketShape, Covered, kind = "memory", NEW c \in Conns, Follows(c) PROVE Covered'
<1>1. PICK q : Placed(c, q) /\ (Hears(q) => StillHears(c, q))
  BY DEF Follows
<1>2. /\ q \in Connection /\ conn'[c] = q /\ \A d \in Conns : d # c => conn'[d] = conn[d]
      /\ stored \in Nat /\ UNCHANGED <<kind, stored, pub>>
  BY <1>1 DEF Placed, ConnBecomes, SocketShape, PubShape
<1>3. ASSUME NEW d \in Conns, d # c, Hears(conn[d]), NEW e \in conn[d].since + 1 .. stored
      PROVE  Knows(d, e)'
  <2>1. Knows(d, e)
    BY <1>3 DEF Covered
  <2>2. <<d, e>> \in shown => <<d, e>> \in shown'
    BY <1>1, <1>3 DEF Placed
  <2> QED
    BY <1>2, <1>3, <2>1, <2>2 DEF Knows, Awaits
<1>4. ASSUME Hears(q), NEW e \in q.since + 1 .. stored PROVE Knows(c, e)'
  <2>1. StillHears(c, q)
    BY <1>1, <1>4
  <2>2. CASE conn[c].pc = "replay" /\ q.pc = "send" /\ q.items = Replayed(q)
    <3>1. q.since \in Nat /\ e \in 1 .. stored /\ e > q.since
      BY <1>2, <1>4 DEF Connection
    <3>2. e \in q.items \/ e > q.since + ReplayLimit
      BY <2>2, <3>1, BoundAssumption DEF Replayed
    <3> QED
      BY <1>2, <2>2, <3>2 DEF Knows
  <2>3. CASE /\ Hears(conn[c]) /\ q.pc = "live" /\ shown \subseteq shown'
             /\ conn[c].pc = "send" => \A i \in conn[c].items : <<c, i>> \in shown'
    <3>1. Knows(c, e) /\ q.since = conn[c].since
      BY <1>4, <2>1, <2>3 DEF Covered, StillHears
    <3> QED
      BY <1>2, <2>3, <3>1 DEF Knows, Awaits
  <2> QED
    BY <2>1, <2>2, <2>3 DEF StillHears
<1> QED
  BY <1>2, <1>3, <1>4 DEF Covered

LEMMA NextCovered == SocketShape /\ Covered /\ [SocketNext]_socketVars => Covered'
<1> SUFFICES ASSUME SocketShape, Covered, [SocketNext]_socketVars, kind' = "memory" PROVE Covered'
  BY DEF Covered
<1>1. kind = "memory"
  BY DEF SocketNext, socketVars, StoreEvent, PublishOn, CrashPublisher, Listen, Open, Drop, Pong, Serve,
     Beat, Copy, Deliver, Build, EnsureRedis, Join, RedisPublish, Reject, Connect, Subscribe, First,
     Replay, Send, Disconnected, Leave, Ping, CheckPong
<1>2. stored \in 0 .. MaxEvents /\ MaxEvents \in Nat /\ \A c \in Conns : conn[c].since \in Nat
  BY BoundAssumption DEF SocketShape, PubShape, ConnShape, Connection
<1>3. \A c \in Conns : \A e \in conn[c].since + 1 .. stored : e \in Numbers
  BY <1>2 DEF Numbers
<1>4. CASE UNCHANGED socketVars
  BY <1>4 DEF socketVars, connVars, Covered, Knows, Awaits, Hears
<1>5. ASSUME NEW p \in Numbers, PublishOn(p) \/ CrashPublisher(p) PROVE Covered'
  <2>1. UNCHANGED <<stored, conn>>
    BY <1>5, PublisherSteps DEF SocketShape, connVars
  <2> SUFFICES ASSUME NEW c \in Conns, Hears(conn[c]), NEW e \in conn[c].since + 1 .. stored
               PROVE  Knows(c, e)'
    BY <2>1 DEF Covered, Hears
  <2>2. Knows(c, e) /\ e \in Numbers
    BY <1>1, <1>3 DEF Covered
  <2> QED
    BY <1>1, <1>5, <2>1, <2>2, StillAwaits DEF Knows
<1>6. ASSUME NEW p \in Numbers, StoreEvent(p) PROVE Covered'
  <2>1. /\ pub'[p].pc = "publish" /\ \A e \in Numbers : e # p => pub'[e] = pub[e]
        /\ stored \in Nat /\ p = stored + 1 /\ stored' = p /\ UNCHANGED <<conn, shown>>
    BY <1>6, StoreMoves DEF SocketShape, connVars
  <2> SUFFICES ASSUME NEW c \in Conns, Hears(conn[c]), NEW e \in conn[c].since + 1 .. stored'
               PROVE  Knows(c, e)'
    BY <2>1 DEF Covered, Hears
  <2>2. CASE e = p
    BY <2>1, <2>2 DEF Knows, Awaits
  <2>3. CASE e # p
    <3>1. e \in conn[c].since + 1 .. stored
      BY <1>2, <2>1, <2>3
    <3>2. Knows(c, e) /\ e \in Numbers
      BY <1>1, <1>3, <3>1 DEF Covered
    <3> QED
      BY <2>1, <2>3, <3>2 DEF Knows, Awaits
  <2> QED
    BY <2>2, <2>3
<1>7. ASSUME NEW i \in Insts, Listen(i) PROVE Covered'
  BY <1>7 DEF Listen, connVars, Covered, Knows, Awaits, Hears
<1> QED
  BY <1>1, <1>4, <1>5, <1>6, <1>7, ConnectionFollows, ConnectionCovers DEF SocketNext

(* Replay and forwarding leave no gap, whatever is stored between them.    *)
THEOREM NothingIsMissed == SocketSpec => []NothingMissed
<1>1. SocketInit => Covered
  BY DEF SocketInit, Covered, Hears
<1>2. Covered => NothingMissed
  BY DEF Covered, NothingMissed, Hears, Knows, Awaits, ConnAt
<1> QED
  BY <1>1, <1>2, NextCovered, SocketShapeHolds, PTL DEF SocketSpec

-----------------------------------------------------------------------------
(* Heard: what a builder was called with, and what Redis still holds for   *)
(* it, are a PUBLISH that was made and the call of the publisher itself.   *)
InHand(i, e) == \E j \in DOMAIN inbox[i] : inbox[i][j] = e

Held(i, e) == IF InHand(i, e) THEN 1 ELSE 0
Sent(e)    == IF kind = "redis" /\ pub[e].pc \in {"build", "done", "failed"} THEN 1 ELSE 0
Own(i, e)  == IF i = pub[e].inst /\ pub[e].pc \in {"done", "failed"} THEN 1 ELSE 0

Bounded(i, e) == built[i][e] + Held(i, e) <= Sent(e) + Own(i, e)

Called(e) == PubAt(e, "done") => built[pub[e].inst][e] >= 1

HeldOnce(s) == \A j, k \in DOMAIN s : s[j] = s[k] => j = k

Heard ==
  /\ \A e \in Numbers : pub[e].pc \in {"join", "redis"} => kind = "redis"
  /\ \A e \in Numbers : Called(e) /\ \A i \in Insts : Bounded(i, e)
  /\ \A i \in Insts : HeldOnce(inbox[i])

LEMMA Appended ==
  ASSUME NEW s \in Seq(Numbers), NEW p \in Numbers
  PROVE  /\ DOMAIN Append(s, p) = 1 .. Len(s) + 1 /\ Len(s) \in Nat /\ DOMAIN s = 1 .. Len(s)
         /\ Append(s, p)[Len(s) + 1] = p
         /\ \A j \in DOMAIN s : Append(s, p)[j] = s[j]
  OBVIOUS

LEMMA Taken ==
  ASSUME NEW s \in Seq(Numbers), s # <<>>, HeldOnce(s)
  PROVE  /\ HeldOnce(Tail(s)) /\ 1 \in DOMAIN s /\ s[1] = Head(s)
         /\ \A j \in DOMAIN Tail(s) : j + 1 \in DOMAIN s /\ Tail(s)[j] = s[j + 1] /\ Tail(s)[j] # Head(s)
<1>1. /\ Len(s) \in Nat \ {0} /\ DOMAIN s = 1 .. Len(s) /\ Head(s) = s[1]
      /\ Tail(s) \in Seq(Numbers) /\ Len(Tail(s)) = Len(s) - 1
      /\ DOMAIN Tail(s) = 1 .. Len(s) - 1
      /\ \A j \in 1 .. Len(s) - 1 : Tail(s)[j] = s[j + 1]
  OBVIOUS
<1>2. \A j \in DOMAIN Tail(s) : j \in Nat /\ j + 1 \in DOMAIN s /\ Tail(s)[j] = s[j + 1] /\ j + 1 # 1
  BY <1>1
<1>3. \A j \in DOMAIN Tail(s) : s[j + 1] # s[1]
  BY <1>1, <1>2 DEF HeldOnce
<1>4. ASSUME NEW j \in DOMAIN Tail(s), NEW k \in DOMAIN Tail(s), Tail(s)[j] = Tail(s)[k]
      PROVE  j = k
  <2>1. j + 1 = k + 1
    BY <1>2, <1>4 DEF HeldOnce
  <2> QED
    BY <1>2, <2>1
<1> QED
  BY <1>1, <1>2, <1>3, <1>4 DEF HeldOnce

(* What a step that calls no builder and sends nothing leaves.             *)
LEMMA StaysBounded ==
  ASSUME PubShape, RedisShape, NEW e \in Numbers, NEW i \in Insts, Bounded(i, e),
         built'[i][e] = built[i][e], InHand(i, e)' => InHand(i, e), UNCHANGED kind,
         pub'[e].inst = pub[e].inst \/ pub[e].pc \notin {"done", "failed"},
         pub[e].pc \in {"build", "done", "failed"} =>
           pub'[e].pc \in {pub[e].pc, "done", "failed"},
         pub[e].pc \in {"done", "failed"} => pub'[e].pc = pub[e].pc
  PROVE  Bounded(i, e)'
<1>1. built[i][e] \in Nat
  BY DEF RedisShape
<1> QED
  BY <1>1 DEF Bounded, Held, Sent, Own

LEMMA PublisherHeard ==
  ASSUME SocketShape, Heard, NEW p \in Numbers, PublishOn(p) \/ CrashPublisher(p) PROVE Heard'
<1>1. /\ PubShape /\ ConnShape /\ RedisShape /\ pub[p] \in Publisher
      /\ pub[p].pc \in {"publish", "join", "redis", "local", "deliver", "build"}
      /\ UNCHANGED kind
  BY PublisherSteps DEF SocketShape, PubShape
<1>2. PICK pc \in PubLabels \ {"idle", "publish"}, left \in SUBSET Conns : Moves(p, pc, left)
  BY <1>1, PublisherSteps
<1>3. /\ \A e \in Numbers : pub'[e].inst = pub[e].inst
      /\ \A e \in Numbers : e # p => pub'[e] = pub[e]
  BY <1>2 DEF Moves
<1>4. /\ \A i \in Insts : inbox[i] \in Seq(Numbers) /\ \A e \in Numbers : built[i][e] \in Nat
      /\ pub[p].inst \in Insts
  BY <1>1 DEF RedisShape, Publisher
<1>5. ASSUME UNCHANGED <<inbox, built>>, pub[p].pc = "build" => pub'[p].pc = "failed",
             pub'[p].pc # "done", pub'[p].pc \in {"join", "redis"} => kind = "redis"
      PROVE  Heard'
  <2>1. ASSUME NEW e \in Numbers, NEW i \in Insts PROVE Bounded(i, e)'
    <3>1. Bounded(i, e) /\ built'[i][e] = built[i][e] /\ (InHand(i, e)' => InHand(i, e))
      BY <1>5 DEF Heard, InHand
    <3>2. CASE e = p
      BY <1>1, <1>3, <1>5, <3>1, <3>2, StaysBounded
    <3>3. CASE e # p
      BY <1>1, <1>3, <3>1, <3>3, StaysBounded
    <3> QED
      BY <3>2, <3>3
  <2>2. \A e \in Numbers : Called(e)'
    BY <1>3, <1>5 DEF Heard, Called, PubAt
  <2>3. \A e \in Numbers : pub'[e].pc \in {"join", "redis"} => kind' = "redis"
    BY <1>1, <1>3, <1>5 DEF Heard
  <2>4. \A i \in Insts : HeldOnce(inbox[i])'
    BY <1>5 DEF Heard, HeldOnce
  <2> QED
    BY <2>1, <2>2, <2>3, <2>4 DEF Heard
<1>6. \A label \in PubLabels : PubGoto(p, label) => pub'[p].pc = label
  BY <1>1, PubGoes DEF Moves
<1>7. pub' = Failing(p) => pub'[p].pc = "failed"
  BY <1>1 DEF PubShape, Publisher, Failing
<1>8. CASE Copy(p) \/ EnsureRedis(p) \/ Join(p) \/ CrashPublisher(p)
  <2>1. UNCHANGED <<inbox, built>>
    BY <1>8 DEF Copy, EnsureRedis, Join, CrashPublisher, redisVars
  <2>2. CASE Copy(p)
    <3>1. pub'[p].pc \in {"build", "deliver"} /\ pub[p].pc = "publish"
      BY <1>1, <2>2 DEF Copy, PubShape, PubAt, Publisher
    <3> QED
      BY <1>5, <2>1, <3>1
  <2>3. CASE EnsureRedis(p)
    <3>1. pub'[p].pc \in {"join", "redis"} /\ pub[p].pc = "publish" /\ kind = "redis"
      BY <1>6, <2>3 DEF EnsureRedis, PubAt, PubLabels
    <3> QED
      BY <1>5, <2>1, <3>1
  <2>4. CASE Join(p)
    <3>1. pub'[p].pc = "redis" /\ pub[p].pc = "join" /\ kind = "redis"
      BY <1>6, <2>4 DEF Join, PubAt, PubLabels, Heard
    <3> QED
      BY <1>5, <2>1, <3>1
  <2>5. CASE CrashPublisher(p)
    BY <1>5, <1>7, <2>1, <2>5 DEF CrashPublisher
  <2> QED
    BY <1>8, <2>2, <2>3, <2>4, <2>5
<1>9. CASE Deliver(p)
  <2>1. UNCHANGED <<inbox, built>> /\ pub[p].pc = "deliver"
    BY <1>9 DEF Deliver, redisVars, PubAt
  <2>2. \/ pub' = Failing(p)
        \/ \E d \in pub[p].left :
             pub' = [pub EXCEPT ![p].left = @ \ {d},
                                ![p].pc = IF pub[p].left = {d} THEN "build" ELSE @]
    BY <1>9 DEF Deliver
  <2>3. ASSUME NEW d \in pub[p].left,
               pub' = [pub EXCEPT ![p].left = @ \ {d},
                                  ![p].pc = IF pub[p].left = {d} THEN "build" ELSE @]
        PROVE  pub'[p].pc \in {"build", "deliver"}
    BY <1>1, <2>1, <2>3 DEF PubShape, Publisher
  <2>4. pub'[p].pc \in {"failed", "build", "deliver"}
    BY <1>7, <2>2, <2>3
  <2> QED
    BY <1>5, <2>1, <2>4
<1>10. CASE RedisPublish(p)
  <2>1. /\ pub[p].pc = "redis" /\ kind = "redis" /\ pub'[p].pc = "build" /\ UNCHANGED built
    BY <1>6, <1>10 DEF RedisPublish, PubAt, PubLabels, Heard
  <2>2. \A i \in Insts : ~InHand(i, p) /\ built[i][p] = 0
    <3> SUFFICES ASSUME NEW i \in Insts PROVE ~InHand(i, p) /\ built[i][p] = 0
      OBVIOUS
    <3>1. built[i][p] + Held(i, p) <= 0 /\ built[i][p] \in Nat
      BY <1>4, <2>1 DEF Heard, Bounded, Sent, Own
    <3> QED
      BY <3>1 DEF Held
  <2>3. \A i \in Insts : inbox'[i] \in {inbox[i], Append(inbox[i], p)}
    BY <1>10 DEF RedisPublish
  <2>4. ASSUME NEW e \in Numbers, NEW i \in Insts PROVE Bounded(i, e)'
    <3>1. CASE e = p
      <4>1. built'[i][p] = 0 /\ Sent(p)' = 1 /\ Own(i, p)' \in {0, 1}
        BY <1>1, <2>1, <2>2 DEF Sent, Own
      <4> QED
        BY <3>1, <4>1 DEF Bounded, Held
    <3>2. CASE e # p
      <4>1. InHand(i, e)' => InHand(i, e)
        <5>1. inbox[i] \in Seq(Numbers)
          BY <1>4
        <5>2. ASSUME NEW j \in DOMAIN Append(inbox[i], p), Append(inbox[i], p)[j] = e
              PROVE  InHand(i, e)
          BY <3>2, <5>1, <5>2, Appended DEF InHand
        <5> QED
          BY <2>3, <5>2 DEF InHand
      <4> QED
        BY <1>1, <1>3, <2>1, <3>2, <4>1, StaysBounded DEF Heard
    <3> QED
      BY <3>1, <3>2
  <2>5. \A e \in Numbers : Called(e)'
    BY <1>3, <2>1 DEF Heard, Called, PubAt
  <2>6. \A e \in Numbers : pub'[e].pc \in {"join", "redis"} => kind' = "redis"
    BY <1>1, <1>3, <2>1 DEF Heard
  <2>7. ASSUME NEW i \in Insts PROVE HeldOnce(inbox[i])'
    <3>1. inbox[i] \in Seq(Numbers) /\ HeldOnce(inbox[i])
      BY <1>4 DEF Heard
    <3>2. \A j \in DOMAIN inbox[i] : inbox[i][j] # p
      BY <2>2 DEF InHand
    <3> DEFINE s == Append(inbox[i], p)
    <3>3. ASSUME NEW j \in DOMAIN s, NEW k \in DOMAIN s, s[j] = s[k] PROVE j = k
      <4>1. /\ j \in DOMAIN inbox[i] \/ j = Len(inbox[i]) + 1
            /\ k \in DOMAIN inbox[i] \/ k = Len(inbox[i]) + 1
        BY <3>1, Appended
      <4>2. CASE j \in DOMAIN inbox[i] /\ k \in DOMAIN inbox[i]
        BY <3>1, <3>3, <4>2, Appended DEF HeldOnce
      <4>3. CASE j \in DOMAIN inbox[i] /\ k = Len(inbox[i]) + 1
        BY <3>1, <3>2, <3>3, <4>3, Appended
      <4>4. CASE k \in DOMAIN inbox[i] /\ j = Len(inbox[i]) + 1
        BY <3>1, <3>2, <3>3, <4>4, Appended
      <4> QED
        BY <4>1, <4>2, <4>3, <4>4
    <3>4. HeldOnce(s)
      BY <3>3 DEF HeldOnce
    <3>5. inbox'[i] = inbox[i] \/ inbox'[i] = s
      BY <2>3
    <3> HIDE DEF s
    <3> QED
      BY <3>1, <3>4, <3>5 DEF HeldOnce
  <2> QED
    BY <2>4, <2>5, <2>6, <2>7 DEF Heard
<1>11. CASE Build(p)
  <2> DEFINE i == pub[p].inst
  <2>1. /\ pub[p].pc = "build" /\ pub'[p].pc \in {"done", "failed"} /\ UNCHANGED inbox
    BY <1>6, <1>7, <1>11 DEF Build, PubAt, PubLabels, redisVars
  <2>2. /\ built'[i][p] = built[i][p] + 1
        /\ \A j \in Insts : \A e \in Numbers : j # i \/ e # p => built'[j][e] = built[j][e]
    BY <1>1, <1>4, <1>11 DEF Build, RedisShape
  <2>3. ASSUME NEW e \in Numbers, NEW j \in Insts PROVE Bounded(j, e)'
    <3>1. Bounded(j, e) /\ (InHand(j, e)' <=> InHand(j, e))
      BY <2>1 DEF Heard, InHand
    <3>2. CASE j = i /\ e = p
      <4>1. built'[j][e] = built[j][e] + 1 /\ built[j][e] \in Nat
        BY <1>4, <2>2, <3>2
      <4>2. Own(j, e) = 0 /\ Own(j, e)' = 1 /\ Sent(e)' = Sent(e) /\ Sent(e) \in {0, 1}
        BY <1>1, <1>3, <2>1, <3>2 DEF Own, Sent
      <4>3. Held(j, e)' = Held(j, e) /\ Held(j, e) \in {0, 1}
        BY <3>1 DEF Held
      <4>4. built[j][e] + Held(j, e) <= Sent(e) + Own(j, e)
        BY <3>1 DEF Bounded
      <4>5. built'[j][e] + Held(j, e)' <= Sent(e)' + Own(j, e)'
        BY <4>1, <4>2, <4>3, <4>4
      <4> QED
        BY <4>5 DEF Bounded
    <3>3. CASE j # i /\ e = p
      BY <1>1, <1>3, <2>1, <2>2, <3>1, <3>3, StaysBounded
    <3>4. CASE e # p
      BY <1>1, <1>3, <2>2, <3>1, <3>4, StaysBounded
    <3> QED
      BY <3>2, <3>3, <3>4
  <2>4. ASSUME NEW e \in Numbers PROVE Called(e)'
    <3>1. CASE e = p
      BY <1>3, <1>4, <2>2, <3>1 DEF Called
    <3>2. CASE e # p
      <4>1. pub'[e] = pub[e] /\ pub[e].inst \in Insts /\ Called(e)
        BY <1>1, <1>3, <3>2 DEF PubShape, Publisher, Heard
      <4> QED
        BY <2>2, <3>2, <4>1 DEF Called, PubAt
    <3> QED
      BY <3>1, <3>2
  <2>5. \A e \in Numbers : pub'[e].pc \in {"join", "redis"} => kind' = "redis"
    BY <1>1, <1>3, <2>1 DEF Heard
  <2> QED
    BY <2>1, <2>3, <2>4, <2>5 DEF Heard, HeldOnce
<1> QED
  BY <1>8, <1>9, <1>10, <1>11 DEF PublishOn

LEMMA StoreHeard ==
  ASSUME SocketShape, Heard, NEW p \in Numbers, StoreEvent(p) PROVE Heard'
<1>1. PubShape /\ RedisShape /\ pub[p].pc = "idle"
  BY StoreMoves DEF SocketShape, PubShape, PubAt
<1>2. /\ pub'[p].pc = "publish" /\ \A e \in Numbers : e # p => pub'[e] = pub[e]
      /\ UNCHANGED <<kind, inbox, built>>
  BY <1>1, StoreMoves DEF redisVars
<1>3. ASSUME NEW e \in Numbers, NEW i \in Insts PROVE Bounded(i, e)'
  <2>1. Bounded(i, e) /\ (InHand(i, e)' => InHand(i, e)) /\ built'[i][e] = built[i][e]
    BY <1>2 DEF Heard, InHand
  <2>2. CASE e = p
    BY <1>1, <1>2, <2>1, <2>2, StaysBounded
  <2>3. CASE e # p
    BY <1>1, <1>2, <2>1, <2>3, StaysBounded
  <2> QED
    BY <2>2, <2>3
<1>4. \A e \in Numbers : Called(e)'
  BY <1>2 DEF Heard, Called, PubAt
<1> QED
  BY <1>2, <1>3, <1>4 DEF Heard, HeldOnce

LEMMA ListenHeard ==
  ASSUME SocketShape, Heard, NEW i \in Insts, Listen(i) PROVE Heard'
<1> DEFINE h == Head(inbox[i])
<1>1. /\ PubShape /\ RedisShape /\ inbox[i] \in Seq(Numbers) /\ inbox[i] # <<>> /\ HeldOnce(inbox[i])
      /\ UNCHANGED <<kind, pub>>
  BY DEF SocketShape, RedisShape, Listen, Heard
<1>2. h \in Numbers
  BY <1>1
<1>3. /\ inbox'[i] = Tail(inbox[i]) /\ \A j \in Insts : j # i => inbox'[j] = inbox[j]
      /\ built'[i][h] = built[i][h] + 1
      /\ \A j \in Insts : \A e \in Numbers : j # i \/ e # h => built'[j][e] = built[j][e]
      /\ \A j \in Insts : \A e \in Numbers : built[j][e] \in Nat
  BY <1>1, <1>2 DEF Listen, RedisShape
<1>4. /\ HeldOnce(inbox'[i]) /\ InHand(i, h)
      /\ ~ \E j \in DOMAIN inbox'[i] : inbox'[i][j] = h
      /\ \A e \in Numbers :
           (\E j \in DOMAIN inbox'[i] : inbox'[i][j] = e) => InHand(i, e)
  BY <1>1, <1>3, Taken DEF InHand
<1> HIDE DEF h
<1>5. ASSUME NEW e \in Numbers, NEW j \in Insts PROVE Bounded(j, e)'
  <2>1. Bounded(j, e) /\ (InHand(j, e)' => InHand(j, e))
    <3>1. CASE j = i
      BY <1>4, <3>1 DEF Heard, InHand
    <3>2. CASE j # i
      BY <1>3, <3>2 DEF Heard, InHand
    <3> QED
      BY <3>1, <3>2
  <2>2. CASE j = i /\ e = h
    <3>1. Held(j, e) = 1 /\ Sent(e)' = Sent(e) /\ Own(j, e)' = Own(j, e)
      BY <1>1, <1>4, <2>2 DEF Held, Sent, Own
    <3>2. Held(j, e)' = 0
      BY <1>4, <2>2 DEF Held, InHand
    <3> QED
      BY <1>3, <2>1, <2>2, <3>1, <3>2 DEF Bounded
  <2>3. CASE j # i \/ e # h
    BY <1>1, <1>3, <2>1, <2>3, StaysBounded
  <2> QED
    BY <2>2, <2>3
<1>6. ASSUME NEW e \in Numbers PROVE Called(e)'
  <2>1. pub[e].inst \in Insts /\ Called(e)
    BY <1>1 DEF PubShape, Publisher, Heard
  <2>2. built'[pub[e].inst][e] >= built[pub[e].inst][e]
    BY <1>3, <2>1
  <2> QED
    BY <1>1, <1>3, <2>1, <2>2 DEF Called, PubAt
<1>7. \A j \in Insts : HeldOnce(inbox[j])'
  BY <1>3, <1>4 DEF Heard, HeldOnce
<1> QED
  BY <1>1, <1>5, <1>6, <1>7 DEF Heard

LEMMA NextHeard == SocketShape /\ Heard /\ [SocketNext]_socketVars => Heard'
<1> SUFFICES ASSUME SocketShape, Heard, [SocketNext]_socketVars PROVE Heard'
  OBVIOUS
<1>1. CASE UNCHANGED <<kind, pub, inbox, built>>
  BY <1>1 DEF Heard, Called, Bounded, HeldOnce, Held, InHand, Sent, Own, PubAt
<1>2. ASSUME NEW c \in Conns, Open(c) \/ Drop(c) \/ Pong(c) \/ Serve(c) \/ Beat(c)
      PROVE  UNCHANGED <<kind, pub, inbox, built>>
  BY <1>2, ConnectionFollows DEF Follows, Placed, redisVars
<1> QED
  BY <1>1, <1>2, PublisherHeard, StoreHeard, ListenHeard DEF SocketNext, socketVars, redisVars

(* A published message reaches the builder of its instance, and none more  *)
(* often than the two ways it can take.                                    *)
THEOREM BuildersHear == SocketSpec => []BuilderHears
<1>1. SocketInit => Heard
  BY DEF SocketInit, Heard, Called, Bounded, HeldOnce, Held, InHand, Sent, Own, PubAt
<1>2. ASSUME SocketShape, Heard PROVE BuilderHears
  <2> SUFFICES ASSUME NEW e \in Numbers
               PROVE  /\ Called(e)
                      /\ \A i \in Insts :
                           built[i][e] <= IF i # pub[e].inst \/ kind = "memory" THEN 1 ELSE 2
    BY DEF BuilderHears, Called
  <2>1. Called(e) /\ \A i \in Insts : Bounded(i, e) /\ built[i][e] \in Nat
    BY <1>2 DEF Heard, SocketShape, RedisShape
  <2> QED
    BY <2>1 DEF Bounded, Held, Sent, Own
<1> QED
  BY <1>1, <1>2, NextHeard, SocketShapeHolds, PTL DEF SocketSpec
=============================================================================
