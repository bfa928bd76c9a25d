-------------------------- MODULE SessionFlowProofs --------------------------
(***************************************************************************)
(* What holds of SessionFlow for any procedure and any number of requests. *)
(*                                                                         *)
(* None of the invariants is inductive by itself: a request acts on facts  *)
(* it established some awaits earlier, while others go on.  It works       *)
(* because every such fact is about the event table, which only grows.     *)
(* The strengthening says, for each point a request can be at, which facts *)
(* about the table it carries (LocalOK), and that the two copies of the    *)
(* session row, the stored one and the snapshots, only ever hold positions *)
(* and states the table accounts for (RowOK).                              *)
(***************************************************************************)
EXTENDS SessionFlow, TLAPS

(* In a table without gaps the greatest number is the number of rows.      *)
LEMMA MaxSeqGapless ==
  ASSUME NEW S, NEW l \in Seq(S), \A i \in DOMAIN l : l[i].seq = i
  PROVE  /\ SeqsOf(l) = 1 .. Len(l)
         /\ MaxSeq(l) = Len(l)
         /\ NextSeq(l) = Len(l) + 1
<1>1. Len(l) \in Nat /\ DOMAIN l = 1 .. Len(l)
  OBVIOUS
<1>2. SeqsOf(l) = 1 .. Len(l)
  BY <1>1 DEF SeqsOf
<1>3. {0} \cup SeqsOf(l) = 0 .. Len(l)
  BY <1>1, <1>2
<1>4. MaxSeq(l) = CHOOSE m \in 0 .. Len(l) : \A n \in 0 .. Len(l) : n <= m
  BY <1>3 DEF MaxSeq
<1>5. \E m \in 0 .. Len(l) : \A n \in 0 .. Len(l) : n <= m
  BY <1>1
<1>6. MaxSeq(l) \in 0 .. Len(l) /\ \A n \in 0 .. Len(l) : n <= MaxSeq(l)
  BY <1>4, <1>5
<1>7. MaxSeq(l) = Len(l)
  BY <1>1, <1>6
<1> QED
  BY <1>2, <1>7 DEF NextSeq

(* The table only grows, and what it says of a step stays said.            *)
LEMMA OccursAppend ==
  ASSUME NEW S, NEW l \in Seq(S), NEW e \in S, NEW t, NEW s
  PROVE  /\ Occurs(l, t, s) => Occurs(Append(l, e), t, s)
         /\ (e.type = t /\ e.step = s) => Occurs(Append(l, e), t, s)
         /\ Occurs(l, t, s) => OccursBefore(Append(l, e), Len(l) + 1, t, s)
         /\ \A i \in DOMAIN l :
              OccursBefore(l, i, t, s) => OccursBefore(Append(l, e), i, t, s)
<1> DEFINE m == Append(l, e)
<1>1. /\ Len(l) \in Nat /\ DOMAIN l = 1 .. Len(l) /\ DOMAIN m = 1 .. Len(l) + 1
      /\ m[Len(l) + 1] = e /\ \A i \in 1 .. Len(l) : m[i] = l[i]
  OBVIOUS
<1> HIDE DEF m
<1>2. Occurs(l, t, s) => Occurs(m, t, s)
  BY <1>1 DEF Occurs
<1>3. (e.type = t /\ e.step = s) => Occurs(m, t, s)
  BY <1>1 DEF Occurs
<1>4. Occurs(l, t, s) => OccursBefore(m, Len(l) + 1, t, s)
  BY <1>1 DEF Occurs, OccursBefore
<1>5. \A i \in DOMAIN l : OccursBefore(l, i, t, s) => OccursBefore(m, i, t, s)
  BY <1>1 DEF OccursBefore
<1> QED
  BY <1>2, <1>3, <1>4, <1>5 DEF m

(* A copy of the session row the table accounts for. *)
RowOK(l, w) ==
  /\ w.step > 0 =>
       \/ Occurs(l, "step.completed", w.step - 1)
       \/ Occurs(l, "step.skipped", w.step - 1) /\ w.step - 1 \notin CriticalSteps
  /\ w.status = "finalized" => Occurs(l, "step.completed", Last)

Emits(q) == q.pc \in {"seq", "append"}

(* What an accepted request has left in the table, or found there under    *)
(* its id: a row that is not the one it asked for.                         *)
OtherRow(w, q) ==
  ~(w.type = EventType(q.cmd, 1) /\ (q.cmd \in {"advance", "skip"} => w.step = q.step))

Reused(l, q) ==
  q.id # Fresh /\ \E i \in DOMAIN l : l[i].id = q.id /\ OtherRow(l[i], q)

AnswerOK(l, q) ==
  (q.result = "accepted" /\ q.cmd \in {"advance", "skip", "voice", "photo"}) =>
    Occurs(l, EventType(q.cmd, 1), q.step) \/ Reused(l, q)

(* The facts a request carries from await to await. *)
AdvanceOK(l, q) ==
  q.cmd \in {"advance", "voice"} =>
    /\ (Emits(q) /\ q.nth = 1 /\ q.step \in PhotoSteps) => Occurs(l, "photo", q.step)
    /\ (q.pc \in {"save", "reread"} \/ (Emits(q) /\ q.nth = 2)) =>
         Occurs(l, "step.completed", q.step)
    /\ (q.pc = "save" \/ (Emits(q) /\ q.nth = 2)) => q.step + 1 < NumSteps

SkipOK(l, q) ==
  q.cmd = "skip" =>
    /\ (Emits(q) \/ q.pc = "save") => q.step \notin CriticalSteps
    /\ q.pc = "save" => Occurs(l, "step.skipped", q.step) /\ q.step + 1 < NumSteps

FinalizeOK(l, rep, q) ==
  q.cmd = "finalize" =>
    /\ (Emits(q) \/ q.pc \in {"report", "save", "saveReport"}) =>
         Occurs(l, "step.completed", Last)
    /\ Emits(q) => rep

PauseOK(l, q) ==
  (q.cmd = "pause" /\ Emits(q) /\ q.nth = 2) =>
    Occurs(l, "session.paused", q.snap.step)

(* Which request can be where.                                             *)
WhereOK(q) ==
  /\ q.cmd # "voice" => q.nth # 0
  /\ q.pc = "idle" => q.id = Fresh
  /\ q.pc = "find" => q.id # Fresh
  /\ q.pc \in {"find", "load", "check"} => q.nth # 2
  /\ q.pc = "check" => q.cmd = "note"
  /\ q.pc = "gate" => q.cmd \in {"advance", "voice"} /\ q.nth = 1
  /\ q.pc \in {"scan", "report", "saveReport"} => q.cmd = "finalize"
  /\ q.pc = "reread" => q.cmd = "voice"
  /\ q.pc # "done" => q.result = "none"

LocalOK(l, rep, q) ==
  /\ RowOK(l, q.snap)
  /\ WhereOK(q)
  /\ AnswerOK(l, q)
  /\ AdvanceOK(l, q)
  /\ SkipOK(l, q)
  /\ FinalizeOK(l, rep, q)
  /\ PauseOK(l, q)

(* What precedes each row of the table. *)
EntryOK(l, i) ==
  /\ l[i].type = "step.completed" /\ l[i].step \in PhotoSteps =>
       OccursBefore(l, i, "photo", l[i].step)
  /\ l[i].type = "step.skipped" => l[i].step \notin CriticalSteps
  /\ l[i].type = "step.entered" =>
       l[i].step > 0 /\ OccursBefore(l, i, "step.completed", l[i].step - 1)
  /\ l[i].type = "session.closed" => OccursBefore(l, i, "step.completed", Last)
  /\ l[i].type = "step.paused" => OccursBefore(l, i, "session.paused", l[i].step)

Entries == \A i \in DOMAIN log : EntryOK(log, i)

Gapless == \A i \in DOMAIN log : log[i].seq = i

Locals == \A r \in Reqs : LocalOK(log, report, req[r])

ReportEarned == report => Completed(Last)

(* The row under a client's id comes from a request with that id.          *)
Owned == \A i \in DOMAIN log : log[i].id # Fresh => \E r \in Reqs : OwnRow(i, r)

PostedIds ==
  \A r \in Reqs : req[r].id # Fresh => req[r].cmd \in RestCommands

IInv ==
  /\ TypeOK
  /\ Gapless
  /\ RowOK(log, row)
  /\ ReportEarned
  /\ ClosedHasReport
  /\ Entries
  /\ Locals
  /\ Owned
  /\ PostedIds

-----------------------------------------------------------------------------
(* A copy of the row, and the facts of a request, survive a longer table.  *)
LEMMA RowOKGrows ==
  ASSUME NEW l, NEW m, NEW w, RowOK(l, w),
         \A t, s : Occurs(l, t, s) => Occurs(m, t, s)
  PROVE  RowOK(m, w)
  BY DEF RowOK

LEMMA LocalOKGrows ==
  ASSUME NEW l, NEW m, NEW rep \in BOOLEAN, NEW rep2 \in BOOLEAN, NEW q, LocalOK(l, rep, q),
         \A t, s : Occurs(l, t, s) => Occurs(m, t, s),
         \A i \in DOMAIN l : i \in DOMAIN m /\ m[i] = l[i], rep => rep2
  PROVE  LocalOK(m, rep2, q)
<1>1. RowOK(m, q.snap)
  BY RowOKGrows DEF LocalOK
<1>2. AnswerOK(m, q)
  <2>1. Reused(l, q) => Reused(m, q)
    BY DEF Reused
  <2> QED
    BY <2>1 DEF LocalOK, AnswerOK
<1>3. AdvanceOK(m, q)
  BY DEF LocalOK, AdvanceOK
<1>4. SkipOK(m, q)
  BY DEF LocalOK, SkipOK
<1>5. FinalizeOK(m, rep2, q)
  BY DEF LocalOK, FinalizeOK
<1>6. PauseOK(m, q)
  BY DEF LocalOK, PauseOK
<1>7. WhereOK(q)
  BY DEF LocalOK
<1> QED
  BY <1>1, <1>2, <1>3, <1>4, <1>5, <1>6, <1>7 DEF LocalOK

-----------------------------------------------------------------------------
(* q may take the place of request r: it is the same request further on,   *)
(* or a new one.                                                           *)
MayFollow(r, q) ==
  \/ q.id = req[r].id /\ q.cmd = req[r].cmd /\ q.step = req[r].step
  \/ /\ req[r].id = Fresh
     /\ q.id # Fresh => q.cmd \in RestCommands

LEMMA IdsMove ==
  ASSUME IInv, NEW r \in Reqs, NEW q \in Request,
         req' = [req EXCEPT ![r] = q], log' = log, MayFollow(r, q)
  PROVE  Owned' /\ PostedIds'
<1>1. req'[r] = q /\ \A p \in Reqs : p # r => req'[p] = req[p]
  BY DEF IInv, TypeOK
<1>3. Owned'
  <2> SUFFICES ASSUME NEW i \in DOMAIN log, log[i].id # Fresh
               PROVE  \E p \in Reqs : OwnRow(i, p)'
    BY DEF Owned
  <2>1. PICK p \in Reqs : OwnRow(i, p)
    BY DEF IInv, Owned
  <2>2. OwnRow(i, p)'
    BY <1>1, <2>1 DEF OwnRow, Runs, MayFollow
  <2> QED
    BY <2>2
<1>4. PostedIds'
  BY <1>1 DEF IInv, PostedIds, MayFollow
<1> QED
  BY <1>3, <1>4

(* A step that moves one request and may save a row the table accounts     *)
(* for, but stores nothing.                                                *)
LEMMA MoveRequest ==
  ASSUME IInv, NEW r \in Reqs, NEW q \in Request,
         req' = [req EXCEPT ![r] = q], log' = log,
         row' \in SessionRow, RowOK(log, row'),
         report' \in BOOLEAN, report => report', report' => Completed(Last),
         LocalOK(log, report', q), MayFollow(r, q)
  PROVE  IInv'
<1>1. req'[r] = q /\ \A p \in Reqs : p # r => req'[p] = req[p]
  BY DEF IInv, TypeOK
<1>2. TypeOK'
  BY DEF IInv, TypeOK
<1>3. Gapless' /\ Entries' /\ RowOK(log, row)' /\ ReportEarned' /\ ClosedHasReport'
  BY DEF IInv, Gapless, Entries, EntryOK, ReportEarned, ClosedHasReport, Completed
<1>4. Locals'
  <2> SUFFICES ASSUME NEW p \in Reqs PROVE LocalOK(log, report', req'[p])
    BY DEF Locals
  <2>1. LocalOK(log, report, req[p]) /\ report \in BOOLEAN
    BY DEF IInv, Locals, TypeOK
  <2>2. LocalOK(log, report', req[p])
    BY <2>1, LocalOKGrows
  <2> QED
    BY <1>1, <2>2
<1>5. Owned' /\ PostedIds'
  BY IdsMove
<1> QED
  BY <1>2, <1>3, <1>4, <1>5 DEF IInv

-----------------------------------------------------------------------------
LEMMA TypeFacts ==
  ASSUME IInv, NEW r \in Reqs
  PROVE  /\ req \in [Reqs -> Request] /\ req[r] \in Request /\ row \in SessionRow
         /\ report \in BOOLEAN /\ log \in Seq(RowType)
         /\ report => Completed(Last)
         /\ RowOK(log, row) /\ LocalOK(log, report, req[r])
  BY DEF IInv, TypeOK, Locals, ReportEarned

(* A request whose cell changes while table, row and report stay.          *)
LEMMA StayRequest ==
  ASSUME IInv, NEW r \in Reqs, NEW q \in Request,
         req' = [req EXCEPT ![r] = q], UNCHANGED <<log, row, report>>,
         LocalOK(log, report, q), MayFollow(r, q)
  PROVE  IInv'
<1>1. /\ row' \in SessionRow /\ RowOK(log, row') /\ report' \in BOOLEAN /\ log' = log
      /\ (report => report') /\ (report' => Completed(Last)) /\ report' = report
  BY TypeFacts
<1> QED
  BY <1>1, MoveRequest

(* The new row of a session is accounted for by any table.                 *)
LEMMA NewSessionOK ==
  ASSUME NEW l
  PROVE  NewSession \in SessionRow /\ RowOK(l, NewSession)
<1>1. NewSession.step = 0 /\ NewSession.status = "active"
  BY DEF NewSession
<1>2. 0 \in 0 .. Last
  BY TemplateAssumption DEF Last
<1>3. NewSession \in SessionRow
  BY <1>2 DEF NewSession, SessionRow, Statuses
<1> QED
  BY <1>1, <1>3 DEF RowOK

LEMMA FinishIInv ==
  ASSUME IInv, NEW r \in Reqs, NEW result \in Results,
         Finish(r, result), UNCHANGED <<log, row, report>>,
         (result = "accepted" /\ req[r].cmd \in {"advance", "skip", "voice", "photo"}) =>
            Occurs(log, EventType(req[r].cmd, 1), req[r].step) \/ Reused(log, req[r])
  PROVE  IInv'
<1> DEFINE q == [req[r] EXCEPT !.pc = "done", !.result = result,
                               !.snap = NewSession, !.nth = 1, !.seq = 0]
<1>1. req \in [Reqs -> Request] /\ req[r] \in Request
  BY TypeFacts
<1>2. req' = [req EXCEPT ![r] = q]
  BY <1>1 DEF Finish
<1>3. NewSession \in SessionRow /\ RowOK(log, NewSession)
  BY NewSessionOK
<1>4. /\ q.pc = "done" /\ q.result = result /\ q.snap = NewSession /\ q.nth = 1
      /\ q.cmd = req[r].cmd /\ q.step = req[r].step /\ q.id = req[r].id
  BY <1>1 DEF Request
<1>a. "done" \in Labels /\ 1 \in 0 .. 2 /\ 0 \in Nat
  BY DEF Labels
<1>5. q \in Request
  BY <1>1, <1>3, <1>a DEF Request
<1> HIDE DEF q
<1>b. Reused(log, req[r]) => Reused(log, q)
  BY <1>4 DEF Reused, OtherRow
<1>6. LocalOK(log, report, q)
  BY <1>3, <1>4, <1>b DEF LocalOK, WhereOK, AnswerOK, AdvanceOK, SkipOK, FinalizeOK, PauseOK, Emits
<1>7. MayFollow(r, q)
  BY <1>4 DEF MayFollow
<1> QED
  BY <1>2, <1>5, <1>6, <1>7, StayRequest

(* A refusal, or the loss of the request, says nothing of the table.       *)
LEMMA RefuseIInv ==
  ASSUME IInv, NEW r \in Reqs, NEW result \in Results \ {"accepted"},
         Finish(r, result), UNCHANGED <<log, row, report>>
  PROVE  IInv'
  BY FinishIInv

LEMMA IdleFacts ==
  /\ Idle \in Request /\ Idle.pc = "idle" /\ Idle.cmd = "note" /\ Idle.id = Fresh
  /\ Idle.nth = 1 /\ Idle.snap = NewSession /\ Idle.result = "none"
<1>1. NewSession \in SessionRow
  BY NewSessionOK
<1>2. 0 \in AnyStep
  BY TemplateAssumption DEF AnyStep
<1> QED
  BY <1>1, <1>2 DEF Idle, Request, Labels, Commands, Results

LEMMA InitIInv == Init => IInv
<1> SUFFICES ASSUME Init PROVE IInv
  OBVIOUS
<1>1. NewSession \in SessionRow /\ RowOK(<<>>, NewSession)
  BY NewSessionOK
<1>3. Idle \in Request
  BY IdleFacts
<1>4. /\ Idle.pc = "idle" /\ Idle.cmd = "note" /\ Idle.id = Fresh /\ Idle.nth = 1
      /\ Idle.snap = NewSession /\ Idle.result = "none"
  BY IdleFacts
<1>5. LocalOK(<<>>, FALSE, Idle)
  BY <1>1, <1>4 DEF LocalOK, WhereOK, AnswerOK, AdvanceOK, SkipOK, FinalizeOK, PauseOK, Emits
<1>6. /\ DOMAIN log = {} /\ <<>> \in Seq(RowType) /\ log = <<>> /\ report = FALSE
      /\ row = NewSession /\ req \in [Reqs -> Request] /\ \A r \in Reqs : req[r] = Idle
  BY <1>3 DEF Init
<1>7. TypeOK
  BY <1>1, <1>6 DEF TypeOK
<1>8. Locals
  BY <1>5, <1>6 DEF Locals
<1>9. PostedIds
  BY <1>4, <1>6 DEF PostedIds
<1>10. Gapless /\ Entries /\ Owned /\ ClosedHasReport
  BY <1>6 DEF Gapless, Entries, Owned, ClosedHasReport
<1> QED
  BY <1>1, <1>6, <1>7, <1>8, <1>9, <1>10 DEF IInv, ReportEarned

-----------------------------------------------------------------------------
(* A request under way goes on, with the row or the report it may save.    *)
LEMMA GoOn ==
  ASSUME IInv, NEW r \in Reqs, NEW q \in Request,
         req' = [req EXCEPT ![r] = q], log' = log,
         row' \in SessionRow, RowOK(log, row'),
         report' \in BOOLEAN, report => report', report' => Completed(Last),
         q.id = req[r].id, q.cmd = req[r].cmd, q.step = req[r].step,
         q.result = req[r].result, ~At(r, "done"),
         RowOK(log, q.snap), WhereOK(q), AdvanceOK(log, q), SkipOK(log, q),
         FinalizeOK(log, report', q), PauseOK(log, q)
  PROVE  IInv'
<1>1. req[r].result = "none"
  BY TypeFacts DEF LocalOK, WhereOK, At
<1>2. LocalOK(log, report', q)
  BY <1>1 DEF LocalOK, AnswerOK
<1>3. MayFollow(r, q)
  BY DEF MayFollow
<1> QED
  BY <1>2, <1>3, MoveRequest

(* The same where only the request moves.                                  *)
LEMMA GoOnAlone ==
  ASSUME IInv, NEW r \in Reqs, NEW q \in Request,
         req' = [req EXCEPT ![r] = q], UNCHANGED <<log, row, report>>,
         q.id = req[r].id, q.cmd = req[r].cmd, q.step = req[r].step,
         q.result = req[r].result, ~At(r, "done"),
         RowOK(log, q.snap), WhereOK(q), AdvanceOK(log, q), SkipOK(log, q),
         FinalizeOK(log, report, q), PauseOK(log, q)
  PROVE  IInv'
<1>1. /\ row' \in SessionRow /\ RowOK(log, row') /\ report' \in BOOLEAN /\ log' = log
      /\ (report => report') /\ (report' => Completed(Last)) /\ report' = report
  BY TypeFacts
<1> QED
  BY <1>1, GoOn

(* Labels that carry no fact about the table.                              *)
LEMMA LoadedIInv ==
  ASSUME IInv, NEW r \in Reqs, NEW label \in {"seq", "gate", "check", "scan", "save"},
         At(r, "load"), Loaded(r, label), UNCHANGED <<log, row, report>>,
         label = "check" => Runs(r, {"note"}),
         label = "gate" => Runs(r, {"advance", "voice"}) /\ req[r].nth = 1,
         label = "scan" => Runs(r, {"finalize"}),
         label = "save" => Runs(r, {"pause", "resume"}),
         label = "seq" =>
           /\ ~Runs(r, {"finalize"})
           /\ Runs(r, {"advance", "voice"}) =>
                req[r].nth = 0 \/ req[r].step \notin PhotoSteps
           /\ Runs(r, {"skip"}) => req[r].step \notin CriticalSteps
  PROVE  IInv'
<1> DEFINE q == [req[r] EXCEPT !.pc = label, !.snap = row]
<1>1. /\ req \in [Reqs -> Request] /\ req[r] \in Request /\ row \in SessionRow
      /\ RowOK(log, row) /\ WhereOK(req[r])
  BY TypeFacts DEF LocalOK
<1>2. req' = [req EXCEPT ![r] = q]
  BY <1>1 DEF Loaded
<1>3. label \in Labels
  BY DEF Labels
<1>4. q \in Request
  BY <1>1, <1>3 DEF Request
<1>5. /\ q.pc = label /\ q.snap = row /\ q.nth = req[r].nth /\ q.cmd = req[r].cmd
      /\ q.step = req[r].step /\ q.id = req[r].id /\ q.result = req[r].result
  BY <1>1 DEF Request
<1>6. req[r].pc = "load" /\ req[r].nth # 2 /\ req[r].result = "none" /\ ~At(r, "done")
  BY <1>1 DEF WhereOK, At
<1> HIDE DEF q
<1>7. WhereOK(q)
  BY <1>1, <1>5, <1>6 DEF WhereOK, Runs
<1>8. AdvanceOK(log, q)
  BY <1>5, <1>6 DEF AdvanceOK, Emits, Runs
<1>9. SkipOK(log, q) /\ FinalizeOK(log, report, q) /\ PauseOK(log, q)
  BY <1>5, <1>6 DEF SkipOK, FinalizeOK, PauseOK, Emits, Runs
<1> QED
  BY <1>1, <1>2, <1>4, <1>5, <1>6, <1>7, <1>8, <1>9, GoOnAlone

LEMMA GotoIInv ==
  ASSUME IInv, NEW r \in Reqs, NEW label \in {"load", "seq", "report", "save"},
         Goto(r, label), UNCHANGED <<log, row, report>>,
         \/ At(r, "find") /\ label = "load"
         \/ At(r, "gate") /\ label = "seq" /\ Occurs(log, "photo", req[r].step)
         \/ At(r, "check") /\ label = "seq"
         \/ At(r, "scan") /\ label = "report" /\ Completed(Last)
         \/ At(r, "report") /\ label = "save"
  PROVE  IInv'
<1> DEFINE q == [req[r] EXCEPT !.pc = label]
<1>1. req \in [Reqs -> Request] /\ req[r] \in Request /\ LocalOK(log, report, req[r])
  BY TypeFacts
<1>2. req' = [req EXCEPT ![r] = q]
  BY <1>1 DEF Goto
<1>3. label \in Labels
  BY DEF Labels
<1>4. q \in Request
  BY <1>1, <1>3 DEF Request
<1>5. /\ q.pc = label /\ q.snap = req[r].snap /\ q.nth = req[r].nth /\ q.cmd = req[r].cmd
      /\ q.step = req[r].step /\ q.id = req[r].id /\ q.result = req[r].result
  BY <1>1 DEF Request
<1>6. WhereOK(req[r]) /\ ~At(r, "done") /\ RowOK(log, q.snap)
  BY <1>1, <1>5 DEF LocalOK, At
<1> HIDE DEF q
<1>7. WhereOK(q)
  BY <1>5, <1>6 DEF WhereOK, At
<1>8. AdvanceOK(log, q)
  BY <1>1, <1>5, <1>6 DEF LocalOK, WhereOK, AdvanceOK, Emits, At
<1>9. SkipOK(log, q) /\ FinalizeOK(log, report, q) /\ PauseOK(log, q)
  BY <1>1, <1>5, <1>6
  DEF LocalOK, WhereOK, SkipOK, FinalizeOK, PauseOK, Emits, At, Completed
<1> QED
  BY <1>2, <1>4, <1>5, <1>6, <1>7, <1>8, <1>9, GoOnAlone

-----------------------------------------------------------------------------
(* A new request, and the answer to the retry of one that was stored.      *)
LEMMA NewRequest ==
  ASSUME IInv, NEW r \in Reqs, At(r, "idle"), NEW q \in Request,
         req' = [req EXCEPT ![r] = q], UNCHANGED <<log, row, report>>,
         q.snap = NewSession, q.result = "none",
         q.pc = "find" \/ q.pc = "load" \/ (q.pc = "seq" /\ q.cmd = "photo"),
         q.nth = IF q.cmd = "voice" THEN 0 ELSE 1,
         \/ q.id = Fresh /\ q.pc # "find"
         \/ q.id # Fresh /\ q.cmd \in RestCommands
  PROVE  IInv'
<1>1. req[r].id = Fresh
  BY TypeFacts DEF LocalOK, WhereOK, At
<1>2. RowOK(log, q.snap)
  BY NewSessionOK
<1>3. LocalOK(log, report, q)
  BY <1>2 DEF LocalOK, WhereOK, AnswerOK, AdvanceOK, SkipOK, FinalizeOK, PauseOK, Emits
<1>4. MayFollow(r, q)
  BY <1>1 DEF MayFollow
<1> QED
  BY <1>3, <1>4, StayRequest

LEMMA NamedStepsType == ASSUME NEW cmd PROVE NamedSteps(cmd) \subseteq AnyStep
  BY TemplateAssumption DEF NamedSteps, AnyStep

LEMMA PostIInv ==
  ASSUME IInv, NEW r \in Reqs, Post(r)
  PROVE  IInv'
<1>1. PICK cmd \in RestCommands \cap Workload, step \in AnyStep, id \in EventIds :
         req' = [req EXCEPT ![r] =
           [Idle EXCEPT !.pc = "find", !.cmd = cmd, !.step = step, !.id = id]]
  BY NamedStepsType DEF Post
<1> DEFINE q == [Idle EXCEPT !.pc = "find", !.cmd = cmd, !.step = step, !.id = id]
<1>2. /\ q.pc = "find" /\ q.cmd = cmd /\ q.step = step /\ q.id = id /\ q.snap = NewSession
      /\ q.nth = 1 /\ q.result = "none"
  BY IdleFacts DEF Request
<1>3. "find" \in Labels /\ cmd \in Commands
  BY DEF Labels, RestCommands, Commands
<1>4. q \in Request
  BY <1>3, IdleFacts DEF Request
<1>5. id # Fresh /\ cmd # "voice" /\ At(r, "idle") /\ UNCHANGED <<log, row, report>>
  BY IdAssumption DEF RestCommands, Post
<1> HIDE DEF q
<1> QED
  BY <1>1, <1>2, <1>4, <1>5, NewRequest DEF q

LEMMA CallIInv ==
  ASSUME IInv, NEW r \in Reqs, Call(r)
  PROVE  IInv'
<1>1. PICK cmd \in OtherCalls \cap Workload, step \in AnyStep :
         req' = [req EXCEPT ![r] =
           [Idle EXCEPT !.pc = IF cmd = "photo" THEN "seq" ELSE "load",
                        !.cmd = cmd, !.step = step,
                        !.nth = IF cmd = "voice" THEN 0 ELSE 1]]
  BY NamedStepsType DEF Call
<1> DEFINE pc == IF cmd = "photo" THEN "seq" ELSE "load"
           nth == IF cmd = "voice" THEN 0 ELSE 1
           q == [Idle EXCEPT !.pc = pc, !.cmd = cmd, !.step = step, !.nth = nth]
<1>2. pc \in Labels /\ nth \in 0 .. 2 /\ cmd \in Commands
  BY DEF Labels, OtherCalls, Commands
<1>3. req' = [req EXCEPT ![r] = q]
  BY <1>1
<1> HIDE DEF pc, nth
<1>4. /\ q.pc = pc /\ q.cmd = cmd /\ q.step = step /\ q.nth = nth
      /\ q.id = Fresh /\ q.snap = NewSession /\ q.result = "none"
  BY IdleFacts DEF Request
<1>5. q \in Request
  BY <1>2, IdleFacts DEF Request
<1>6. At(r, "idle") /\ UNCHANGED <<log, row, report>>
  BY DEF Call
<1>7. /\ q.pc = "load" \/ (q.pc = "seq" /\ q.cmd = "photo")
      /\ q.nth = IF q.cmd = "voice" THEN 0 ELSE 1
  BY <1>4 DEF pc, nth
<1> HIDE DEF q
<1> QED
  BY <1>4, <1>5, <1>6, <1>7, <1>3, NewRequest

LEMMA FindIInv ==
  ASSUME IInv, NEW r \in Reqs, Find(r)
  PROVE  IInv'
<1>1. At(r, "find") /\ UNCHANGED <<log, row, report>>
  BY DEF Find
<1>2. CASE Known(log, req[r].id)
  <2>1. req[r].id # Fresh
    BY <1>1, TypeFacts DEF LocalOK, WhereOK, At
  <2>2. PICK i \in DOMAIN log : log[i].id = req[r].id
    BY <1>2 DEF Known
  <2>5. req[r].cmd \in RestCommands
    BY <2>1 DEF IInv, PostedIds
  <2>3. OtherRow(log[i], req[r]) => Reused(log, req[r])
    BY <2>1, <2>2 DEF Reused
  <2>4. (~OtherRow(log[i], req[r]) /\ req[r].cmd \in {"advance", "skip"}) =>
          Occurs(log, EventType(req[r].cmd, 1), req[r].step)
    BY DEF OtherRow, Occurs
  <2>6. req[r].cmd \in {"advance", "skip", "voice", "photo"} =>
          Occurs(log, EventType(req[r].cmd, 1), req[r].step) \/ Reused(log, req[r])
    BY <2>3, <2>4, <2>5 DEF RestCommands
  <2>7. Finish(r, "accepted") /\ "accepted" \in Results
    BY <1>2 DEF Find, Results
  <2> QED
    BY <1>1, <2>6, <2>7, FinishIInv
<1>3. CASE ~Known(log, req[r].id)
  BY <1>1, <1>3, GotoIInv DEF Find
<1> QED
  BY <1>2, <1>3

-----------------------------------------------------------------------------
(* Loading the session, and the decisions.                                 *)
LEMMA RefusalResults ==
  /\ Refusals \subseteq Results \ {"accepted"} /\ "accepted" \in Results
  /\ \A x \in {"conflict", "duplicate", "lost"} : x \in Results \ {"accepted"}
  BY DEF Refusals, Results

LEMMA LoadIInv ==
  ASSUME IInv, NEW r \in Reqs,
         \/ LoadAdvance(r) \/ LoadSpeech(r) \/ LoadSkip(r) \/ LoadPause(r) \/ LoadResume(r)
         \/ LoadNote(r) \/ LoadFinalize(r)
  PROVE  IInv'
<1>1. At(r, "load") /\ UNCHANGED <<log, row, report>>
  BY DEF LoadAdvance, LoadSpeech, LoadSkip, LoadPause, LoadResume, LoadNote, LoadFinalize
<1>2. CASE \E result \in Refusals : Finish(r, result)
  BY <1>1, <1>2, RefusalResults, RefuseIInv
<1>3. CASE ~\E result \in Refusals : Finish(r, result)
  <2>1. \A x \in {"finalized", "wrong state", "critical", "not last"} : ~Finish(r, x)
    BY <1>3 DEF Refusals
  <2>2. WhereOK(req[r])
    BY TypeFacts DEF LocalOK
  <2>3. CASE LoadAdvance(r)
    <3>1. req[r].nth = 1
      BY <1>1, <2>2, <2>3, TypeFacts DEF LoadAdvance, Runs, At, WhereOK, Request
    <3>2. CASE req[r].step \in PhotoSteps
      BY <1>1, <2>1, <2>3, <3>1, <3>2, LoadedIInv DEF LoadAdvance, Runs
    <3>3. CASE req[r].step \notin PhotoSteps
      BY <1>1, <2>1, <2>3, <3>3, LoadedIInv DEF LoadAdvance, Runs
    <3> QED
      BY <3>2, <3>3
  <2>4. CASE LoadSpeech(r)
    BY <1>1, <2>4, LoadedIInv DEF LoadSpeech, Runs
  <2>5. CASE LoadSkip(r)
    BY <1>1, <2>1, <2>5, LoadedIInv DEF LoadSkip, Runs
  <2>6. CASE LoadPause(r)
    BY <1>1, <2>1, <2>6, LoadedIInv DEF LoadPause, Runs
  <2>7. CASE LoadResume(r)
    BY <1>1, <2>1, <2>7, LoadedIInv DEF LoadResume, Runs
  <2>8. CASE LoadNote(r)
    BY <1>1, <2>1, <2>8, LoadedIInv DEF LoadNote, Runs
  <2>9. CASE LoadFinalize(r)
    BY <1>1, <2>1, <2>9, LoadedIInv DEF LoadFinalize, Runs
  <2> QED
    BY <2>3, <2>4, <2>5, <2>6, <2>7, <2>8, <2>9
<1> QED
  BY <1>2, <1>3

(* What finalize finds among the first rows is in the table.               *)
LEMMA ScanFinds ==
  ASSUME NEW l, LastCompletedIn(ListSince(l, 0, ScanLimit))
  PROVE  Occurs(l, "step.completed", Last)
  BY DEF LastCompletedIn, ListSince, Occurs

LEMMA QueryIInv ==
  ASSUME IInv, NEW r \in Reqs, Gate(r) \/ Check(r) \/ Scan(r) \/ ReadReport(r)
  PROVE  IInv'
<1>1. UNCHANGED <<log, row, report>>
  BY DEF Gate, Check, Scan, ReadReport
<1>2. CASE Gate(r)
  <2>1. "needs photo" \in Results \ {"accepted"}
    BY DEF Results, Refusals
  <2>2. CASE HasAcceptedPhoto(log, req[r].step)
    BY <1>1, <1>2, <2>2, GotoIInv DEF Gate, HasAcceptedPhoto
  <2>3. CASE ~HasAcceptedPhoto(log, req[r].step)
    BY <1>1, <1>2, <2>1, <2>3, RefuseIInv DEF Gate
  <2> QED
    BY <2>2, <2>3
<1>3. CASE Check(r)
  <2>1. req[r].cmd = "note"
    BY <1>3, TypeFacts DEF Check, LocalOK, WhereOK, At
  <2>2. CASE Known(log, req[r].id)
    BY <1>1, <1>3, <2>1, <2>2, RefusalResults, FinishIInv DEF Check
  <2>3. CASE ~Known(log, req[r].id)
    BY <1>1, <1>3, <2>3, GotoIInv DEF Check
  <2> QED
    BY <2>2, <2>3
<1>4. CASE Scan(r)
  <2>1. "open" \in Results \ {"accepted"}
    BY DEF Results, Refusals
  <2>2. CASE LastCompletedIn(ListSince(log, 0, ScanLimit))
    <3>1. Completed(Last)
      BY <2>2, ScanFinds DEF Completed
    <3> QED
      BY <1>1, <1>4, <2>2, <3>1, GotoIInv DEF Scan
  <2>3. CASE ~LastCompletedIn(ListSince(log, 0, ScanLimit))
    BY <1>1, <1>4, <2>1, <2>3, RefuseIInv DEF Scan
  <2> QED
    BY <2>2, <2>3
<1>5. CASE ReadReport(r)
  <2>1. "report final" \in Results \ {"accepted"}
    BY DEF Results, Refusals
  <2> QED
    BY <1>1, <1>5, <2>1, RefuseIInv, GotoIInv DEF ReadReport
<1> QED
  BY <1>2, <1>3, <1>4, <1>5

-----------------------------------------------------------------------------
(* Saving: each saved row is one the table accounts for.                   *)
LEMMA SavedStatusOK ==
  ASSUME IInv, NEW r \in Reqs, NEW status \in Statuses, SaveStatus(r, status),
         status = "finalized" => Completed(Last)
  PROVE  row' \in SessionRow /\ RowOK(log, row')
<1>1. req[r].snap \in SessionRow /\ RowOK(log, req[r].snap)
  BY TypeFacts DEF Request, LocalOK
<1>2. /\ row' \in SessionRow /\ row'.step = req[r].snap.step /\ row'.status = status
  BY <1>1 DEF SaveStatus, SessionRow
<1> QED
  BY <1>1, <1>2 DEF RowOK, Completed

LEMMA NextStepOK ==
  ASSUME IInv, NEW r \in Reqs, At(r, "save"), Runs(r, {"advance", "voice", "skip"})
  PROVE  /\ NextStepRow(req[r]) \in SessionRow /\ RowOK(log, NextStepRow(req[r]))
         /\ Runs(r, {"advance", "voice"}) =>
              Completed(req[r].step) /\ req[r].step + 1 < NumSteps
         /\ Runs(r, {"skip"}) => Skipped(req[r].step)
<1>1. /\ req[r].snap \in SessionRow /\ RowOK(log, req[r].snap) /\ req[r].step \in AnyStep
      /\ AdvanceOK(log, req[r]) /\ SkipOK(log, req[r])
  BY TypeFacts DEF Request, LocalOK
<1>2. /\ Runs(r, {"advance", "voice"}) =>
           Completed(req[r].step) /\ req[r].step + 1 < NumSteps
      /\ Runs(r, {"skip"}) =>
           Skipped(req[r].step) /\ req[r].step \notin CriticalSteps /\ req[r].step + 1 < NumSteps
  BY <1>1 DEF AdvanceOK, SkipOK, At, Runs, Completed, Skipped
<1>3. req[r].step \in Nat /\ req[r].step + 1 < NumSteps
  BY <1>1, <1>2, TemplateAssumption DEF AnyStep, Runs
<1>4. req[r].step + 1 \in 0 .. Last /\ req[r].step + 1 - 1 = req[r].step
  BY <1>3, TemplateAssumption DEF Last
<1>5. /\ NextStepRow(req[r]) \in SessionRow /\ NextStepRow(req[r]).step = req[r].step + 1
      /\ NextStepRow(req[r]).status = req[r].snap.status
  BY <1>1, <1>4 DEF NextStepRow, SessionRow
<1>6. RowOK(log, NextStepRow(req[r]))
  <2> DEFINE w == NextStepRow(req[r])
  <2>1. w.step = req[r].step + 1 /\ w.status = req[r].snap.status
    BY <1>5
  <2>2. \/ Occurs(log, "step.completed", req[r].step)
        \/ Occurs(log, "step.skipped", req[r].step) /\ req[r].step \notin CriticalSteps
    BY <1>2 DEF Runs, Completed, Skipped
  <2> HIDE DEF w
  <2>3. w.step - 1 = req[r].step
    BY <1>3, <2>1
  <2>4. RowOK(log, w)
    BY <1>1, <2>1, <2>2, <2>3 DEF RowOK
  <2> QED
    BY <2>4 DEF w
<1> QED
  BY <1>2, <1>5, <1>6

(* After a save the handler emits an event.                                *)
LEMMA SavedIInv ==
  ASSUME IInv, NEW r \in Reqs, NEW n \in 1 .. 2, GotoEmit(r, n),
         row' \in SessionRow, RowOK(log, row'), log' = log,
         report' \in BOOLEAN, report => report', report' => Completed(Last),
         \/ At(r, "save") /\ Runs(r, {"advance", "voice"}) /\ n = 2
         \/ At(r, "save") /\ Runs(r, {"pause", "resume"}) /\ n = 1
         \/ At(r, "saveReport") /\ n = 1 /\ report'
  PROVE  IInv'
<1> DEFINE q == [req[r] EXCEPT !.pc = "seq", !.nth = n]
<1>1. req \in [Reqs -> Request] /\ req[r] \in Request /\ LocalOK(log, report, req[r])
  BY TypeFacts
<1>2. req' = [req EXCEPT ![r] = q]
  BY <1>1 DEF GotoEmit
<1>3. "seq" \in Labels /\ n \in 0 .. 2
  BY DEF Labels
<1>4. q \in Request
  BY <1>1, <1>3 DEF Request
<1>5. /\ q.pc = "seq" /\ q.snap = req[r].snap /\ q.nth = n /\ q.cmd = req[r].cmd
      /\ q.step = req[r].step /\ q.id = req[r].id /\ q.result = req[r].result
  BY <1>1 DEF Request
<1>6. WhereOK(req[r]) /\ ~At(r, "done") /\ RowOK(log, q.snap)
  BY <1>1, <1>5 DEF LocalOK, At
<1> HIDE DEF q
<1>7. WhereOK(q)
  BY <1>5, <1>6 DEF WhereOK, At
<1>8. AdvanceOK(log, q)
  BY <1>1, <1>5, <1>6 DEF LocalOK, WhereOK, AdvanceOK, Emits, At, Runs
<1>9. SkipOK(log, q) /\ FinalizeOK(log, report', q) /\ PauseOK(log, q)
  BY <1>1, <1>5, <1>6
  DEF LocalOK, WhereOK, SkipOK, FinalizeOK, PauseOK, Emits, At, Runs, Completed
<1> QED
  BY <1>2, <1>4, <1>5, <1>6, <1>7, <1>8, <1>9, GoOn

LEMMA SaveStepIInv ==
  ASSUME IInv, NEW r \in Reqs, SaveStep(r)
  PROVE  IInv'
<1>1. /\ At(r, "save") /\ Runs(r, {"advance", "voice", "skip"}) /\ row' = NextStepRow(req[r])
      /\ log' = log /\ report' = report /\ report \in BOOLEAN /\ report' \in BOOLEAN
      /\ report' => Completed(Last)
  BY TypeFacts DEF SaveStep
<1>2. row' \in SessionRow /\ RowOK(log, row')
  BY <1>1, NextStepOK
<1>0. report => report'
  BY <1>1
<1>3. CASE Runs(r, {"skip"})
  <2> DEFINE q == [req[r] EXCEPT !.pc = "done", !.result = "accepted",
                                 !.snap = NewSession, !.nth = 1, !.seq = 0]
  <2>1. req \in [Reqs -> Request] /\ req[r] \in Request
    BY TypeFacts
  <2>2. req' = [req EXCEPT ![r] = q]
    BY <1>3, <2>1 DEF SaveStep, Finish
  <2>3. NewSession \in SessionRow /\ RowOK(log, NewSession)
    BY NewSessionOK
  <2>4. "done" \in Labels /\ 1 \in 0 .. 2 /\ 0 \in Nat /\ "accepted" \in Results
    BY DEF Labels, Results
  <2>5. q \in Request
    BY <2>1, <2>3, <2>4 DEF Request
  <2>6. /\ q.pc = "done" /\ q.snap = NewSession /\ q.nth = 1 /\ q.cmd = "skip"
        /\ q.cmd = req[r].cmd /\ q.step = req[r].step /\ q.id = req[r].id
    BY <1>3, <2>1 DEF Request, Runs
  <2>7. Occurs(log, EventType("skip", 1), req[r].step)
    BY <1>1, <1>3, NextStepOK DEF Skipped, EventType
  <2> HIDE DEF q
  <2>8. LocalOK(log, report', q)
    BY <2>3, <2>6, <2>7
    DEF LocalOK, WhereOK, AnswerOK, AdvanceOK, SkipOK, FinalizeOK, PauseOK, Emits
  <2>9. MayFollow(r, q)
    BY <2>6 DEF MayFollow
  <2> QED
    BY <1>1, <1>2, <1>0, <2>2, <2>5, <2>8, <2>9, MoveRequest
<1>4. CASE ~Runs(r, {"skip"})
  <2>1. GotoEmit(r, 2) /\ Runs(r, {"advance", "voice"})
    BY <1>1, <1>4 DEF SaveStep, Runs
  <2> QED
    BY <1>1, <1>2, <1>0, <2>1, SavedIInv
<1> QED
  BY <1>3, <1>4

LEMMA SaveStateIInv ==
  ASSUME IInv, NEW r \in Reqs,
         SavePause(r) \/ SaveResume(r) \/ SaveFinalized(r) \/ SaveReport(r)
  PROVE  IInv'
<1>1. log' = log /\ report \in BOOLEAN /\ (report => Completed(Last))
  BY TypeFacts DEF SavePause, SaveResume, SaveFinalized, SaveReport
<1>2. CASE SavePause(r) \/ SaveResume(r)
  <2>1. PICK status \in Statuses : SaveStatus(r, status) /\ status # "finalized"
    BY <1>2 DEF SavePause, SaveResume, Statuses
  <2>2. row' \in SessionRow /\ RowOK(log, row')
    BY <2>1, SavedStatusOK
  <2>3. /\ At(r, "save") /\ Runs(r, {"pause", "resume"}) /\ GotoEmit(r, 1)
        /\ report' = report
    BY <1>2 DEF SavePause, SaveResume, Runs
  <2> QED
    BY <1>1, <2>2, <2>3, SavedIInv
<1>3. CASE SaveFinalized(r)
  <2>1. /\ At(r, "save") /\ Runs(r, {"finalize"}) /\ Goto(r, "saveReport")
        /\ SaveStatus(r, "finalized") /\ report' = report
    BY <1>3 DEF SaveFinalized
  <2>2. req \in [Reqs -> Request] /\ req[r] \in Request /\ LocalOK(log, report, req[r])
    BY TypeFacts
  <2>3. Completed(Last)
    BY <2>1, <2>2 DEF LocalOK, FinalizeOK, At, Runs, Completed
  <2>4. row' \in SessionRow /\ RowOK(log, row')
    BY <2>1, <2>3, SavedStatusOK DEF Statuses
  <2> DEFINE q == [req[r] EXCEPT !.pc = "saveReport"]
  <2>5. req' = [req EXCEPT ![r] = q]
    BY <2>1, <2>2 DEF Goto
  <2>6. "saveReport" \in Labels
    BY DEF Labels
  <2>7. q \in Request
    BY <2>2, <2>6 DEF Request
  <2>8. /\ q.pc = "saveReport" /\ q.snap = req[r].snap /\ q.nth = req[r].nth
        /\ q.cmd = req[r].cmd /\ q.cmd = "finalize" /\ q.step = req[r].step
        /\ q.id = req[r].id /\ q.result = req[r].result
    BY <2>1, <2>2 DEF Request, Runs
  <2>9. WhereOK(req[r]) /\ ~At(r, "done") /\ RowOK(log, q.snap) /\ req[r].pc = "save"
    BY <2>1, <2>2, <2>8 DEF LocalOK, At
  <2> HIDE DEF q
  <2>10. WhereOK(q)
    BY <2>8, <2>9 DEF WhereOK
  <2>11. AdvanceOK(log, q) /\ SkipOK(log, q) /\ FinalizeOK(log, report', q) /\ PauseOK(log, q)
    BY <2>3, <2>8 DEF AdvanceOK, SkipOK, FinalizeOK, PauseOK, Emits, Completed
  <2> QED
    BY <1>1, <2>1, <2>4, <2>5, <2>7, <2>8, <2>9, <2>10, <2>11, GoOn
<1>4. CASE SaveReport(r)
  <2>1. At(r, "saveReport") /\ GotoEmit(r, 1) /\ row' = row /\ report' = TRUE
    BY <1>4 DEF SaveReport
  <2>2. Completed(Last)
    BY <2>1, TypeFacts DEF LocalOK, WhereOK, FinalizeOK, At, Completed
  <2>3. row' \in SessionRow /\ RowOK(log, row')
    BY <2>1, TypeFacts
  <2> QED
    BY <1>1, <2>1, <2>2, <2>3, SavedIInv
<1> QED
  BY <1>2, <1>3, <1>4

-----------------------------------------------------------------------------
(* Emitting an event.                                                      *)
LEMMA ReadSeqIInv ==
  ASSUME IInv, NEW r \in Reqs, ReadSeq(r)
  PROVE  IInv'
<1> DEFINE n == NextSeq(log)
           q == [req[r] EXCEPT !.pc = "append", !.seq = n]
<1>1. req \in [Reqs -> Request] /\ req[r] \in Request /\ LocalOK(log, report, req[r])
  BY TypeFacts
<1>2. At(r, "seq") /\ req' = [req EXCEPT ![r] = q] /\ UNCHANGED <<log, row, report>>
  BY <1>1 DEF ReadSeq
<1>3. "append" \in Labels
  BY DEF Labels
<1>4. n = Len(log) + 1 /\ Len(log) \in Nat
  BY MaxSeqGapless DEF IInv, TypeOK, Gapless
<1>5. n \in Nat
  BY <1>4
<1> HIDE DEF n
<1>6. q \in Request
  BY <1>1, <1>3, <1>5 DEF Request
<1>7. /\ q.pc = "append" /\ q.snap = req[r].snap /\ q.nth = req[r].nth /\ q.cmd = req[r].cmd
      /\ q.step = req[r].step /\ q.id = req[r].id /\ q.result = req[r].result
  BY <1>1 DEF Request
<1>8. WhereOK(req[r]) /\ ~At(r, "done") /\ RowOK(log, q.snap)
  BY <1>1, <1>2, <1>7 DEF LocalOK, At
<1> HIDE DEF q
<1>9. WhereOK(q) /\ AdvanceOK(log, q)
  BY <1>1, <1>2, <1>7, <1>8 DEF LocalOK, WhereOK, AdvanceOK, Emits, At
<1>10. SkipOK(log, q) /\ FinalizeOK(log, report, q) /\ PauseOK(log, q)
  BY <1>1, <1>2, <1>7 DEF LocalOK, SkipOK, FinalizeOK, PauseOK, Emits, At
<1> QED
  BY <1>2, <1>6, <1>7, <1>8, <1>9, <1>10, GoOnAlone

(* Which requests write which events.                                      *)
LEMMA EventTypeOf ==
  ASSUME NEW cmd \in Commands, NEW n \in 0 .. 2
  PROVE  /\ EventType(cmd, n) \in EventTypes
         /\ EventType(cmd, n) = "step.completed" => cmd \in {"advance", "voice"} /\ n = 1
         /\ EventType(cmd, n) = "step.skipped" => cmd = "skip"
         /\ EventType(cmd, n) = "step.entered" => cmd \in {"advance", "voice"} /\ n = 2
         /\ EventType(cmd, n) = "session.closed" => cmd = "finalize"
         /\ EventType(cmd, n) = "step.paused" => cmd = "pause" /\ n = 2
         /\ EventType(cmd, n) = "photo" => cmd = "photo"
  BY DEF EventType, EventTypes, Commands

(* The row a request stores.                                               *)
LEMMA EventFacts ==
  ASSUME IInv, NEW r \in Reqs, At(r, "append")
  PROVE  /\ Event(req[r]) \in RowType
         /\ Event(req[r]).type = EventType(req[r].cmd, req[r].nth)
         /\ Event(req[r]).step = EventStep(req[r])
         /\ Event(req[r]).seq = req[r].seq
         /\ Event(req[r]).id = IF req[r].nth = 1 THEN req[r].id ELSE Fresh
<1> DEFINE q == req[r]
<1>1. q \in Request /\ LocalOK(log, report, q) /\ q.pc = "append"
  BY TypeFacts DEF At
<1> HIDE DEF q
<1>2. EventType(q.cmd, q.nth) \in EventTypes
  BY <1>1, EventTypeOf DEF Request
<1>3. q.step \in AnyStep /\ q.snap.step \in 0 .. Last /\ NumSteps \in Nat \ {0}
  BY <1>1, TemplateAssumption DEF Request, SessionRow
<1>4. q.snap.step \in AnyStep
  BY <1>3 DEF AnyStep, Last
<1>5. (q.cmd \in {"advance", "voice"} /\ q.nth = 2) => q.step + 1 \in AnyStep
  <2>1. (q.cmd \in {"advance", "voice"} /\ q.nth = 2) => q.step + 1 < NumSteps
    BY <1>1 DEF LocalOK, AdvanceOK, Emits
  <2> QED
    BY <1>3, <2>1 DEF AnyStep
<1>6. EventStep(q) \in AnyStep
  BY <1>3, <1>4, <1>5 DEF EventStep
<1>7. /\ (IF q.nth = 1 THEN q.id ELSE Fresh) \in EventIds \cup {Fresh}
      /\ q.seq \in Nat
  BY <1>1 DEF Request
<1>8. /\ Event(q) \in RowType
      /\ Event(q).type = EventType(q.cmd, q.nth)
      /\ Event(q).step = EventStep(q)
      /\ Event(q).seq = q.seq
      /\ Event(q).id = IF q.nth = 1 THEN q.id ELSE Fresh
  BY <1>2, <1>6, <1>7 DEF Event, RowType
<1> QED
  BY <1>8 DEF q

(* What precedes the new row.                                              *)
LEMMA NewEntryOK ==
  ASSUME IInv, NEW r \in Reqs, At(r, "append")
  PROVE  /\ EntryOK(Append(log, Event(req[r])), Len(log) + 1)
         /\ Event(req[r]).type = "session.closed" => report
<1> DEFINE q == req[r]
           e == Event(q)
           m == Append(log, e)
           n == Len(log) + 1
<1>1. q \in Request /\ LocalOK(log, report, q) /\ q.pc = "append" /\ log \in Seq(RowType)
  BY TypeFacts DEF At
<1>2. e \in RowType /\ e.type = EventType(q.cmd, q.nth) /\ e.step = EventStep(q)
  BY EventFacts
<1>3. m[n] = e
  BY <1>1, <1>2
<1>4. \A t, s : Occurs(log, t, s) => OccursBefore(m, n, t, s)
  BY <1>1, <1>2, OccursAppend
<1> HIDE DEF q, e, m, n
<1>5. q.cmd \in Commands /\ q.nth \in 0 .. 2 /\ Emits(q) /\ q.step \in Nat
  BY <1>1, TemplateAssumption DEF Request, Emits, AnyStep
<1>6. e.type = "step.completed" =>
        e.step = q.step /\ (q.step \in PhotoSteps => Occurs(log, "photo", q.step))
  <2>1. e.type = "step.completed" => q.cmd \in {"advance", "voice"} /\ q.nth = 1
    BY <1>2, <1>5, EventTypeOf
  <2>2. (q.cmd \in {"advance", "voice"} /\ q.nth = 1) => e.step = q.step
    BY <1>2 DEF EventStep
  <2> QED
    BY <1>1, <1>5, <2>1, <2>2 DEF LocalOK, AdvanceOK
<1>7. e.type = "step.skipped" => e.step = q.step /\ q.step \notin CriticalSteps
  BY <1>1, <1>2, <1>5, EventTypeOf DEF LocalOK, SkipOK, EventStep
<1>8. e.type = "step.entered" =>
        e.step = q.step + 1 /\ Occurs(log, "step.completed", q.step)
  BY <1>1, <1>2, <1>5, EventTypeOf DEF LocalOK, AdvanceOK, EventStep
<1>9. e.type = "session.closed" => Occurs(log, "step.completed", Last) /\ report
  BY <1>1, <1>2, <1>5, EventTypeOf DEF LocalOK, FinalizeOK
<1>10. e.type = "step.paused" => Occurs(log, "session.paused", e.step)
  BY <1>1, <1>2, <1>5, EventTypeOf DEF LocalOK, PauseOK, EventStep
<1>11. e.type = "step.entered" =>
         e.step > 0 /\ Occurs(log, "step.completed", e.step - 1)
  <2> SUFFICES ASSUME e.type = "step.entered"
               PROVE  e.step > 0 /\ e.step - 1 = q.step
    BY <1>8
  <2> QED
    BY <1>5, <1>8
<1>12. EntryOK(m, n)
  BY <1>3, <1>4, <1>6, <1>7, <1>9, <1>10, <1>11 DEF EntryOK
<1> QED
  BY <1>9, <1>12 DEF q, e, m, n

(* Where a request goes once its row is in the table m.                    *)
Continues(r, m, q) ==
  /\ req' = [req EXCEPT ![r] = q]
  /\ q.id = req[r].id /\ q.cmd = req[r].cmd /\ q.step = req[r].step
  /\ LocalOK(m, report, q)

LEMMA AfterStoreOK ==
  ASSUME IInv, NEW r \in Reqs, At(r, "append"), AfterStore(r), NEW m,
         \A t, s : Occurs(log, t, s) => Occurs(m, t, s),
         \A i \in DOMAIN log : i \in DOMAIN m /\ m[i] = log[i],
         Occurs(m, EventType(req[r].cmd, req[r].nth), EventStep(req[r]))
  PROVE  \E q \in Request : Continues(r, m, q)
<1> DEFINE p == req[r]
<1>1. /\ req \in [Reqs -> Request] /\ p \in Request /\ p.pc = "append"
      /\ LocalOK(m, report, p) /\ RowOK(m, p.snap)
  <2>1. /\ req \in [Reqs -> Request] /\ p \in Request /\ p.pc = "append"
        /\ LocalOK(log, report, p) /\ report \in BOOLEAN
    BY TypeFacts DEF At
  <2>2. LocalOK(m, report, p)
    BY <2>1, LocalOKGrows
  <2> QED
    BY <2>1, <2>2 DEF LocalOK
<1>2. /\ WhereOK(p) /\ AdvanceOK(m, p) /\ p.result = "none" /\ Emits(p)
      /\ p.nth \in 0 .. 2 /\ p.cmd \in Commands /\ SkipOK(m, p)
  BY <1>1 DEF LocalOK, WhereOK, Request, Emits
<1>3. (p.cmd \in {"advance", "voice"} /\ p.nth = 1) => Occurs(m, "step.completed", p.step)
  <2> SUFFICES ASSUME p.cmd \in {"advance", "voice"}, p.nth = 1
               PROVE  Occurs(m, "step.completed", p.step)
    OBVIOUS
  <2>1. EventType(p.cmd, p.nth) = "step.completed" /\ EventStep(p) = p.step
    BY DEF EventType, EventStep
  <2> QED
    BY <2>1
<1>4. p.cmd = "skip" => Occurs(m, "step.skipped", p.step)
  BY DEF EventType, EventStep
<1>5. (p.cmd = "pause" /\ p.nth = 1) => Occurs(m, "session.paused", p.snap.step)
  <2> SUFFICES ASSUME p.cmd = "pause", p.nth = 1
               PROVE  Occurs(m, "session.paused", p.snap.step)
    OBVIOUS
  <2>1. EventType(p.cmd, p.nth) = "session.paused" /\ EventStep(p) = p.snap.step
    BY DEF EventType, EventStep
  <2> QED
    BY <2>1
<1>6. p.cmd = "photo" => Occurs(m, "photo", p.step)
  BY DEF EventType, EventStep
<1>7. /\ "save" \in Labels /\ "load" \in Labels /\ "reread" \in Labels
      /\ "seq" \in Labels /\ "done" \in Labels /\ 1 \in 0 .. 2 /\ 2 \in 0 .. 2
  BY DEF Labels
<1>8. CASE MovesOn(p)
  <2> DEFINE q == [p EXCEPT !.pc = "save"]
  <2>1. p.cmd \in {"advance", "voice", "skip"} /\ p.nth = 1 /\ p.step + 1 < NumSteps
    BY <1>8 DEF MovesOn
  <2>2. req' = [req EXCEPT ![r] = q]
    BY <1>8, <2>1 DEF AfterStore, Goto
  <2>3. /\ q \in Request /\ q.pc = "save" /\ q.nth = 1 /\ q.cmd = p.cmd /\ q.step = p.step
        /\ q.id = p.id /\ q.snap = p.snap /\ q.result = p.result
    BY <1>1, <1>7, <2>1 DEF Request
  <2> HIDE DEF q
  <2>4. WhereOK(q) /\ AnswerOK(m, q) /\ PauseOK(m, q) /\ FinalizeOK(m, report, q)
    BY <1>2, <2>1, <2>3 DEF WhereOK, AnswerOK, PauseOK, FinalizeOK, Emits
  <2>5. AdvanceOK(m, q)
    BY <1>3, <2>1, <2>3 DEF AdvanceOK, Emits
  <2>6. SkipOK(m, q)
    BY <1>2, <1>4, <2>1, <2>3 DEF SkipOK, Emits
  <2> QED
    BY <1>1, <2>2, <2>3, <2>4, <2>5, <2>6 DEF Continues, LocalOK
<1>9. CASE p.cmd = "voice" /\ p.nth = 0
  <2> DEFINE q == [p EXCEPT !.pc = "load", !.nth = 1]
  <2>1. ~MovesOn(p)
    BY <1>9 DEF MovesOn
  <2>2. req' = [req EXCEPT ![r] = q]
    BY <1>1, <1>9, <2>1 DEF AfterStore
  <2>3. /\ q \in Request /\ q.pc = "load" /\ q.nth = 1 /\ q.cmd = "voice" /\ q.step = p.step
        /\ q.id = p.id /\ q.snap = p.snap /\ q.result = p.result /\ p.cmd = "voice"
    BY <1>1, <1>7, <1>9 DEF Request
  <2> HIDE DEF q
  <2>4. LocalOK(m, report, q)
    BY <1>1, <1>2, <2>3
    DEF LocalOK, WhereOK, AnswerOK, AdvanceOK, SkipOK, PauseOK, FinalizeOK, Emits
  <2> QED
    BY <2>2, <2>3, <2>4 DEF Continues
<1>10. CASE p.cmd = "voice" /\ p.nth # 0 /\ ~MovesOn(p)
  <2> DEFINE q == [p EXCEPT !.pc = "reread"]
  <2>1. req' = [req EXCEPT ![r] = q]
    BY <1>10 DEF AfterStore, Goto
  <2>2. /\ q \in Request /\ q.pc = "reread" /\ q.nth = p.nth /\ q.cmd = "voice"
        /\ q.step = p.step /\ q.id = p.id /\ q.snap = p.snap /\ q.result = p.result
        /\ p.cmd = "voice"
    BY <1>1, <1>7, <1>10 DEF Request
  <2>3. Occurs(m, "step.completed", p.step)
    BY <1>2, <1>3, <1>10 DEF AdvanceOK
  <2> HIDE DEF q
  <2>4. LocalOK(m, report, q)
    BY <1>1, <1>2, <1>10, <2>2, <2>3
    DEF LocalOK, WhereOK, AnswerOK, AdvanceOK, SkipOK, PauseOK, FinalizeOK, Emits
  <2> QED
    BY <2>1, <2>2, <2>4 DEF Continues
<1>11. CASE p.cmd = "pause" /\ p.nth = 1
  <2> DEFINE q == [p EXCEPT !.pc = "seq", !.nth = 2]
  <2>1. req' = [req EXCEPT ![r] = q]
    BY <1>1, <1>11 DEF AfterStore, GotoEmit, MovesOn
  <2>2. /\ q \in Request /\ q.pc = "seq" /\ q.nth = 2 /\ q.cmd = "pause" /\ q.step = p.step
        /\ q.id = p.id /\ q.snap = p.snap /\ q.result = p.result /\ p.cmd = "pause"
    BY <1>1, <1>7, <1>11 DEF Request
  <2> HIDE DEF q
  <2>3. LocalOK(m, report, q)
    BY <1>1, <1>2, <1>5, <1>11, <2>2
    DEF LocalOK, WhereOK, AnswerOK, AdvanceOK, SkipOK, PauseOK, FinalizeOK, Emits
  <2> QED
    BY <2>1, <2>2, <2>3 DEF Continues
<1>12. CASE ~MovesOn(p) /\ p.cmd # "voice" /\ ~(p.cmd = "pause" /\ p.nth = 1)
  <2> DEFINE q == [p EXCEPT !.pc = "done", !.result = "accepted",
                            !.snap = NewSession, !.nth = 1, !.seq = 0]
  <2>1. req' = [req EXCEPT ![r] = q]
    BY <1>1, <1>12 DEF AfterStore, Finish
  <2>2. /\ NewSession \in SessionRow /\ RowOK(m, NewSession)
        /\ 1 \in 0 .. 2 /\ 0 \in Nat /\ "accepted" \in Results
    BY NewSessionOK DEF Results
  <2>3. q \in Request
    BY <1>1, <1>7, <2>2 DEF Request
  <2>4. /\ q.pc = "done" /\ q.nth = 1 /\ q.cmd = p.cmd /\ q.step = p.step /\ q.id = p.id
        /\ q.snap = NewSession
    BY <1>1 DEF Request
  <2>5. p.cmd = "advance" => Occurs(m, "step.completed", p.step)
    <3>1. p.cmd = "advance" => p.nth = 1 \/ p.nth = 2
      BY <1>2 DEF WhereOK
    <3> QED
      BY <1>2, <1>3, <3>1 DEF AdvanceOK
  <2> HIDE DEF q
  <2>6. AnswerOK(m, q)
    <3>1. /\ EventType("advance", 1) = "step.completed" /\ EventType("skip", 1) = "step.skipped"
          /\ EventType("photo", 1) = "photo"
      BY DEF EventType
    <3> QED
      BY <1>4, <1>6, <1>12, <2>4, <2>5, <3>1 DEF AnswerOK
  <2>7. LocalOK(m, report, q)
    BY <1>12, <2>2, <2>4, <2>6
    DEF LocalOK, WhereOK, AdvanceOK, SkipOK, PauseOK, FinalizeOK, Emits
  <2> QED
    BY <2>1, <2>3, <2>4, <2>7 DEF Continues
<1> QED
  BY <1>8, <1>9, <1>10, <1>11, <1>12

(* A row is stored, and its request goes on.                               *)
LEMMA StoredIInv ==
  ASSUME IInv, NEW r \in Reqs, At(r, "append"), NEW q \in Request,
         AppendOutcome(log, Event(req[r])) = "stored",
         log' = Append(log, Event(req[r])), row' = row, report' = report,
         Continues(r, log', q)
  PROVE  IInv'
<1> DEFINE e == Event(req[r])
           n == Len(log) + 1
<1>1. /\ log \in Seq(RowType) /\ Len(log) \in Nat /\ DOMAIN log = 1 .. Len(log)
      /\ \A i \in DOMAIN log : log[i].seq = i
      /\ req \in [Reqs -> Request] /\ row \in SessionRow /\ report \in BOOLEAN
  BY DEF IInv, TypeOK, Gapless
<1>2. /\ e \in RowType /\ e.seq = req[r].seq /\ e.type = EventType(req[r].cmd, req[r].nth)
      /\ e.step = EventStep(req[r]) /\ e.id = IF req[r].nth = 1 THEN req[r].id ELSE Fresh
  BY EventFacts
<1>3. e.seq = n
  BY <1>1, MaxSeqGapless DEF AppendOutcome
<1>4. EntryOK(log', n) /\ (e.type = "session.closed" => report)
  BY NewEntryOK
<1>5. /\ log' = Append(log, e) /\ log' \in Seq(RowType) /\ n \in Nat /\ log'[n] = e
      /\ \A i \in DOMAIN log : log'[i] = log[i]
      /\ DOMAIN log' = (DOMAIN log) \cup {n}
  <2>1. log' = Append(log, e)
    OBVIOUS
  <2> HIDE DEF e
  <2>2. log' \in Seq(RowType) /\ Len(log') = Len(log) + 1 /\ n \in Nat
    BY <1>1, <1>2, <2>1
  <2>3. log'[n] = e /\ \A i \in DOMAIN log : log'[i] = log[i]
    BY <1>1, <1>2, <2>1
  <2>4. DOMAIN log' = 1 .. Len(log) + 1
    BY <1>1, <1>2, <2>1
  <2>5. DOMAIN log' = (DOMAIN log) \cup {n}
    BY <1>1, <2>4
  <2> QED
    BY <2>1, <2>2, <2>3, <2>5
<1> HIDE DEF e
<1>6. \A t, s : /\ Occurs(log, t, s) => Occurs(log', t, s)
                /\ \A i \in DOMAIN log :
                     OccursBefore(log, i, t, s) => OccursBefore(log', i, t, s)
  <2> SUFFICES ASSUME NEW t, NEW s
               PROVE  /\ Occurs(log, t, s) => Occurs(log', t, s)
                      /\ \A i \in DOMAIN log :
                           OccursBefore(log, i, t, s) => OccursBefore(log', i, t, s)
    OBVIOUS
  <2>1. log \in Seq(RowType) /\ e \in RowType /\ log' = Append(log, e)
    BY <1>1, <1>2, <1>5
  <2> QED
    BY ONLY <2>1, OccursAppend
<1>7. /\ req' \in [Reqs -> Request] /\ req'[r] = q /\ \A p \in Reqs : p # r => req'[p] = req[p]
      /\ q.id = req[r].id /\ q.cmd = req[r].cmd /\ q.step = req[r].step
  BY <1>1 DEF Continues
<1> HIDE DEF n
<1>8. TypeOK'
  BY <1>1, <1>5, <1>7 DEF TypeOK
<1>9. Gapless'
  BY <1>1, <1>3, <1>5 DEF Gapless
<1>10. RowOK(log, row)'
  <2>1. RowOK(log, row)
    BY DEF IInv
  <2> QED
    BY <1>6, <2>1, RowOKGrows
<1>11. ReportEarned'
  BY <1>6 DEF IInv, ReportEarned, Completed
<1>12. ClosedHasReport'
  BY <1>4, <1>5 DEF IInv, ClosedHasReport
<1>13. Entries'
  <2> SUFFICES ASSUME NEW i \in DOMAIN log' PROVE EntryOK(log', i)
    BY DEF Entries
  <2>1. CASE i = n
    BY <1>4, <2>1
  <2>2. CASE i \in DOMAIN log
    <3>1. EntryOK(log, i) /\ log'[i] = log[i]
      BY <1>5, <2>2 DEF IInv, Entries
    <3> QED
      BY <1>6, <2>2, <3>1 DEF EntryOK
  <2> QED
    BY <1>5, <2>1, <2>2
<1>14. Locals'
  <2> SUFFICES ASSUME NEW p \in Reqs PROVE LocalOK(log', report', req'[p])
    BY DEF Locals
  <2>1. LocalOK(log, report, req[p])
    BY DEF IInv, Locals
  <2>4. \A i \in DOMAIN log : i \in DOMAIN log' /\ log'[i] = log[i]
    BY <1>5
  <2>5. \A t, s : Occurs(log, t, s) => Occurs(log', t, s)
    BY <1>6
  <2>2. LocalOK(log', report, req[p])
    <3>1. report \in BOOLEAN /\ (report => report)
      BY <1>1
    <3> QED
      BY ONLY <2>1, <2>4, <2>5, <3>1, LocalOKGrows
  <2>3. LocalOK(log', report, q)
    BY DEF Continues
  <2> QED
    BY <1>7, <2>2, <2>3
<1>15. PostedIds'
  BY <1>7 DEF IInv, PostedIds
<1>16. Owned'
  <2> SUFFICES ASSUME NEW i \in DOMAIN log', log'[i].id # Fresh
               PROVE  \E p \in Reqs : OwnRow(i, p)'
    BY DEF Owned
  <2>1. CASE i \in DOMAIN log
    <3>1. PICK p \in Reqs : OwnRow(i, p)
      BY <1>5, <2>1 DEF IInv, Owned
    <3>2. OwnRow(i, p)'
      BY <1>5, <1>7, <2>1, <3>1 DEF OwnRow, Runs
    <3> QED
      BY <3>2
  <2>2. CASE i = n
    <3>1. e.id # Fresh /\ req[r].nth = 1 /\ e.id = req[r].id
      BY <1>2, <1>5, <2>2
    <3>2. req[r].cmd \in {"advance", "skip"} => EventStep(req[r]) = req[r].step
      BY <3>1 DEF EventStep
    <3>3. OwnRow(i, r)'
      BY <1>2, <1>5, <1>7, <2>2, <3>1, <3>2 DEF OwnRow, Runs
    <3> QED
      BY <3>3
  <2> QED
    BY <1>5, <2>1, <2>2
<1> QED
  BY <1>8, <1>9, <1>10, <1>11, <1>12, <1>13, <1>14, <1>15, <1>16 DEF IInv

LEMMA StoreIInv ==
  ASSUME IInv, NEW r \in Reqs, Store(r)
  PROVE  IInv'
<1> DEFINE e == Event(req[r])
           outcome == AppendOutcome(log, e)
<1>1. At(r, "append") /\ row' = row /\ report' = report
  BY DEF Store
<1>2. CASE outcome = "stored"
  <2>1. log' = Append(log, e) /\ AfterStore(r)
    BY <1>2 DEF Store
  <2>2. \A t, s : /\ Occurs(log, t, s) => Occurs(log', t, s)
                  /\ (e.type = t /\ e.step = s) => Occurs(log', t, s)
    BY <1>1, <2>1, EventFacts, OccursAppend, TypeFacts
  <2>3. Occurs(log', EventType(req[r].cmd, req[r].nth), EventStep(req[r]))
    BY <1>1, <2>2, EventFacts
  <2>5. \A i \in DOMAIN log : i \in DOMAIN log' /\ log'[i] = log[i]
    <3>1. log \in Seq(RowType) /\ e \in RowType
      BY <1>1, EventFacts, TypeFacts
    <3> HIDE DEF e
    <3> QED
      BY <2>1, <3>1
  <2>4. PICK q \in Request : Continues(r, log', q)
    BY <1>1, <2>1, <2>2, <2>3, <2>5, AfterStoreOK
  <2> QED
    BY <1>1, <1>2, <2>1, <2>4, StoredIInv
<1>3. CASE outcome # "stored"
  <2>1. Finish(r, outcome) /\ UNCHANGED <<log, row, report>>
    BY <1>3 DEF Store
  <2>2. outcome \in Results \ {"accepted"}
    BY <1>3, RefusalResults DEF AppendOutcome
  <2> QED
    BY <2>1, <2>2, RefuseIInv
<1> QED
  BY <1>2, <1>3

LEMMA LastStepsIInv ==
  ASSUME IInv, NEW r \in Reqs, Reread(r) \/ Crash(r)
  PROVE  IInv'
<1>1. CASE Reread(r)
  <2>1. At(r, "reread") /\ UNCHANGED <<log, row, report>>
    BY <1>1 DEF Reread
  <2>2. CASE row.status = "finalized"
    <3>1. "finalized" \in Results \ {"accepted"}
      BY DEF Results, Refusals
    <3> QED
      BY <1>1, <2>1, <2>2, <3>1, RefuseIInv DEF Reread
  <2>3. CASE row.status # "finalized"
    <3>1. Finish(r, "accepted")
      BY <1>1, <2>3 DEF Reread
    <3>2. req[r].cmd = "voice" /\ Occurs(log, EventType("voice", 1), req[r].step)
      BY <2>1, TypeFacts DEF LocalOK, WhereOK, AdvanceOK, At, EventType
    <3> QED
      BY <2>1, <3>1, <3>2, RefusalResults, FinishIInv
  <2> QED
    BY <2>2, <2>3
<1>2. CASE Crash(r)
  BY <1>2, RefusalResults, RefuseIInv DEF Crash
<1> QED
  BY <1>1, <1>2

LEMMA StutterIInv ==
  ASSUME IInv, UNCHANGED vars
  PROVE  IInv'
<1>1. log' = log /\ row' = row /\ report' = report /\ req' = req
  BY DEF vars
<1>2. TypeOK' /\ Gapless' /\ RowOK(log, row)' /\ ReportEarned' /\ ClosedHasReport'
  BY <1>1 DEF IInv, TypeOK, Gapless, ReportEarned, Completed, ClosedHasReport
<1>3. Entries' /\ Locals'
  BY <1>1 DEF IInv, Entries, Locals
<1>4. Owned' /\ PostedIds'
  BY <1>1 DEF IInv, Owned, OwnRow, Runs, PostedIds
<1> QED
  BY <1>2, <1>3, <1>4 DEF IInv

LEMMA NextIInv == IInv /\ [Next]_vars => IInv'
<1> SUFFICES ASSUME IInv, [Next]_vars PROVE IInv'
  OBVIOUS
<1>1. CASE UNCHANGED vars
  BY <1>1, StutterIInv
<1>2. CASE Next
  <2>1. PICK r \in Reqs :
          \/ Post(r) \/ Call(r) \/ Find(r)
          \/ LoadAdvance(r) \/ LoadSpeech(r) \/ LoadSkip(r) \/ LoadPause(r) \/ LoadResume(r)
          \/ LoadNote(r) \/ LoadFinalize(r)
          \/ Gate(r) \/ Check(r) \/ Scan(r) \/ ReadReport(r)
          \/ SaveStep(r) \/ SavePause(r) \/ SaveResume(r) \/ SaveFinalized(r) \/ SaveReport(r)
          \/ ReadSeq(r) \/ Store(r) \/ Reread(r)
          \/ Crash(r)
    BY <1>2 DEF Next
  <2>2. CASE Post(r) \/ Call(r) \/ Find(r)
    BY <2>2, PostIInv, CallIInv, FindIInv
  <2>3. CASE \/ LoadAdvance(r) \/ LoadSpeech(r) \/ LoadSkip(r) \/ LoadPause(r) \/ LoadResume(r)
             \/ LoadNote(r) \/ LoadFinalize(r)
    BY <2>3, LoadIInv
  <2>4. CASE Gate(r) \/ Check(r) \/ Scan(r) \/ ReadReport(r)
    BY <2>4, QueryIInv
  <2>5. CASE SaveStep(r)
    BY <2>5, SaveStepIInv
  <2>6. CASE SavePause(r) \/ SaveResume(r) \/ SaveFinalized(r) \/ SaveReport(r)
    BY <2>6, SaveStateIInv
  <2>7. CASE ReadSeq(r) \/ Store(r)
    BY <2>7, ReadSeqIInv, StoreIInv
  <2>8. CASE Reread(r) \/ Crash(r)
    BY <2>8, LastStepsIInv
  <2> QED
    BY <2>1, <2>2, <2>3, <2>4, <2>5, <2>6, <2>7, <2>8
<1> QED
  BY <1>1, <1>2

LEMMA Inductive == Spec => []IInv
  BY InitIInv, NextIInv, PTL DEF Spec

-----------------------------------------------------------------------------
(* Requests, rows and reports stay within their types: in particular no    *)
(* save moves the session past the last step of its procedure.             *)
THEOREM TypeCorrect == Spec => []TypeOK
<1>1. IInv => TypeOK
  BY DEF IInv
<1> QED
  BY <1>1, Inductive, PTL

(* No step that asks for a photo is completed without one (contract 4.4).  *)
THEOREM PhotoBeforeCompletion == Spec => []PhotoGate
<1>1. IInv => PhotoGate
  BY DEF IInv, Entries, EntryOK, PhotoGate
<1> QED
  BY <1>1, Inductive, PTL

(* The session is only ever at a step whose predecessor was dealt with,    *)
(* whatever stale snapshots are saved over it.                             *)
THEOREM PositionsEarned == Spec => []PositionEarned
<1>1. IInv => PositionEarned
  BY DEF IInv, RowOK, PositionEarned, Completed, Skipped
<1> QED
  BY <1>1, Inductive, PTL

(* step.entered follows the completion of the step before.                 *)
THEOREM EntersInOrder == Spec => []EnteredAfterCompleted
<1>1. IInv => EnteredAfterCompleted
  BY DEF IInv, Entries, EntryOK, EnteredAfterCompleted
<1> QED
  BY <1>1, Inductive, PTL

(* Finalization, its report and its announcement come after the last step. *)
THEOREM FinalizesAtTheEnd == Spec => []FinalizedAfterLast
<1>1. IInv => FinalizedAfterLast
  BY DEF IInv, RowOK, ReportEarned, Entries, EntryOK, FinalizedAfterLast, Completed
<1> QED
  BY <1>1, Inductive, PTL

(* session.closed is announced only once the report is finalized.          *)
THEOREM ClosesWithReport == Spec => []ClosedHasReport
<1>1. IInv => ClosedHasReport
  BY DEF IInv
<1> QED
  BY <1>1, Inductive, PTL

(* step.paused follows the session.paused of its step.                     *)
THEOREM PausesInOrder == Spec => []StepPausedFollows
<1>1. IInv => StepPausedFollows
  BY DEF IInv, Entries, EntryOK, StepPausedFollows
<1> QED
  BY <1>1, Inductive, PTL

(* What a technician was told is in the log, retries included, unless the  *)
(* client gave the id to two bodies and was answered for the other one.    *)
THEOREM AnswersRecorded == Spec => []AcceptedIsRecorded
<1>1. IInv => AcceptedIsRecorded
  <2> SUFFICES ASSUME IInv, NEW r \in Reqs, Reused(log, req[r]) PROVE IdOfAnother(r)
    BY DEF IInv, Locals, LocalOK, AnswerOK, AcceptedIsRecorded, Recorded, Runs
  <2>1. PICK i \in DOMAIN log : log[i].id = req[r].id /\ OtherRow(log[i], req[r])
    BY DEF Reused
  <2>2. req[r].id # Fresh
    BY DEF Reused
  <2>3. PICK p \in Reqs : OwnRow(i, p)
    BY <2>1, <2>2 DEF IInv, Owned
  <2>4. ~SameBody(r, p)
    BY <2>1, <2>3 DEF OwnRow, OtherRow, SameBody, Runs
  <2> QED
    BY <2>1, <2>2, <2>3, <2>4 DEF IdOfAnother
<1> QED
  BY <1>1, Inductive, PTL

-----------------------------------------------------------------------------
(* The session carries out Procedure.                                      *)

LEMMA InitRefines == Init => Promise!Init
<1> SUFFICES ASSUME Init PROVE Promise!Init
  OBVIOUS
<1>1. DOMAIN log = {} /\ row.step = 0 /\ report = FALSE
  BY DEF Init, NewSession
<1>2. StepsOf("photo") = {} /\ StepsOf("step.completed") = {} /\ StepsOf("step.skipped") = {}
  BY <1>1 DEF StepsOf
<1> QED
  BY <1>1, <1>2 DEF Promise!Init

(* What a step can change besides the requests: one of the row, the report *)
(* and the table.                                                          *)
StoresRow(e) == log' = Append(log, e) /\ row' = row /\ report' = report

LEMMA StepShape ==
  ASSUME IInv, NEW r \in Reqs,
         \/ Post(r) \/ Call(r) \/ Find(r)
         \/ LoadAdvance(r) \/ LoadSpeech(r) \/ LoadSkip(r) \/ LoadPause(r) \/ LoadResume(r)
         \/ LoadNote(r) \/ LoadFinalize(r)
         \/ Gate(r) \/ Check(r) \/ Scan(r) \/ ReadReport(r)
         \/ SaveStep(r) \/ SavePause(r) \/ SaveResume(r) \/ SaveFinalized(r) \/ SaveReport(r)
         \/ ReadSeq(r) \/ Store(r) \/ Reread(r)
         \/ Crash(r)
  PROVE  \/ log' = log /\ report' = report
         \/ log' = log /\ row' = row /\ report' = TRUE
         \/ \E e \in RowType : StoresRow(e)
<1>1. CASE \/ Post(r) \/ Call(r) \/ Find(r)
           \/ LoadAdvance(r) \/ LoadSpeech(r) \/ LoadSkip(r) \/ LoadPause(r) \/ LoadResume(r)
           \/ LoadNote(r) \/ LoadFinalize(r)
           \/ Gate(r) \/ Check(r) \/ Scan(r) \/ ReadReport(r) \/ ReadSeq(r)
           \/ Reread(r) \/ Crash(r)
  BY <1>1 DEF Post, Call, Find, LoadAdvance, LoadSpeech, LoadSkip, LoadPause, LoadResume, LoadNote,
              LoadFinalize, Gate, Check, Scan, ReadReport, ReadSeq, Reread, Crash
<1>2. CASE SaveStep(r) \/ SavePause(r) \/ SaveResume(r) \/ SaveFinalized(r) \/ SaveReport(r)
  BY <1>2 DEF SaveStep, SavePause, SaveResume, SaveFinalized, SaveReport
<1>3. CASE Store(r)
  <2>1. Event(req[r]) \in RowType
    BY <1>3, EventFacts DEF Store
  <2>2. \/ log' = Append(log, Event(req[r])) /\ row' = row /\ report' = report
        \/ log' = log /\ report' = report
    BY <1>3 DEF Store
  <2> QED
    BY <2>1, <2>2 DEF StoresRow
<1> QED
  BY <1>1, <1>2, <1>3

(* What the table says of the steps changes by the stored row alone.       *)
LEMMA StepsOfStored ==
  ASSUME log \in Seq(RowType), NEW e \in RowType, StoresRow(e), NEW t
  PROVE  StepsOf(t)' = StepsOf(t) \cup (IF e.type = t THEN {e.step} ELSE {})
<1>1. /\ Len(log) \in Nat /\ DOMAIN log = 1 .. Len(log) /\ DOMAIN log' = 1 .. Len(log) + 1
      /\ log'[Len(log) + 1] = e /\ \A i \in 1 .. Len(log) : log'[i] = log[i]
  BY DEF StoresRow
<1>2. DOMAIN log' = (DOMAIN log) \cup {Len(log) + 1} /\ \A i \in DOMAIN log : log'[i] = log[i]
  BY <1>1
<1> QED
  BY <1>1, <1>2 DEF StepsOf

LEMMA StoreRefines ==
  ASSUME IInv, IInv', NEW e \in RowType, StoresRow(e)
  PROVE  [Promise!Next]_(Promise!vars)
<1>1. /\ log \in Seq(RowType) /\ Len(log) \in Nat /\ row' = row /\ report' = report
      /\ log' = Append(log, e)
  BY DEF IInv, TypeOK, StoresRow
<1>2. Len(log) + 1 \in DOMAIN log' /\ log'[Len(log) + 1] = e
  BY <1>1
<1>3. \A i \in 1 .. Len(log) : log'[i] = log[i] /\ i \in DOMAIN log
  BY <1>1
<1>4. e.step \in 0 .. NumSteps
  BY DEF RowType, AnyStep
<1>5. EntryOK(log', Len(log) + 1)
  BY <1>2 DEF IInv, Entries
<1>6. \A t : StepsOf(t)' = StepsOf(t) \cup (IF e.type = t THEN {e.step} ELSE {})
  BY <1>1, StepsOfStored
<1>7. CASE e.type = "photo"
  <2>1. Promise!Photograph(e.step)
    BY <1>1, <1>6, <1>7 DEF Promise!Photograph
  <2> QED
    BY <1>4, <2>1 DEF Promise!Next
<1>8. CASE e.type = "step.completed"
  <2>1. e.step \in PhotoSteps => e.step \in StepsOf("photo")
    <3> SUFFICES ASSUME e.step \in PhotoSteps PROVE e.step \in StepsOf("photo")
      OBVIOUS
    <3>1. PICK j \in 1 .. Len(log) + 1 - 1 : log'[j].type = "photo" /\ log'[j].step = e.step
      BY <1>2, <1>5, <1>8 DEF EntryOK, OccursBefore
    <3>2. j \in 1 .. Len(log)
      BY <1>1, <3>1
    <3> QED
      BY <1>3, <3>1, <3>2 DEF StepsOf
  <2>2. Promise!Complete(e.step)
    BY <1>1, <1>6, <1>8, <2>1 DEF Promise!Complete
  <2> QED
    BY <1>4, <2>2 DEF Promise!Next
<1>9. CASE e.type = "step.skipped"
  <2>1. e.step \notin CriticalSteps
    BY <1>2, <1>5, <1>9 DEF EntryOK
  <2>2. Promise!Skip(e.step)
    BY <1>1, <1>6, <1>9, <2>1 DEF Promise!Skip
  <2> QED
    BY <1>4, <2>2 DEF Promise!Next
<1>10. CASE e.type \notin {"photo", "step.completed", "step.skipped"}
  BY <1>1, <1>6, <1>10 DEF Promise!vars
<1> QED
  BY <1>7, <1>8, <1>9, <1>10

LEMMA NextRefines ==
  IInv /\ IInv' /\ [Next]_vars => [Promise!Next]_(Promise!vars)
<1> SUFFICES ASSUME IInv, IInv', [Next]_vars PROVE [Promise!Next]_(Promise!vars)
  OBVIOUS
<1>1. CASE UNCHANGED vars
  BY <1>1 DEF vars, StepsOf, Promise!vars
<1>2. CASE log' = log /\ report' = report
  <2>1. \A t : StepsOf(t)' = StepsOf(t)
    BY <1>2 DEF StepsOf
  <2>2. row'.step \in 0 .. Last
    BY DEF IInv, TypeOK, SessionRow
  <2>3. row'.step = 0 \/ row'.step - 1 \in StepsOf("step.completed") \cup StepsOf("step.skipped")
    BY <1>2, <2>2 DEF IInv, RowOK, Occurs, StepsOf
  <2>4. Promise!Move(row'.step)
    BY <1>2, <2>1, <2>3 DEF Promise!Move
  <2> QED
    BY <2>2, <2>4 DEF Promise!Next, Promise!Last, Last
<1>3. CASE log' = log /\ row' = row /\ report' = TRUE
  <2>1. \A t : StepsOf(t)' = StepsOf(t)
    BY <1>3 DEF StepsOf
  <2>2. Last \in StepsOf("step.completed")
    BY <1>3 DEF IInv, ReportEarned, Completed, Occurs, StepsOf
  <2>3. Promise!Close
    BY <1>3, <2>1, <2>2 DEF Promise!Close, Promise!Last, Last
  <2> QED
    BY <2>3 DEF Promise!Next
<1>4. CASE \E e \in RowType : StoresRow(e)
  BY <1>4, StoreRefines
<1>5. CASE Next
  BY <1>2, <1>3, <1>4, <1>5, StepShape DEF Next
<1> QED
  BY <1>1, <1>5

(* Every behaviour of the session, under any interleaving of its requests  *)
(* and with any of them lost, is one of Procedure.                         *)
THEOREM SessionImplementsProcedure == Spec => Implements
  BY InitRefines, Inductive, NextRefines, PTL DEF Spec, Implements, Promise!Spec

(* Positions, step.entered and step.paused follow what has to precede them. *)
THEOREM StepsTakenInOrder == Spec => []StepsInOrder
<1>1. PositionEarned /\ EnteredAfterCompleted /\ StepPausedFollows => StepsInOrder
  BY DEF StepsInOrder
<1> QED
  BY PositionsEarned, EntersInOrder, PausesInOrder, <1>1, PTL

(* A session ends after its last step, and says so after its report. *)
THEOREM ClosesInOrder == Spec => []ClosedInOrder
<1>1. FinalizedAfterLast /\ ClosedHasReport => ClosedInOrder
  BY DEF ClosedInOrder
<1> QED
  BY FinalizesAtTheEnd, ClosesWithReport, <1>1, PTL
=============================================================================
