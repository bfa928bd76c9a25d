-------------------------- MODULE LiveReportProofs --------------------------
(***************************************************************************)
(* What holds of LiveReport for any number of requests.                    *)
(*                                                                         *)
(* Requests save what they read several awaits earlier, so that each       *)
(* invariant rests on what a request carries: every snapshot it saves from *)
(* is a draft, a finalization builds its contents only after the session   *)
(* is saved as finalized, and saves the report only after its PDF.  The    *)
(* hash and the PDF agree as long as one request finalizes: a final report *)
(* then means that this request has saved it (Sealed).                     *)
(***************************************************************************)
EXTENDS LiveReport, TLAPS

(* The facts a request carries: f, c, p are finalized, closedAt and pdf.   *)
Knows(q, f, c, p) ==
  /\ q.pc = "idle" => q.cmd = "get"
  /\ q.pc \in {"build", "save", "saveSession", "put", "saveReport"} => q.snap \in Draft
  /\ q.pc = "build" => q.cmd \in {"event", "finalize"}
  /\ q.pc \in {"saveSession", "put", "saveReport", "close"} => q.cmd = "finalize"
  /\ (q.pc \in {"build", "put", "saveReport"} /\ q.cmd = "finalize") => f
  /\ q.pc \in {"put", "saveReport"} => q.content >= Shown(c)
  /\ q.pc = "saveReport" => p # {}

Locals == \A r \in Reqs : Knows(req[r], finalized, closedAt, pdf)

(* The request q has saved the final report, if it has not failed since.   *)
Sealing(q) == q.cmd = "finalize" /\ q.pc \in {"close", "done"}

Sealed ==
  /\ report.status = "final" => \E r \in Reqs : Sealing(req[r])
  /\ FinalizedByOne =>
       \A r \in Reqs : At(r, "saveReport") => pdf = {req[r].content}

IInv ==
  /\ TypeOK
  /\ closedAt <= events
  /\ report.status = "final" => finalized
  /\ FinalReportComplete /\ FinalReportHasPdf /\ SealMatchesPdf
  /\ Locals
  /\ Sealed

(* More events, no fewer of them shown. *)
LEMMA ShownGrows ==
  ASSUME NEW m \in Nat, NEW n \in Nat, m <= n
  PROVE  Shown(m) \in Nat /\ Shown(n) \in Nat /\ Shown(n) >= Shown(m)
  BY LimitAssumption DEF Shown

LEMMA InitIInv == Init => IInv
<1> SUFFICES ASSUME Init PROVE IInv
  OBVIOUS
<1> USE DEF Init
<1>1. Idle \in Request
  BY DEF Idle, Request, Labels, Results, Content, Row
<1>2. TypeOK
  BY <1>1 DEF TypeOK, Row
<1>3. Locals
  BY DEF Locals, Knows, Idle
<1>4. report.status = "none"
  BY DEF Nothing
<1>5. \A r \in Reqs : ~At(r, "saveReport")
  BY DEF At, Idle
<1>6. Sealed
  BY <1>4, <1>5 DEF Sealed
<1>7. closedAt <= events
  OBVIOUS
<1>8. FinalReportComplete /\ FinalReportHasPdf /\ SealMatchesPdf
  BY <1>4 DEF FinalReportComplete, FinalReportHasPdf, SealMatchesPdf
<1> QED
  BY <1>2, <1>3, <1>4, <1>6, <1>7, <1>8 DEF IInv

LEMMA TypeFacts ==
  ASSUME IInv, NEW r \in Reqs
  PROVE  /\ req \in [Reqs -> Request] /\ req[r] \in Request
         /\ events \in Nat /\ closedAt \in Nat /\ closedAt <= events
         /\ finalized \in BOOLEAN /\ report \in Row /\ pdf \in SUBSET Content
         /\ Knows(req[r], finalized, closedAt, pdf)
  BY DEF IInv, TypeOK, Locals

LEMMA DraftIsDraft == \A d \in Draft : d.status = "draft" /\ d \in Row /\ d # Nothing
  BY DEF Draft, Row, Nothing

(* No request but r becomes a finalization, and none ceases to be one.     *)
LEMMA OneMoves ==
  ASSUME IInv, NEW r \in Reqs, NEW q \in Request, req' = [req EXCEPT ![r] = q],
         req[r].cmd = "finalize" => q.cmd = "finalize",
         FinalizedByOne'
  PROVE  FinalizedByOne
<1>1. req'[r] = q /\ \A p \in Reqs : p # r => req'[p] = req[p]
  BY DEF IInv, TypeOK
<1> QED
  BY <1>1 DEF FinalizedByOne, Runs

(* A request moves while the session row and the storage stay, and the     *)
(* report stays or is a draft.                                             *)
LEMMA MoveIInv ==
  ASSUME IInv, NEW r \in Reqs, NEW q \in Request, req' = [req EXCEPT ![r] = q],
         UNCHANGED <<finalized, pdf, closedAt>>,
         events' \in Nat, events' >= events,
         report' = report \/ report' \in Draft,
         Knows(q, finalized, closedAt, pdf), q.pc # "saveReport",
         req[r].cmd = "finalize" => q.cmd = "finalize",
         Sealing(req[r]) => Sealing(q)
  PROVE  IInv'
<1>1. req'[r] = q /\ \A p \in Reqs : p # r => req'[p] = req[p]
  BY DEF IInv, TypeOK
<1>2. report' \in Row
  BY DraftIsDraft DEF IInv, TypeOK
<1>3. TypeOK'
  BY <1>2 DEF IInv, TypeOK
<1>4. closedAt' <= events'
  BY TypeFacts
<1>5. report'.status = "final" => report' = report
  BY DraftIsDraft
<1>6. (report.status = "final" => finalized)'
  BY <1>5 DEF IInv
<1>7. FinalReportComplete' /\ FinalReportHasPdf'
  BY <1>5 DEF IInv, FinalReportComplete, FinalReportHasPdf
<1>8. FinalizedByOne' => FinalizedByOne
  BY OneMoves
<1>9. SealMatchesPdf'
  BY <1>5, <1>8 DEF IInv, SealMatchesPdf
<1>10. Locals'
  BY <1>1 DEF IInv, Locals
<1>11. Sealed'
  BY <1>1, <1>5, <1>8 DEF IInv, Sealed, At
<1> QED
  BY <1>3, <1>4, <1>6, <1>7, <1>9, <1>10, <1>11 DEF IInv

(* A request ends, with any result.                                        *)
LEMMA FinishIInv ==
  ASSUME IInv, NEW r \in Reqs, NEW result \in Results, Finish(r, result),
         UNCHANGED <<finalized, pdf, closedAt>>,
         events' \in Nat, events' >= events,
         report' = report \/ report' \in Draft
  PROVE  IInv'
<1> DEFINE q == [req[r] EXCEPT !.pc = "done", !.result = result]
<1>1. req \in [Reqs -> Request] /\ req[r] \in Request
  BY TypeFacts
<1>2. req' = [req EXCEPT ![r] = q]
  BY <1>1 DEF Finish
<1>3. q.pc = "done" /\ q.cmd = req[r].cmd
  BY <1>1 DEF Request
<1>4. "done" \in Labels
  BY DEF Labels
<1>5. q \in Request
  BY <1>1, <1>4 DEF Request
<1> HIDE DEF q
<1>6. Knows(q, finalized, closedAt, pdf)
  BY <1>3 DEF Knows
<1>7. Sealing(req[r]) => Sealing(q)
  BY <1>3 DEF Sealing
<1> QED
  BY <1>2, <1>3, <1>5, <1>6, <1>7, MoveIInv

(* A request goes on to a point at which it carries no fact.               *)
LEMMA GotoIInv ==
  ASSUME IInv, NEW r \in Reqs, NEW l \in {"report", "ensure", "ensureBuild"}, Goto(r, l),
         req[r].pc \notin {"close", "done"},
         UNCHANGED <<events, finalized, report, pdf, closedAt>>
  PROVE  IInv'
<1> DEFINE q == [req[r] EXCEPT !.pc = l]
<1>1. req \in [Reqs -> Request] /\ req[r] \in Request /\ events \in Nat
  BY TypeFacts
<1>2. req' = [req EXCEPT ![r] = q]
  BY <1>1 DEF Goto
<1>3. q.pc = l /\ q.cmd = req[r].cmd
  BY <1>1 DEF Request
<1>4. l \in Labels
  BY DEF Labels
<1>5. q \in Request
  BY <1>1, <1>4 DEF Request
<1> HIDE DEF q
<1>6. Knows(q, finalized, closedAt, pdf)
  BY <1>3 DEF Knows
<1>7. ~Sealing(req[r])
  BY DEF Sealing
<1>8. events' \in Nat /\ events' >= events
  BY <1>1
<1> QED
  BY <1>2, <1>3, <1>5, <1>6, <1>7, <1>8, MoveIInv

LEMMA StoreEventIInv ==
  ASSUME IInv, NEW r \in Reqs, StoreEvent(r) PROVE IInv'
<1> DEFINE q == [req[r] EXCEPT !.pc = "session", !.cmd = "event"]
<1>1. /\ req \in [Reqs -> Request] /\ req[r] \in Request /\ events \in Nat
      /\ Knows(req[r], finalized, closedAt, pdf) /\ req[r].pc = "idle"
  BY TypeFacts DEF StoreEvent, At
<1>2. req' = [req EXCEPT ![r] = q] /\ UNCHANGED <<finalized, report, pdf, closedAt>>
      /\ events' = events + 1
  BY <1>1 DEF StoreEvent
<1>3. q.pc = "session" /\ q.cmd = "event"
  BY <1>1 DEF Request
<1>4. "session" \in Labels
  BY DEF Labels
<1>5. q \in Request
  BY <1>1, <1>4 DEF Request
<1> HIDE DEF q
<1>6. Knows(q, finalized, closedAt, pdf)
  BY <1>3 DEF Knows
<1>7. req[r].cmd = "get" /\ ~Sealing(req[r])
  BY <1>1 DEF Knows, Sealing
<1>8. events' \in Nat /\ events' >= events
  BY <1>1, <1>2
<1> QED
  BY <1>2, <1>3, <1>5, <1>6, <1>7, <1>8, MoveIInv

LEMMA CallIInv ==
  ASSUME IInv, NEW r \in Reqs, Call(r) PROVE IInv'
<1>1. /\ req \in [Reqs -> Request] /\ req[r] \in Request /\ events \in Nat
      /\ Knows(req[r], finalized, closedAt, pdf) /\ req[r].pc = "idle"
      /\ UNCHANGED <<events, finalized, report, pdf, closedAt>>
  BY TypeFacts DEF Call, At
<1>2. PICK cmd \in {"get", "finalize"} :
        req' = [req EXCEPT ![r].pc = IF cmd = "get" THEN "report" ELSE "session",
                           ![r].cmd = cmd]
  BY CommandsAssumption DEF Call
<1> DEFINE l == IF cmd = "get" THEN "report" ELSE "session"
           q == [req[r] EXCEPT !.pc = l, !.cmd = cmd]
<1>3. l \in {"report", "session"} /\ l \in Labels
  BY DEF Labels
<1> HIDE DEF l
<1>4. req' = [req EXCEPT ![r] = q]
  BY <1>1, <1>2 DEF l
<1>5. q.pc = l /\ q.cmd = cmd
  BY <1>1 DEF Request
<1>6. q \in Request
  BY <1>1, <1>3 DEF Request
<1> HIDE DEF q
<1>7. Knows(q, finalized, closedAt, pdf)
  BY <1>3, <1>5 DEF Knows
<1>8. req[r].cmd = "get" /\ ~Sealing(req[r])
  BY <1>1 DEF Knows, Sealing
<1>9. q.pc # "saveReport" /\ events' \in Nat /\ events' >= events
  BY <1>1, <1>3, <1>5
<1> QED
  BY <1>1, <1>4, <1>6, <1>7, <1>8, <1>9, MoveIInv

LEMMA ReadSessionIInv ==
  ASSUME IInv, NEW r \in Reqs, ReadSession(r) PROVE IInv'
<1>1. /\ UNCHANGED <<events, finalized, report, pdf, closedAt>> /\ events \in Nat
      /\ req[r].pc = "session"
  BY TypeFacts DEF ReadSession, At
<1>2. CASE finalized
  <2>1. \/ Finish(r, "ignored") /\ "ignored" \in Results
        \/ Finish(r, "refused") /\ "refused" \in Results
    BY <1>2 DEF ReadSession, Results
  <2> QED
    BY <1>1, <2>1, FinishIInv
<1>3. CASE ~finalized
  BY <1>1, <1>3, GotoIInv DEF ReadSession
<1> QED
  BY <1>2, <1>3

-----------------------------------------------------------------------------
(* What follows once the report is known, be it read or just inserted.     *)
LEMMA ProceedIInv ==
  ASSUME IInv, NEW r \in Reqs, NEW found \in Row \ {Nothing}, Proceed(r, found),
         req[r].pc \notin {"idle", "close", "done"},
         UNCHANGED <<events, finalized, pdf, closedAt>>,
         report' = report \/ report' \in Draft
  PROVE  IInv'
<1>1. /\ req \in [Reqs -> Request] /\ req[r] \in Request /\ events \in Nat
      /\ Knows(req[r], finalized, closedAt, pdf)
      /\ events' \in Nat /\ events' >= events
  BY TypeFacts
<1>2. ASSUME NEW result \in {"accepted", "ignored", "refused"}, Finish(r, result) PROVE IInv'
  <2>1. result \in Results
    BY <1>2 DEF Results
  <2> QED
    BY <1>1, <1>2, <2>1, FinishIInv
<1>3. CASE ~Runs(r, "get") /\ found.status # "final"
  <2> DEFINE l == IF Runs(r, "event") THEN "build" ELSE "saveSession"
             q == [req[r] EXCEPT !.pc = l, !.snap = found]
  <2>1. req' = [req EXCEPT ![r] = q]
    BY <1>1, <1>3 DEF Proceed
  <2>2. req[r].cmd \in {"event", "finalize"}
    BY <1>1, <1>3 DEF Request, Runs
  <2>3. /\ l \in {"build", "saveSession"} /\ l \in Labels
        /\ l = "build" => req[r].cmd = "event"
        /\ l = "saveSession" => req[r].cmd = "finalize"
    BY <2>2 DEF Labels, Runs
  <2> HIDE DEF l
  <2>4. q.pc = l /\ q.cmd = req[r].cmd /\ q.snap = found
    BY <1>1 DEF Request
  <2>5. q \in Request
    BY <1>1, <2>3 DEF Request
  <2>6. found \in Draft
    BY <1>3 DEF Row, Final
  <2> HIDE DEF q
  <2>7. Knows(q, finalized, closedAt, pdf)
    BY <2>3, <2>4, <2>6 DEF Knows
  <2>8. ~Sealing(req[r])
    BY DEF Sealing
  <2>9. q.pc # "saveReport"
    BY <2>3, <2>4
  <2> QED
    BY <1>1, <2>1, <2>4, <2>5, <2>7, <2>8, <2>9, MoveIInv
<1> QED
  BY <1>2, <1>3 DEF Proceed

LEMMA ReadReportIInv ==
  ASSUME IInv, NEW r \in Reqs, ReadReport(r) \/ Ensure(r) PROVE IInv'
<1>1. /\ UNCHANGED <<events, finalized, report, pdf, closedAt>>
      /\ req[r].pc \in {"report", "ensure"} /\ report \in Row
  BY TypeFacts DEF ReadReport, Ensure, At
<1>2. CASE report = Nothing
  <2>1. Goto(r, "ensure") \/ Goto(r, "ensureBuild")
    BY <1>2 DEF ReadReport, Ensure
  <2> QED
    BY <1>1, <2>1, GotoIInv
<1>3. CASE report # Nothing
  <2>1. Proceed(r, report)
    BY <1>3 DEF ReadReport, Ensure
  <2> QED
    BY <1>1, <1>3, <2>1, ProceedIInv
<1> QED
  BY <1>2, <1>3

LEMMA EnsureBuildIInv ==
  ASSUME IInv, NEW r \in Reqs, EnsureBuild(r) PROVE IInv'
<1> DEFINE q == [req[r] EXCEPT !.pc = "insert", !.content = Shown(events)]
<1>1. /\ req \in [Reqs -> Request] /\ req[r] \in Request /\ events \in Nat
      /\ UNCHANGED <<events, finalized, report, pdf, closedAt>>
      /\ req[r].pc = "ensureBuild" /\ Shown(events) \in Nat
  BY TypeFacts, ShownGrows DEF EnsureBuild, At
<1>2. req' = [req EXCEPT ![r] = q]
  BY <1>1 DEF EnsureBuild
<1>3. q.pc = "insert" /\ q.cmd = req[r].cmd
  BY <1>1 DEF Request
<1>4. "insert" \in Labels
  BY DEF Labels
<1>5. q \in Request
  BY <1>1, <1>4 DEF Request, Content
<1> HIDE DEF q
<1>6. Knows(q, finalized, closedAt, pdf)
  BY <1>3 DEF Knows
<1>7. ~Sealing(req[r]) /\ events' \in Nat /\ events' >= events
  BY <1>1 DEF Sealing
<1> QED
  BY <1>1, <1>2, <1>3, <1>5, <1>6, <1>7, MoveIInv

LEMMA InsertIInv ==
  ASSUME IInv, NEW r \in Reqs, Insert(r) PROVE IInv'
<1>1. /\ UNCHANGED <<events, finalized, pdf, closedAt>> /\ events \in Nat
      /\ req[r].pc = "insert" /\ req[r] \in Request
  BY TypeFacts DEF Insert, At
<1>2. CASE report = Nothing
  <2>1. NewDraft(r) \in Draft
    BY <1>1 DEF NewDraft, Draft, Request
  <2>2. NewDraft(r) \in Row \ {Nothing}
    BY <2>1, DraftIsDraft
  <2>3. report' = NewDraft(r) /\ Proceed(r, NewDraft(r))
    BY <1>2 DEF Insert
  <2> QED
    BY <1>1, <2>1, <2>2, <2>3, ProceedIInv
<1>3. CASE report # Nothing
  <2>1. Finish(r, "duplicate") /\ report' = report /\ "duplicate" \in Results
    BY <1>3 DEF Insert, Results
  <2> QED
    BY <1>1, <2>1, FinishIInv
<1> QED
  BY <1>2, <1>3

LEMMA BuildIInv ==
  ASSUME IInv, NEW r \in Reqs, Build(r) PROVE IInv'
<1> DEFINE l == IF Runs(r, "event") THEN "save" ELSE "put"
           q == [req[r] EXCEPT !.pc = l, !.content = Shown(events)]
<1>1. /\ req \in [Reqs -> Request] /\ req[r] \in Request
      /\ events \in Nat /\ closedAt \in Nat /\ closedAt <= events
      /\ UNCHANGED <<events, finalized, report, pdf, closedAt>>
      /\ req[r].pc = "build" /\ Knows(req[r], finalized, closedAt, pdf)
      /\ Shown(events) \in Nat /\ Shown(closedAt) \in Nat /\ Shown(events) >= Shown(closedAt)
  BY TypeFacts, ShownGrows DEF Build, At
<1>2. req' = [req EXCEPT ![r] = q]
  BY <1>1 DEF Build
<1>3. l \in {"save", "put"} /\ l \in Labels /\ (l = "put" => req[r].cmd = "finalize")
  BY <1>1 DEF Labels, Runs, Knows
<1> HIDE DEF l
<1>4. q.pc = l /\ q.cmd = req[r].cmd /\ q.snap = req[r].snap /\ q.content = Shown(events)
  BY <1>1 DEF Request
<1>5. q \in Request
  BY <1>1, <1>3 DEF Request, Content
<1> HIDE DEF q
<1>6. req[r].snap \in Draft /\ (req[r].cmd = "finalize" => finalized)
  BY <1>1 DEF Knows
<1>7. q.content >= Shown(closedAt)
  BY <1>1, <1>4
<1>8. Knows(q, finalized, closedAt, pdf)
  BY <1>3, <1>4, <1>6, <1>7 DEF Knows
<1>9. ~Sealing(req[r]) /\ events' \in Nat /\ events' >= events /\ q.pc # "saveReport"
  BY <1>1, <1>3, <1>4 DEF Sealing
<1> QED
  BY <1>1, <1>2, <1>4, <1>5, <1>8, <1>9, MoveIInv

(* What a builder writes back is a draft, one version after its snapshot.  *)
LEMMA SavedIsDraft ==
  ASSUME IInv, NEW r \in Reqs, Save(r)
  PROVE  report' \in Draft /\ report'.version > 1
<1>1. req[r] \in Request /\ req[r].snap \in Draft
  BY TypeFacts DEF Save, At, Knows
<1>2. req[r].content \in Content /\ req[r].snap.version \in Nat \ {0}
  BY <1>1 DEF Request, Draft
<1>3. report' = [req[r].snap EXCEPT !.content = req[r].content,
                                    !.version = req[r].snap.version + 1]
  BY DEF Save
<1>4. req[r].snap.version + 1 \in Nat \ {0} /\ req[r].snap.version + 1 > 1
  BY <1>2
<1> QED
  BY <1>1, <1>2, <1>3, <1>4 DEF Draft

LEMMA SaveIInv ==
  ASSUME IInv, NEW r \in Reqs, Save(r) PROVE IInv'
<1>1. events \in Nat /\ events' = events /\ UNCHANGED <<finalized, pdf, closedAt>>
      /\ Finish(r, "accepted") /\ "accepted" \in Results
  BY TypeFacts DEF Save, Results
<1>2. report' \in Draft
  BY SavedIsDraft
<1> QED
  BY <1>1, <1>2, FinishIInv

LEMMA CloseIInv ==
  ASSUME IInv, NEW r \in Reqs, Close(r) PROVE IInv'
<1>1. /\ events \in Nat /\ events' = events + 1
      /\ UNCHANGED <<finalized, report, pdf, closedAt>>
      /\ Finish(r, "accepted") /\ "accepted" \in Results
  BY TypeFacts DEF Close, Results
<1> QED
  BY <1>1, FinishIInv

LEMMA CrashIInv ==
  ASSUME IInv, NEW r \in Reqs, Crash(r) PROVE IInv'
<1>1. /\ events \in Nat /\ UNCHANGED <<events, finalized, report, pdf, closedAt>>
      /\ Finish(r, "lost") /\ "lost" \in Results
  BY TypeFacts DEF Crash, Results
<1> QED
  BY <1>1, FinishIInv

-----------------------------------------------------------------------------
(* The three saves of finalize.  A finalization at any of its points:      *)
LEMMA FinalizationFacts ==
  ASSUME IInv, NEW p \in Reqs, req[p].pc \in {"saveSession", "put", "saveReport", "close"}
  PROVE  /\ req[p].cmd = "finalize"
         /\ req[p].pc \in {"put", "saveReport"} => finalized
  BY TypeFacts DEF Knows

LEMMA SaveSessionIInv ==
  ASSUME IInv, NEW r \in Reqs, SaveSession(r) PROVE IInv'
<1> DEFINE q == [req[r] EXCEPT !.pc = "build"]
<1>1. /\ req \in [Reqs -> Request] /\ req[r] \in Request
      /\ events \in Nat /\ closedAt \in Nat /\ closedAt <= events
      /\ finalized \in BOOLEAN /\ report \in Row /\ pdf \in SUBSET Content
      /\ UNCHANGED <<events, report, pdf>> /\ finalized' = TRUE
      /\ closedAt' = IF finalized THEN closedAt ELSE events
      /\ req[r].pc = "saveSession" /\ Knows(req[r], finalized, closedAt, pdf)
  BY TypeFacts DEF SaveSession, At
<1>2. req' = [req EXCEPT ![r] = q]
  BY <1>1 DEF SaveSession, Goto
<1>3. q.pc = "build" /\ q.cmd = req[r].cmd /\ q.snap = req[r].snap
  BY <1>1 DEF Request
<1>4. "build" \in Labels
  BY DEF Labels
<1>5. q \in Request
  BY <1>1, <1>4 DEF Request
<1> HIDE DEF q
<1>6. req'[r] = q /\ \A p \in Reqs : p # r => req'[p] = req[p]
  BY <1>1, <1>2
<1>7. TypeOK'
  BY <1>1, <1>2, <1>5 DEF TypeOK
<1>8. closedAt' <= events'
  BY <1>1
<1>9. finalized => closedAt' = closedAt
  BY <1>1
<1>10. FinalReportComplete' /\ FinalReportHasPdf'
  BY <1>1, <1>9 DEF IInv, FinalReportComplete, FinalReportHasPdf
<1>11. FinalizedByOne' => FinalizedByOne
  BY <1>2, <1>3, <1>5, OneMoves
<1>12. SealMatchesPdf'
  BY <1>1, <1>11 DEF IInv, SealMatchesPdf
<1>13. Locals'
  <2> SUFFICES ASSUME NEW p \in Reqs
               PROVE  Knows(req'[p], finalized', closedAt', pdf')
    BY DEF Locals
  <2>1. CASE p = r
    <3>1. q.snap \in Draft /\ q.cmd = "finalize"
      BY <1>1, <1>3 DEF Knows
    <3> QED
      BY <1>1, <1>3, <1>6, <2>1, <3>1 DEF Knows
  <2>2. CASE p # r
    <3>1. Knows(req[p], finalized, closedAt, pdf)
      BY TypeFacts
    <3>2. req[p].pc \in {"put", "saveReport"} => finalized
      BY FinalizationFacts
    <3>3. Knows(req[p], TRUE, closedAt', pdf)
      BY <1>9, <3>1, <3>2 DEF Knows
    <3> QED
      BY <1>1, <1>6, <2>2, <3>3
  <2> QED
    BY <2>1, <2>2
<1>14. Sealed'
  <2>1. ~Sealing(req[r])
    BY <1>1 DEF Sealing
  <2> QED
    BY <1>1, <1>3, <1>6, <1>11, <2>1 DEF IInv, Sealed, At
<1> QED
  BY <1>1, <1>7, <1>8, <1>10, <1>12, <1>13, <1>14 DEF IInv

LEMMA PutIInv ==
  ASSUME IInv, NEW r \in Reqs, Put(r) PROVE IInv'
<1> DEFINE q == [req[r] EXCEPT !.pc = "saveReport"]
<1>1. /\ req \in [Reqs -> Request] /\ req[r] \in Request
      /\ events \in Nat /\ closedAt \in Nat /\ closedAt <= events
      /\ finalized \in BOOLEAN /\ report \in Row
      /\ UNCHANGED <<events, finalized, report, closedAt>> /\ pdf' = {req[r].content}
      /\ req[r].pc = "put" /\ Knows(req[r], finalized, closedAt, pdf)
  BY TypeFacts DEF Put, At
<1>2. req' = [req EXCEPT ![r] = q]
  BY <1>1 DEF Put, Goto
<1>3. /\ q.pc = "saveReport" /\ q.cmd = req[r].cmd /\ q.snap = req[r].snap
      /\ q.content = req[r].content
  BY <1>1 DEF Request
<1>4. "saveReport" \in Labels
  BY DEF Labels
<1>5. q \in Request /\ req[r].content \in Content
  BY <1>1, <1>4 DEF Request
<1> HIDE DEF q
<1>6. req'[r] = q /\ \A p \in Reqs : p # r => req'[p] = req[p]
  BY <1>1, <1>2
<1>7. TypeOK'
  BY <1>1, <1>2, <1>5 DEF TypeOK
<1>8. FinalReportComplete' /\ FinalReportHasPdf'
  BY <1>1 DEF IInv, FinalReportComplete, FinalReportHasPdf
<1>9. req[r].cmd = "finalize" /\ ~Sealing(req[r])
  BY <1>1, FinalizationFacts DEF Sealing
<1>10. ASSUME FinalizedByOne', NEW p \in Reqs, req[p].cmd = "finalize" PROVE p = r
  <2>1. FinalizedByOne
    BY <1>2, <1>3, <1>5, <1>10, OneMoves
  <2> QED
    BY <1>9, <1>10, <2>1 DEF FinalizedByOne, Runs
<1>11. FinalizedByOne' => report.status # "final"
  BY <1>9, <1>10 DEF IInv, Sealed, Sealing
<1>12. SealMatchesPdf'
  BY <1>1, <1>11 DEF SealMatchesPdf
<1>13. Locals'
  <2> SUFFICES ASSUME NEW p \in Reqs
               PROVE  Knows(req'[p], finalized', closedAt', pdf')
    BY DEF Locals
  <2>1. Knows(req[p], finalized, closedAt, pdf)
    BY TypeFacts
  <2> QED
    BY <1>1, <1>3, <1>6, <2>1 DEF Knows
<1>14. Sealed'
  <2>1. (report.status = "final" => \E p \in Reqs : Sealing(req[p]))'
    BY <1>1, <1>6, <1>9 DEF IInv, Sealed
  <2>2. ASSUME FinalizedByOne', NEW p \in Reqs, At(p, "saveReport")'
        PROVE  pdf' = {req'[p].content}
    <3>1. p # r => req[p].cmd = "finalize"
      BY <1>6, <2>2, FinalizationFacts DEF At
    <3>2. p = r
      BY <1>10, <2>2, <3>1
    <3> QED
      BY <1>1, <1>3, <1>6, <3>2
  <2> QED
    BY <2>1, <2>2 DEF Sealed
<1> QED
  BY <1>1, <1>7, <1>8, <1>12, <1>13, <1>14 DEF IInv

LEMMA SaveReportIInv ==
  ASSUME IInv, NEW r \in Reqs, SaveReport(r) PROVE IInv'
<1> DEFINE q == [req[r] EXCEPT !.pc = "close"]
<1>1. /\ req \in [Reqs -> Request] /\ req[r] \in Request
      /\ UNCHANGED <<events, finalized, pdf, closedAt>> /\ report' = FinalRow(r)
      /\ req[r].pc = "saveReport" /\ Knows(req[r], finalized, closedAt, pdf)
  BY TypeFacts DEF SaveReport, At
<1>2. req' = [req EXCEPT ![r] = q]
  BY <1>1 DEF SaveReport, Goto
<1>3. q.pc = "close" /\ q.cmd = req[r].cmd
  BY <1>1 DEF Request
<1>4. "close" \in Labels
  BY DEF Labels
<1>5. q \in Request /\ req[r].content \in Content
  BY <1>1, <1>4 DEF Request
<1> HIDE DEF q
<1>6. req'[r] = q /\ \A p \in Reqs : p # r => req'[p] = req[p]
  BY <1>1, <1>2
<1>7. /\ req[r].snap \in Draft /\ req[r].cmd = "finalize" /\ finalized
      /\ req[r].content >= Shown(closedAt) /\ pdf # {}
  BY <1>1 DEF Knows
<1>8. req[r].snap.version + 1 \in Nat \ {0}
  BY <1>7 DEF Draft
<1>9. report' \in Row
  BY <1>1, <1>5, <1>8 DEF FinalRow, Row, Final
<1>10. report'.content = req[r].content /\ report'.sha = req[r].content
  BY <1>1 DEF FinalRow
<1>11. TypeOK'
  BY <1>1, <1>2, <1>5, <1>9 DEF IInv, TypeOK
<1>12. FinalReportComplete' /\ FinalReportHasPdf'
  BY <1>1, <1>7, <1>10 DEF FinalReportComplete, FinalReportHasPdf
<1>13. FinalizedByOne' => FinalizedByOne
  BY <1>2, <1>3, <1>5, OneMoves
<1>14. SealMatchesPdf'
  <2>1. FinalizedByOne => pdf = {req[r].content}
    BY <1>1 DEF IInv, Sealed, At
  <2> QED
    BY <1>1, <1>10, <1>13, <2>1 DEF SealMatchesPdf
<1>15. Locals'
  <2> SUFFICES ASSUME NEW p \in Reqs
               PROVE  Knows(req'[p], finalized, closedAt, pdf)
    BY <1>1 DEF Locals
  <2>1. Knows(req[p], finalized, closedAt, pdf)
    BY TypeFacts
  <2> QED
    BY <1>3, <1>6, <1>7, <2>1 DEF Knows
<1>16. Sealed'
  <2>1. Sealing(req'[r])
    BY <1>3, <1>6, <1>7 DEF Sealing
  <2> QED
    BY <1>1, <1>3, <1>6, <1>13, <2>1 DEF IInv, Sealed, At
<1> QED
  BY <1>1, <1>7, <1>11, <1>12, <1>14, <1>15, <1>16 DEF IInv

-----------------------------------------------------------------------------
LEMMA StutterIInv == IInv /\ UNCHANGED vars => IInv'
  BY DEF vars, IInv, TypeOK, FinalReportComplete, FinalReportHasPdf, SealMatchesPdf, FinalizedByOne,
         Runs, Locals, Sealed, At

LEMMA NextIInv == IInv /\ [Next]_vars => IInv'
<1> SUFFICES ASSUME IInv, [Next]_vars PROVE IInv'
  OBVIOUS
<1>1. CASE Next
  BY <1>1, StoreEventIInv, CallIInv, ReadSessionIInv, ReadReportIInv, EnsureBuildIInv, InsertIInv,
     BuildIInv, SaveIInv, SaveSessionIInv, PutIInv, SaveReportIInv, CloseIInv, CrashIInv DEF Next
<1> QED
  BY <1>1, StutterIInv

LEMMA Inductive == Spec => []IInv
  BY InitIInv, NextIInv, PTL DEF Spec

-----------------------------------------------------------------------------
(* Every reachable state is well typed; a final report carries its hash.   *)
THEOREM TypeCorrect == Spec => []TypeOK
<1>1. IInv => TypeOK
  BY DEF IInv
<1> QED
  BY <1>1, Inductive, PTL

(* A final report holds everything stored before the session was closed of *)
(* what exceeds the limit, all the first events), because its contents are *)
(* built again after the session is saved.                                 *)
THEOREM FinalReportsComplete == Spec => []FinalReportComplete
<1>1. IInv => FinalReportComplete
  BY DEF IInv
<1> QED
  BY <1>1, Inductive, PTL

(* No crash leaves a final report whose PDF was never stored.              *)
THEOREM FinalReportsHavePdf == Spec => []FinalReportHasPdf
<1>1. IInv => FinalReportHasPdf
  BY DEF IInv
<1> QED
  BY <1>1, Inductive, PTL

(* As long as one request finalizes the session, the hash in the report is *)
(* that of the PDF in the storage, whatever the live builders do meanwhile.*)
THEOREM SealsMatch == Spec => []SealMatchesPdf
<1>1. IInv => SealMatchesPdf
  BY DEF IInv
<1> QED
  BY <1>1, Inductive, PTL

(* No step replaces an updated report by a first draft, or loses the row.  *)
THEOREM DraftsAreKept == Spec => NeverStartsOver
<1> DEFINE A == report # Nothing =>
                  report' # Nothing /\ (report.version > 1 => report'.version > 1)
<1>1. ASSUME IInv, [Next]_vars PROVE [A]_vars
  <2>1. CASE report' = report
    BY <2>1
  <2>2. ASSUME NEW r \in Reqs, Insert(r) PROVE A
    BY <2>2 DEF Insert
  <2>3. ASSUME NEW r \in Reqs, Save(r) PROVE A
    BY <1>1, <2>3, SavedIsDraft, DraftIsDraft
  <2>4. ASSUME NEW r \in Reqs, SaveReport(r) PROVE A
    <3>1. req[r].snap \in Draft
      BY <1>1, <2>4, TypeFacts DEF SaveReport, At, Knows
    <3>2. report' = FinalRow(r)
      BY <2>4 DEF SaveReport
    <3>3. report'.status = "final" /\ report'.version = req[r].snap.version + 1
      BY <3>2 DEF FinalRow
    <3>4. report'.version > 1
      BY <3>1, <3>3 DEF Draft
    <3> QED
      BY <3>3, <3>4 DEF Nothing
  <2> QED
    BY <1>1, <2>1, <2>2, <2>3, <2>4
    DEF Next, vars, StoreEvent, Call, ReadSession, ReadReport, Ensure, EnsureBuild, Build,
        SaveSession, Put, Close, Crash
<1> QED
  BY <1>1, Inductive, PTL DEF Spec, NeverStartsOver

(* A final report has its contents, its PDF and a seal that fits both. *)
THEOREM FinalReportsWhole == Spec => []FinalReportWhole
<1>1. FinalReportComplete /\ FinalReportHasPdf /\ SealMatchesPdf => FinalReportWhole
  BY DEF FinalReportWhole
<1> QED
  BY FinalReportsComplete, FinalReportsHavePdf, SealsMatch, <1>1, PTL
=============================================================================
