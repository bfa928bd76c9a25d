-------------------------- MODULE AdmissionProofs --------------------------
(***************************************************************************)
(* What holds before a session is under way: of WorkOrders, which opens    *)
(* it, for any number of requests, and of AuthTokens, which every request  *)
(* passes, for any number of apps, calls, token pairs and requests a       *)
(* window.  The two share no variable; each part speaks of its own         *)
(* specification.                                                          *)
(*                                                                         *)
(* WorkOrders: the unique index keeps at most one session open, whatever   *)
(* the requests read before.  The rest needs what a request knows at each  *)
(* await: a session it works on exists (sessions are never deleted), and   *)
(* an order it has read as in progress still is, unless it was seeded      *)
(* again.                                                                  *)
(***************************************************************************)
EXTENDS WorkOrders, AuthTokens, FiniteSetTheorems, TLAPS


(* The facts a request carries from await to await, of the two tables.     *)
Knows(q, o, ss, sd) ==
  /\ q.pc # "done" => q.result = "none"
  /\ q.pc \in {"saveOrder", "load", "save"} => q.sid \in Reqs /\ ss[q.sid] # "none"
  /\ q.pc \in {"load", "save"} => q.cmd \in Changes
  /\ q.pc \in {"active", "insert"} => q.seen # "completed"
  /\ (q.pc = "active" /\ q.seen = "in_progress") => (o = "in_progress" \/ sd)
  /\ (q.cmd = "start" /\ q.result = "accepted") =>
       q.sid \in Reqs /\ ss[q.sid] # "none" /\ (o = "in_progress" \/ sd)

IInv ==
  /\ TypeOK
  /\ OneOpenSession
  /\ StartedHasSession
  /\ \A r \in Reqs : Knows(req[r], order, sessions, reseeded)

LEMMA InitIInv == Init => IInv
<1> SUFFICES ASSUME Init PROVE IInv
  OBVIOUS
<1> USE DEF Init
<1>1. Idle \in Request
  BY DEF Idle, Request, Labels, Changes, OrderStatuses, Statuses, Results
<1>2. \A r \in Reqs : Knows(req[r], order, sessions, reseeded)
  BY DEF Idle, Knows
<1>3. TypeOK
  BY <1>1 DEF TypeOK, OrderStatuses, Statuses
<1>4. Open = {}
  BY DEF Open
<1>5. OneOpenSession /\ StartedHasSession
  BY <1>4 DEF OneOpenSession, StartedHasSession
<1> QED
  BY <1>2, <1>3, <1>5 DEF IInv

(* A request whose record changes, while an order in progress stays so and *)
(* no session disappears.                                                  *)
LEMMA MoveIInv ==
  ASSUME IInv, NEW r \in Reqs, NEW q \in Request,
         req' = [req EXCEPT ![r] = q],
         order' \in OrderStatuses, sessions' \in [Reqs -> Statuses],
         UNCHANGED reseeded, order = "in_progress" => order' = "in_progress",
         \A s \in Reqs : sessions[s] # "none" => sessions'[s] # "none",
         OneOpenSession', StartedHasSession',
         Knows(q, order', sessions', reseeded')
  PROVE  IInv'
<1>1. TypeOK'
  BY DEF IInv, TypeOK
<1>2. ASSUME NEW p \in Reqs PROVE Knows(req'[p], order', sessions', reseeded')
  <2>1. Knows(req[p], order, sessions, reseeded)
    BY DEF IInv
  <2>2. Knows(req[p], order', sessions', reseeded')
    BY <2>1 DEF Knows
  <2>3. req'[p] = IF p = r THEN q ELSE req[p]
    BY DEF IInv, TypeOK
  <2> QED
    BY <2>2, <2>3
<1> QED
  BY <1>1, <1>2 DEF IInv

(* A request whose record changes while both tables stay.                  *)
LEMMA StayIInv ==
  ASSUME IInv, NEW r \in Reqs, NEW q \in Request,
         req' = [req EXCEPT ![r] = q], UNCHANGED <<order, sessions, reseeded>>,
         Knows(q, order, sessions, reseeded)
  PROVE  IInv'
<1>1. order' \in OrderStatuses /\ sessions' \in [Reqs -> Statuses]
  BY DEF IInv, TypeOK
<1>2. Open' = Open
  BY DEF Open
<1>3. OneOpenSession' /\ StartedHasSession'
  BY <1>2 DEF IInv, OneOpenSession, StartedHasSession
<1> QED
  BY <1>1, <1>3, MoveIInv

LEMMA TypeFacts ==
  ASSUME IInv, NEW r \in Reqs
  PROVE  /\ req \in [Reqs -> Request] /\ req[r] \in Request
         /\ order \in OrderStatuses /\ sessions \in [Reqs -> Statuses]
         /\ Knows(req[r], order, sessions, reseeded)
  BY DEF IInv, TypeOK

(* A refusal, or the loss of the request.                                  *)
LEMMA RefuseIInv ==
  ASSUME IInv, NEW r \in Reqs, NEW result \in Results \ {"accepted"},
         Finish(r, result), UNCHANGED <<order, sessions, reseeded>>
  PROVE  IInv'
<1> DEFINE q == [req[r] EXCEPT !.pc = "done", !.result = result]
<1>1. req \in [Reqs -> Request] /\ req[r] \in Request
  BY TypeFacts
<1>2. req' = [req EXCEPT ![r] = q]
  BY <1>1 DEF Finish
<1>3. q.pc = "done" /\ q.result = result
  BY <1>1 DEF Request
<1>4. "done" \in Labels
  BY DEF Labels
<1>5. q \in Request
  BY <1>1, <1>4 DEF Request
<1> HIDE DEF q
<1>6. Knows(q, order, sessions, reseeded)
  BY <1>3 DEF Knows
<1> QED
  BY <1>2, <1>5, <1>6, StayIInv

(* The accepted end of a start: its session is known and the order is in   *)
(* progress, or was and has been seeded again.                             *)
LEMMA AcceptedIInv ==
  ASSUME IInv, NEW r \in Reqs, NEW q \in Request,
         req' = [req EXCEPT ![r] = q], q.pc = "done",
         q.sid \in Reqs, sessions[q.sid] # "none",
         order' = "in_progress" \/ (reseeded /\ UNCHANGED order),
         UNCHANGED <<sessions, reseeded>>
  PROVE  IInv'
<1>1. order' \in OrderStatuses /\ sessions' \in [Reqs -> Statuses]
  BY DEF IInv, TypeOK, OrderStatuses
<1>2. Open' = Open
  BY DEF Open
<1>3. OneOpenSession'
  BY <1>2 DEF IInv, OneOpenSession
<1>4. StartedHasSession'
  BY DEF StartedHasSession
<1>5. Knows(q, order', sessions', reseeded')
  BY DEF Knows
<1> QED
  BY <1>1, <1>3, <1>4, <1>5, MoveIInv

-----------------------------------------------------------------------------
LEMMA StartIInv ==
  ASSUME IInv, NEW r \in Reqs, Start(r) PROVE IInv'
<1> DEFINE q == [req[r] EXCEPT !.pc = "order", !.cmd = "start"]
<1>1. req \in [Reqs -> Request] /\ req[r] \in Request /\ Knows(req[r], order, sessions, reseeded)
  BY TypeFacts
<1>2. req' = [req EXCEPT ![r] = q] /\ UNCHANGED <<order, sessions, reseeded>>
  BY <1>1 DEF Start
<1>3. q.pc = "order" /\ q.result = req[r].result /\ req[r].pc = "idle"
  BY <1>1 DEF Request, Start, At
<1>4. "order" \in Labels
  BY DEF Labels
<1>5. q \in Request
  BY <1>1, <1>4 DEF Request
<1> HIDE DEF q
<1>6. Knows(q, order, sessions, reseeded)
  BY <1>1, <1>3 DEF Knows
<1> QED
  BY <1>2, <1>5, <1>6, StayIInv

LEMMA ReadOrderIInv ==
  ASSUME IInv, NEW r \in Reqs, ReadOrder(r) PROVE IInv'
<1> DEFINE q == [req[r] EXCEPT !.pc = "active", !.seen = order]
<1>1. req \in [Reqs -> Request] /\ req[r] \in Request /\ order \in OrderStatuses
      /\ Knows(req[r], order, sessions, reseeded)
  BY TypeFacts
<1>2. CASE order = "completed"
  <2>1. Finish(r, "completed") /\ UNCHANGED <<order, sessions, reseeded>>
    BY <1>2 DEF ReadOrder
  <2>2. "completed" \in Results \ {"accepted"}
    BY DEF Results
  <2> QED
    BY <2>1, <2>2, RefuseIInv
<1>3. CASE order # "completed"
  <2>1. req' = [req EXCEPT ![r] = q] /\ UNCHANGED <<order, sessions, reseeded>>
    BY <1>1, <1>3 DEF ReadOrder
  <2>2. q.pc = "active" /\ q.seen = order /\ q.result = req[r].result /\ req[r].pc = "order"
    BY <1>1 DEF Request, ReadOrder, At
  <2>3. "active" \in Labels
    BY DEF Labels
  <2>4. q \in Request
    BY <1>1, <2>3 DEF Request
  <2> HIDE DEF q
  <2>5. Knows(q, order, sessions, reseeded)
    BY <1>1, <1>3, <2>2 DEF Knows
  <2> QED
    BY <2>1, <2>4, <2>5, StayIInv
<1> QED
  BY <1>2, <1>3

LEMMA FindActiveIInv ==
  ASSUME IInv, NEW r \in Reqs, FindActive(r) PROVE IInv'
<1>1. /\ req \in [Reqs -> Request] /\ req[r] \in Request /\ order \in OrderStatuses
      /\ Knows(req[r], order, sessions, reseeded) /\ req[r].pc = "active"
      /\ UNCHANGED <<order, sessions, reseeded>>
  BY TypeFacts DEF FindActive, At
<1>2. ASSUME NEW s \in Open, ResumeExisting(r, s) PROVE IInv'
  <2>1. s \in Reqs /\ sessions[s] # "none"
    BY <1>2 DEF Open
  <2>2. CASE req[r].seen = "pending"
    <3> DEFINE q == [req[r] EXCEPT !.sid = s, !.pc = "saveOrder"]
    <3>1. req' = [req EXCEPT ![r] = q]
      BY <1>1, <1>2, <2>2 DEF ResumeExisting
    <3>2. q.pc = "saveOrder" /\ q.sid = s /\ q.result = req[r].result
      BY <1>1 DEF Request
    <3>3. "saveOrder" \in Labels
      BY DEF Labels
    <3>4. q \in Request
      BY <1>1, <2>1, <3>3 DEF Request
    <3> HIDE DEF q
    <3>5. Knows(q, order, sessions, reseeded)
      BY <1>1, <2>1, <3>2 DEF Knows
    <3> QED
      BY <1>1, <3>1, <3>4, <3>5, StayIInv
  <2>3. CASE req[r].seen # "pending"
    <3> DEFINE q == [req[r] EXCEPT !.sid = s, !.pc = "done", !.result = "accepted"]
    <3>1. req' = [req EXCEPT ![r] = q]
      BY <1>1, <1>2, <2>3 DEF ResumeExisting
    <3>2. q.pc = "done" /\ q.sid = s
      BY <1>1 DEF Request
    <3>3. "done" \in Labels /\ "accepted" \in Results
      BY DEF Labels, Results
    <3>4. q \in Request
      BY <1>1, <2>1, <3>3 DEF Request
    <3>5. req[r].seen \in OrderStatuses
      BY <1>1 DEF Request
    <3>6. order = "in_progress" \/ reseeded
      BY <1>1, <2>3, <3>5 DEF Knows, OrderStatuses
    <3> HIDE DEF q
    <3> QED
      BY <1>1, <2>1, <3>1, <3>2, <3>4, <3>6, AcceptedIInv
  <2> QED
    BY <2>2, <2>3
<1>3. CASE Finish(r, "already started")
  <2>1. "already started" \in Results \ {"accepted"}
    BY DEF Results
  <2> QED
    BY <1>1, <1>3, <2>1, RefuseIInv
<1>4. CASE Goto(r, "insert")
  <2> DEFINE q == [req[r] EXCEPT !.pc = "insert"]
  <2>1. req' = [req EXCEPT ![r] = q]
    BY <1>1, <1>4 DEF Goto
  <2>2. q.pc = "insert" /\ q.seen = req[r].seen /\ q.result = req[r].result
    BY <1>1 DEF Request
  <2>3. "insert" \in Labels
    BY DEF Labels
  <2>4. q \in Request
    BY <1>1, <2>3 DEF Request
  <2> HIDE DEF q
  <2>5. Knows(q, order, sessions, reseeded)
    BY <1>1, <2>2 DEF Knows
  <2> QED
    BY <1>1, <2>1, <2>4, <2>5, StayIInv
<1> QED
  BY <1>2, <1>3, <1>4 DEF FindActive

LEMMA InsertIInv ==
  ASSUME IInv, NEW r \in Reqs, Insert(r) PROVE IInv'
<1>1. /\ req \in [Reqs -> Request] /\ req[r] \in Request /\ order \in OrderStatuses
      /\ sessions \in [Reqs -> Statuses]
      /\ Knows(req[r], order, sessions, reseeded) /\ req[r].pc = "insert"
      /\ UNCHANGED <<order, reseeded>>
  BY TypeFacts DEF Insert, At
<1>2. CASE Open # {}
  <2>1. Finish(r, "duplicate") /\ UNCHANGED <<order, sessions, reseeded>>
    BY <1>2 DEF Insert
  <2>2. "duplicate" \in Results \ {"accepted"}
    BY DEF Results
  <2> QED
    BY <2>1, <2>2, RefuseIInv
<1>3. CASE Open = {}
  <2> DEFINE q == [req[r] EXCEPT !.sid = r, !.pc = "saveOrder"]
  <2>1. req' = [req EXCEPT ![r] = q] /\ sessions' = [sessions EXCEPT ![r] = "active"]
    BY <1>1, <1>3 DEF Insert
  <2>2. q.pc = "saveOrder" /\ q.sid = r /\ q.result = req[r].result
    BY <1>1 DEF Request
  <2>3. "saveOrder" \in Labels /\ "active" \in Statuses
    BY DEF Labels, Statuses
  <2>4. q \in Request
    BY <1>1, <2>3 DEF Request
  <2> HIDE DEF q
  <2>5. sessions' \in [Reqs -> Statuses] /\ sessions'[r] = "active"
        /\ \A s \in Reqs : sessions[s] # "none" => sessions'[s] # "none"
    BY <1>1, <2>1, <2>3
  <2>6. Open' \subseteq {r}
    BY <1>1, <1>3, <2>1 DEF Open
  <2>7. OneOpenSession' /\ StartedHasSession'
    BY <2>5, <2>6 DEF OneOpenSession, StartedHasSession
  <2>8. Knows(q, order', sessions', reseeded')
    BY <1>1, <2>2, <2>5 DEF Knows
  <2> QED
    BY <1>1, <2>1, <2>4, <2>5, <2>7, <2>8, MoveIInv
<1> QED
  BY <1>2, <1>3

LEMMA SaveOrderIInv ==
  ASSUME IInv, NEW r \in Reqs, SaveOrder(r) PROVE IInv'
<1> DEFINE q == [req[r] EXCEPT !.pc = "done", !.result = "accepted"]
<1>1. req \in [Reqs -> Request] /\ req[r] \in Request /\ Knows(req[r], order, sessions, reseeded)
  BY TypeFacts
<1>2. req' = [req EXCEPT ![r] = q] /\ order' = "in_progress" /\ UNCHANGED <<sessions, reseeded>>
      /\ req[r].pc = "saveOrder"
  BY <1>1 DEF SaveOrder, Finish, At
<1>3. q.pc = "done" /\ q.sid = req[r].sid
  BY <1>1 DEF Request
<1>4. "done" \in Labels /\ "accepted" \in Results
  BY DEF Labels, Results
<1>5. q \in Request
  BY <1>1, <1>4 DEF Request
<1>6. q.sid \in Reqs /\ sessions[q.sid] # "none"
  BY <1>1, <1>2, <1>3 DEF Knows
<1> HIDE DEF q
<1> QED
  BY <1>2, <1>3, <1>5, <1>6, AcceptedIInv

LEMMA ChangeIInv ==
  ASSUME IInv, NEW r \in Reqs, Change(r) PROVE IInv'
<1>1. /\ req \in [Reqs -> Request] /\ req[r] \in Request
      /\ Knows(req[r], order, sessions, reseeded) /\ req[r].pc = "idle"
      /\ UNCHANGED <<order, sessions, reseeded>>
  BY TypeFacts DEF Change, At
<1>2. PICK cmd \in Changes, s \in Reqs :
        /\ sessions[s] # "none"
        /\ req' = [req EXCEPT ![r].pc = "load", ![r].cmd = cmd, ![r].sid = s]
  BY DEF Change
<1> DEFINE q == [req[r] EXCEPT !.pc = "load", !.cmd = cmd, !.sid = s]
<1>3. req' = [req EXCEPT ![r] = q]
  BY <1>1, <1>2
<1>4. q.pc = "load" /\ q.cmd = cmd /\ q.sid = s /\ q.result = req[r].result
  BY <1>1 DEF Request
<1>5. "load" \in Labels
  BY DEF Labels
<1>6. q \in Request
  BY <1>1, <1>5 DEF Request
<1> HIDE DEF q
<1>7. Knows(q, order, sessions, reseeded)
  BY <1>1, <1>2, <1>4 DEF Knows, Changes
<1> QED
  BY <1>1, <1>3, <1>6, <1>7, StayIInv

LEMMA LoadSessionIInv ==
  ASSUME IInv, NEW r \in Reqs, LoadSession(r) PROVE IInv'
<1> DEFINE status == sessions[req[r].sid]
           q      == [req[r] EXCEPT !.pc = "save", !.was = status]
<1>1. /\ req \in [Reqs -> Request] /\ req[r] \in Request /\ sessions \in [Reqs -> Statuses]
      /\ Knows(req[r], order, sessions, reseeded) /\ req[r].pc = "load"
      /\ UNCHANGED <<order, sessions, reseeded>>
  BY TypeFacts DEF LoadSession, At
<1>2. CASE Allowed(req[r].cmd, status)
  <2>1. req' = [req EXCEPT ![r] = q]
    BY <1>1, <1>2 DEF LoadSession
  <2>2. req[r].sid \in Reqs /\ status \in Statuses
    BY <1>1 DEF Knows
  <2>3. /\ q.pc = "save" /\ q.cmd = req[r].cmd /\ q.sid = req[r].sid
        /\ q.result = req[r].result
    BY <1>1 DEF Request
  <2>4. "save" \in Labels
    BY DEF Labels
  <2>5. q \in Request
    BY <1>1, <2>2, <2>4 DEF Request
  <2> HIDE DEF q
  <2>6. Knows(q, order, sessions, reseeded)
    BY <1>1, <2>3 DEF Knows, Changes
  <2> QED
    BY <1>1, <2>1, <2>5, <2>6, StayIInv
<1>3. CASE ~Allowed(req[r].cmd, status)
  <2>1. Finish(r, "refused")
    BY <1>3 DEF LoadSession
  <2>2. "refused" \in Results \ {"accepted"}
    BY DEF Results
  <2> QED
    BY <1>1, <2>1, <2>2, RefuseIInv
<1> QED
  BY <1>2, <1>3

LEMMA SaveSessionIInv ==
  ASSUME IInv, NEW r \in Reqs, SaveSession(r) PROVE IInv'
<1> DEFINE sid == req[r].sid
           cmd == req[r].cmd
           q   == [req[r] EXCEPT !.pc = "done", !.result = "accepted"]
<1>1. /\ req \in [Reqs -> Request] /\ req[r] \in Request /\ order \in OrderStatuses
      /\ sessions \in [Reqs -> Statuses]
      /\ Knows(req[r], order, sessions, reseeded) /\ req[r].pc = "save"
      /\ UNCHANGED <<order, reseeded>>
  BY TypeFacts DEF SaveSession, At
<1>2. sid \in Reqs /\ sessions[sid] # "none" /\ cmd \in Changes
  BY <1>1 DEF Knows
<1>3. CASE cmd # "finalize" /\ Open \ {sid} # {}
  <2>1. Finish(r, "duplicate") /\ UNCHANGED <<order, sessions, reseeded>>
    BY <1>3 DEF SaveSession
  <2>2. "duplicate" \in Results \ {"accepted"}
    BY DEF Results
  <2> QED
    BY <2>1, <2>2, RefuseIInv
<1>4. CASE cmd = "finalize" \/ Open \ {sid} = {}
  <2>1. req' = [req EXCEPT ![r] = q] /\ sessions' = [sessions EXCEPT ![sid] = Becomes(cmd)]
    BY <1>1, <1>4 DEF SaveSession, Finish
  <2>2. Becomes(cmd) \in {"active", "paused", "finalized"}
        /\ (cmd = "finalize" => Becomes(cmd) = "finalized")
    BY <1>2 DEF Becomes, Changes
  <2>3. Becomes(cmd) \in Statuses /\ Becomes(cmd) # "none"
    BY <2>2 DEF Statuses
  <2>4. q.pc = "done" /\ q.cmd = cmd /\ cmd # "start"
    BY <1>1, <1>2 DEF Request, Changes
  <2>5. "done" \in Labels /\ "accepted" \in Results
    BY DEF Labels, Results
  <2>6. q \in Request
    BY <1>1, <2>5 DEF Request
  <2> HIDE DEF q
  <2>7. sessions' \in [Reqs -> Statuses] /\ sessions'[sid] = Becomes(cmd)
        /\ \A s \in Reqs : s # sid => sessions'[s] = sessions[s]
    BY <1>1, <1>2, <2>1, <2>3
  <2>8. OneOpenSession'
    <3>1. Open' \subseteq Open \/ Open' \subseteq {sid}
      BY <1>4, <2>2, <2>7 DEF Open
    <3> QED
      BY <3>1 DEF IInv, OneOpenSession
  <2>9. StartedHasSession'
    BY <1>2, <2>3, <2>7 DEF StartedHasSession
  <2>10. Knows(q, order', sessions', reseeded')
    BY <2>4 DEF Knows
  <2>11. \A s \in Reqs : sessions[s] # "none" => sessions'[s] # "none"
    BY <2>3, <2>7
  <2> QED
    BY <1>1, <2>1, <2>6, <2>7, <2>8, <2>9, <2>10, <2>11, MoveIInv
<1> QED
  BY <1>3, <1>4

LEMMA CrashIInv ==
  ASSUME IInv, NEW r \in Reqs, Crash(r) PROVE IInv'
<1>1. "lost" \in Results \ {"accepted"}
  BY DEF Results
<1> QED
  BY <1>1, RefuseIInv DEF Crash

(* Nothing that requests know depends on the order once it is reseeded.    *)
LEMMA ReseedIInv ==
  ASSUME IInv, Reseed PROVE IInv'
<1>1. TypeOK'
  BY DEF IInv, TypeOK, Reseed, OrderStatuses
<1>2. Open' = Open
  BY DEF Open, Reseed
<1>3. OneOpenSession' /\ StartedHasSession'
  BY <1>2 DEF IInv, OneOpenSession, StartedHasSession, Reseed
<1>4. ASSUME NEW r \in Reqs PROVE Knows(req'[r], order', sessions', reseeded')
  <2>1. Knows(req[r], order, sessions, reseeded)
    BY DEF IInv
  <2>2. UNCHANGED <<sessions, req>> /\ reseeded'
    BY DEF Reseed
  <2> QED
    BY <2>1, <2>2 DEF Knows
<1> QED
  BY <1>1, <1>3, <1>4 DEF IInv

LEMMA StutterIInv == IInv /\ UNCHANGED vars => IInv'
<1> SUFFICES ASSUME IInv, UNCHANGED vars PROVE IInv'
  OBVIOUS
<1>1. Open' = Open
  BY DEF Open, vars
<1> QED
  BY <1>1 DEF vars, IInv, TypeOK, OneOpenSession, StartedHasSession

LEMMA NextIInv == IInv /\ [Next]_vars => IInv'
<1> SUFFICES ASSUME IInv, [Next]_vars PROVE IInv'
  OBVIOUS
<1>1. CASE Next
  BY <1>1, StartIInv, ReadOrderIInv, FindActiveIInv, InsertIInv, SaveOrderIInv, ChangeIInv,
     LoadSessionIInv, SaveSessionIInv, CrashIInv, ReseedIInv DEF Next
<1> QED
  BY <1>1, StutterIInv

LEMMA Inductive == Spec => []IInv
  BY InitIInv, NextIInv, PTL DEF Spec

-----------------------------------------------------------------------------
(* Every reachable state is well typed.                                    *)
THEOREM TypeCorrect == Spec => []TypeOK
<1>1. IInv => TypeOK
  BY DEF IInv
<1> QED
  BY <1>1, Inductive, PTL

(* However many requests start the order and however late older sessions   *)
(* are saved, it has at most one open session.                             *)
THEOREM AtMostOneOpen == Spec => []OneOpenSession
<1>1. IInv => OneOpenSession
  BY DEF IInv
<1> QED
  BY <1>1, Inductive, PTL

(* The session is saved before the order, so that no crash leaves an order *)
(* in progress without a session.                                          *)
THEOREM InProgressHasSession == Spec => []StartedHasSession
<1>1. IInv => StartedHasSession
  BY DEF IInv
<1> QED
  BY <1>1, Inductive, PTL

(* An accepted start, the resumption of a cut short one too, names a       *)
(* session and leaves the order in progress, until it is seeded again.     *)
THEOREM StartsTakeEffect == Spec => []StartTakesEffect
<1>1. NoSession \notin Reqs
  BY NoSessionAssumption
<1>2. IInv => StartTakesEffect
  BY <1>1 DEF IInv, StartTakesEffect, Started, Knows
<1> QED
  BY <1>2, Inductive, PTL

(* Concurrent starts never hand out two sessions that can both be worked   *)
(* on.                                                                     *)
THEOREM StartsNotDoubled == Spec => []SessionsNotDoubled
<1>1. ASSUME IInv, NEW r \in Reqs, NEW q \in Reqs, Started(r), Started(q),
             req[r].sid # req[q].sid
      PROVE  \E s \in {req[r].sid, req[q].sid} : sessions[s] = "finalized"
  <2>1. \A p \in {r, q} : req[p].sid \in Reqs /\ sessions[req[p].sid] # "none"
    BY <1>1 DEF IInv, Started, Knows
  <2>2. \A p \in {r, q} : sessions[req[p].sid] \in {"active", "paused", "finalized"}
    BY <1>1, <2>1 DEF IInv, TypeOK, Statuses
  <2>3. ~(req[r].sid \in Open /\ req[q].sid \in Open)
    BY <1>1 DEF IInv, OneOpenSession
  <2> QED
    BY <2>1, <2>2, <2>3 DEF Open
<1>2. IInv => SessionsNotDoubled
  BY <1>1 DEF SessionsNotDoubled
<1> QED
  BY <1>2, Inductive, PTL

(* The answers of starts hold of the order and of the sessions. *)
THEOREM StartsAnswerTruly == Spec => []StartsAreTrue
<1>1. StartedHasSession /\ StartTakesEffect /\ SessionsNotDoubled => StartsAreTrue
  BY DEF StartsAreTrue
<1> QED
  BY InProgressHasSession, StartsTakeEffect, StartsNotDoubled, <1>1, PTL

-----------------------------------------------------------------------------
(* Who is let in.  TokenShape, CallShape: types, and what a call that is   *)
(* under way has in its hands.                                             *)
TokenShape ==
  /\ now \in Times /\ issued \in 0 .. MaxPairs /\ iat \in [Pairs -> 0 .. now]
  /\ revoked \subseteq {"access", "refresh"} \X (1 .. issued)
  /\ registered \subseteq 1 .. issued
  /\ boot \in 0 .. issued /\ dead \subseteq 1 .. issued

StoredTokens(n) == [access : 0 .. n, refresh : 0 .. n]

CallState(n) == [pc : CallLabels, app : Apps \cup {"none"}, kind : {"work", "logout"},
                 token : 0 .. n, refresh : 0 .. n, retry : BOOLEAN]

InHands(q) ==
  /\ q.pc # "idle" => q.app \in Apps
  /\ q.pc \in {"renewal", "renew"} => q.refresh # 0

CallShape ==
  /\ app \in [Apps -> StoredTokens(issued)]
  /\ call \in [Calls -> CallState(issued)] /\ \A c \in Calls : InHands(call[c])

AuthShape == TokenShape /\ CallShape

LEMMA NoCallFits == ASSUME NEW n \in Nat PROVE NoCall \in CallState(n) /\ InHands(NoCall)
  BY DEF NoCall, CallState, CallLabels, InHands

LEMMA AuthInitShape == AuthInit => AuthShape
<1> SUFFICES ASSUME AuthInit PROVE AuthShape
  OBVIOUS
<1>1. TokenShape
  BY TimesAssumption DEF AuthInit, TokenShape, Times, Pairs
<1>2. CallShape
  BY NoCallFits DEF AuthInit, CallShape, StoredTokens
<1> QED
  BY <1>1, <1>2 DEF AuthShape

(* A call becomes q; with a new pair there are more that it may hold.      *)
LEMMA CallBecomes ==
  ASSUME AuthShape, NEW c \in Calls, NEW q, q \in CallState(issued'), InHands(q),
         call' = [call EXCEPT ![c] = q], app' \in [Apps -> StoredTokens(issued')],
         issued' \in {issued, issued + 1}
  PROVE  CallShape'
<1>1. issued \in Nat /\ 0 .. issued \subseteq 0 .. issued'
  BY DEF AuthShape, TokenShape
<1>2. \A d \in Calls : call'[d] \in CallState(issued')
  BY <1>1 DEF AuthShape, CallShape, CallState
<1>3. \A d \in Calls : InHands(call'[d])
  BY DEF AuthShape, CallShape
<1>4. call' \in [Calls -> CallState(issued')]
  BY <1>2 DEF AuthShape, CallShape
<1> QED
  BY <1>3, <1>4 DEF CallShape, InHands

LEMMA CallGoes ==
  ASSUME AuthShape, NEW c \in Calls, NEW pc \in CallLabels \ {"idle"}, call[c].pc # "idle",
         pc \in {"renewal", "renew"} => call[c].refresh # 0,
         CallGoto(c, pc), UNCHANGED <<issued, app>>
  PROVE  CallShape'
<1> DEFINE q == [call[c] EXCEPT !.pc = pc]
<1>1. q \in CallState(issued') /\ InHands(q)
  BY DEF AuthShape, CallShape, CallState, InHands
<1>2. call' = [call EXCEPT ![c] = q]
  BY DEF CallGoto
<1>3. app' \in [Apps -> StoredTokens(issued')] /\ issued' \in {issued, issued + 1}
  BY DEF AuthShape, CallShape, StoredTokens
<1> HIDE DEF q
<1> QED
  BY <1>1, <1>2, <1>3, CallBecomes

LEMMA CallEnds ==
  ASSUME AuthShape, NEW c \in Calls, Back(c), app' \in [Apps -> StoredTokens(issued)], UNCHANGED issued
  PROVE  CallShape'
<1>1. NoCall \in CallState(issued') /\ InHands(NoCall)
  BY NoCallFits DEF AuthShape, TokenShape, CallState
<1>2. app' \in [Apps -> StoredTokens(issued')] /\ issued' \in {issued, issued + 1}
  BY DEF StoredTokens
<1> QED
  BY <1>1, <1>2, CallBecomes DEF Back

LEMMA Cleared ==
  ASSUME AuthShape, NEW a
  PROVE  [app EXCEPT ![a] = [access |-> 0, refresh |-> 0]] \in [Apps -> StoredTokens(issued)]
<1>1. [access |-> 0, refresh |-> 0] \in StoredTokens(issued)
  BY TimesAssumption DEF AuthShape, TokenShape, StoredTokens
<1> QED
  BY <1>1 DEF AuthShape, CallShape

LEMMA OverShape ==
  ASSUME AuthShape, NEW c \in Calls, Over(c), UNCHANGED issued PROVE CallShape'
<1>1. app' \in [Apps -> StoredTokens(issued)]
  BY Cleared DEF Over, AuthShape, CallShape
<1> QED
  BY <1>1, CallEnds DEF Over

LEMMA UnauthorizedShape ==
  ASSUME AuthShape, NEW c \in Calls, call[c].pc # "idle", Unauthorized(c), UNCHANGED issued
  PROVE  CallShape'
<1> DEFINE held == app[call[c].app].refresh
           q    == [call[c] EXCEPT !.pc = "renewal", !.refresh = held]
<1>1. CASE Over(c)
  BY <1>1, OverShape
<1>2. CASE held # 0 /\ call' = [call EXCEPT ![c].pc = "renewal", ![c].refresh = held] /\ app' = app
  <2>1. call[c].app \in Apps /\ held \in 0 .. issued
    BY DEF AuthShape, CallShape, InHands, StoredTokens
  <2>2. q \in CallState(issued') /\ InHands(q)
    BY <1>2, <2>1 DEF AuthShape, CallShape, CallState, InHands, CallLabels
  <2>3. call' = [call EXCEPT ![c] = q]
    BY <1>2
  <2>4. app' \in [Apps -> StoredTokens(issued')] /\ issued' \in {issued, issued + 1}
    BY <1>2 DEF AuthShape, CallShape, StoredTokens
  <2> HIDE DEF q
  <2> QED
    BY <2>2, <2>3, <2>4, CallBecomes
<1> QED
  BY <1>1, <1>2 DEF Unauthorized

(* A new pair.                                                             *)
LEMMA IssueShape ==
  ASSUME AuthShape, Issue, issued < MaxPairs
  PROVE  /\ issued + 1 \in Pairs /\ issued + 1 \in 1 .. issued' /\ issued' \in 0 .. MaxPairs
         /\ issued \in Nat /\ issued' = issued + 1 /\ MaxPairs \in Nat
         /\ iat' \in [Pairs -> 0 .. now]
         /\ 1 .. issued \subseteq 1 .. issued' /\ 0 .. issued \subseteq 0 .. issued'
  BY TimesAssumption DEF AuthShape, TokenShape, Issue, Pairs, Times

LEMMA IssuedCall ==
  ASSUME AuthShape, NEW c \in Calls, NEW pc \in {"saving", "renewed"}, call[c].pc # "idle",
         Issue, issued < MaxPairs, UNCHANGED app,
         call' = [call EXCEPT ![c].pc = pc, ![c].token = issued + 1]
  PROVE  CallShape'
<1> DEFINE q == [call[c] EXCEPT !.pc = pc, !.token = issued + 1]
<1>1. q \in CallState(issued') /\ InHands(q)
  BY IssueShape DEF AuthShape, CallShape, CallState, InHands, CallLabels
<1>2. call' = [call EXCEPT ![c] = q]
  OBVIOUS
<1>3. app' \in [Apps -> StoredTokens(issued')] /\ issued' \in {issued, issued + 1}
  BY IssueShape DEF AuthShape, CallShape, StoredTokens
<1> HIDE DEF q
<1> QED
  BY <1>1, <1>2, <1>3, CallBecomes

LEMMA LoginShape ==
  ASSUME AuthShape, NEW c \in Calls,
         (\E a \in Apps : StartLogin(c, a)) \/ Login(c) \/ Saved(c)
  PROVE  AuthShape'
<1>1. TokenShape /\ CallShape /\ issued \in Nat
  BY DEF AuthShape, TokenShape
<1>2. CASE \E a \in Apps : StartLogin(c, a)
  <2>1. PICK a \in Apps : StartLogin(c, a)
    BY <1>2
  <2> DEFINE q == [NoCall EXCEPT !.pc = "login", !.app = a]
  <2>2. q \in CallState(issued) /\ q.pc = "login" /\ q.app = a
    BY <1>1, NoCallFits DEF CallState, CallLabels
  <2>3. call' = [call EXCEPT ![c] = q]
        /\ UNCHANGED <<now, issued, iat, revoked, registered, app, dead, boot>>
    BY <2>1 DEF StartLogin, blacklist
  <2> HIDE DEF q
  <2>4. CallShape'
    BY <1>1, <2>2, <2>3, CallBecomes DEF CallShape, InHands
  <2> QED
    BY <1>1, <2>3, <2>4 DEF AuthShape, TokenShape
<1>3. CASE Login(c)
  <2>1. call[c].pc # "idle" /\ UNCHANGED <<now, revoked, app, dead, boot>>
    BY <1>3 DEF Login, CallAt
  <2>2. CASE /\ issued < MaxPairs /\ Issue /\ registered' = registered \cup {issued + 1}
             /\ call' = [call EXCEPT ![c].pc = "saving", ![c].token = issued + 1]
    <3>1. CallShape'
      BY <2>1, <2>2, IssuedCall
    <3>2. TokenShape'
      BY <1>1, <2>1, <2>2, IssueShape DEF TokenShape
    <3> QED
      BY <3>1, <3>2 DEF AuthShape
  <2>3. CASE Back(c) /\ UNCHANGED <<issued, iat, registered>>
    <3>1. CallShape'
      BY <1>1, <2>1, <2>3, CallEnds DEF CallShape
    <3> QED
      BY <1>1, <2>1, <2>3, <3>1 DEF AuthShape, TokenShape
  <2> QED
    BY <1>3, <2>2, <2>3 DEF Login
<1>4. CASE Saved(c)
  <2>1. call[c].token \in 0 .. issued
    BY <1>1 DEF CallShape, CallState
  <2>2. app' \in [Apps -> StoredTokens(issued)]
    BY <1>1, <1>4, <2>1 DEF Saved, CallShape, StoredTokens
  <2>3. CallShape'
    BY <1>4, <2>2, CallEnds DEF Saved
  <2> QED
    BY <1>1, <1>4, <2>3 DEF Saved, AuthShape, TokenShape, blacklist
<1> QED
  BY <1>2, <1>3, <1>4

LEMMA CalledShape ==
  ASSUME AuthShape, NEW c \in Calls,
         \/ \E a \in Apps : \E k \in {"work", "logout"} : StartCall(c, a, k)
         \/ Arrive(c) \/ CheckLimit(c) \/ Work(c) \/ Logout(c) \/ Left(c)
  PROVE  AuthShape'
<1>1. TokenShape /\ CallShape /\ issued \in Nat
  BY DEF AuthShape, TokenShape
<1>2. ASSUME CallShape', UNCHANGED <<now, issued, iat, revoked, registered, dead, boot>>
      PROVE  AuthShape'
  BY <1>1, <1>2 DEF AuthShape, TokenShape
<1>3. CASE \E a \in Apps : \E k \in {"work", "logout"} : StartCall(c, a, k)
  <2>1. PICK a \in Apps, k \in {"work", "logout"} : StartCall(c, a, k)
    BY <1>3
  <2> DEFINE q == [NoCall EXCEPT !.pc = "arrive", !.app = a, !.kind = k, !.token = app[a].access]
  <2>2. app[a].access \in 0 .. issued
    BY <1>1 DEF CallShape, StoredTokens
  <2>3. q \in CallState(issued) /\ q.pc = "arrive" /\ q.app = a
    BY <1>1, <2>2, NoCallFits DEF CallState, CallLabels
  <2>4. call' = [call EXCEPT ![c] = q]
        /\ UNCHANGED <<now, issued, iat, revoked, registered, app, dead, boot>>
    BY <2>1 DEF StartCall, blacklist
  <2> HIDE DEF q
  <2>5. CallShape'
    BY <1>1, <2>3, <2>4, CallBecomes DEF CallShape, InHands
  <2> QED
    BY <1>2, <2>4, <2>5
<1>4. CASE Arrive(c)
  <2>1. CallShape'
    BY <1>4, CallGoes DEF Arrive, CallAt, CallLabels
  <2> QED
    BY <1>2, <1>4, <2>1 DEF Arrive, blacklist
<1>5. CASE CheckLimit(c)
  <2>1. UNCHANGED <<now, issued, iat, revoked, registered, dead, boot>>
    BY <1>5 DEF CheckLimit, blacklist
  <2>2. Over(c) \/ (CallGoto(c, "serve") /\ UNCHANGED app)
    BY <1>5 DEF CheckLimit
  <2>t. call[c].pc # "idle"
    BY <1>5 DEF CheckLimit, CallAt
  <2>3. CallShape'
    BY <2>1, <2>2, <2>t, OverShape, CallGoes DEF CallLabels
  <2> QED
    BY <1>2, <2>1, <2>3
<1>6. CASE Work(c)
  <2>1. UNCHANGED <<now, issued, iat, revoked, registered, dead, boot>>
        /\ call[c].pc # "idle" /\ (Over(c) \/ Unauthorized(c))
    BY <1>6 DEF Work, blacklist, CallAt
  <2> QED
    BY <1>2, <2>1, OverShape, UnauthorizedShape
<1>7. CASE Logout(c)
  <2>1. call[c].pc # "idle" /\ UNCHANGED <<now, issued, iat, boot>>
    BY <1>7 DEF Logout, CallAt
  <2>2. CASE Fresh("access", call[c].token)
    <3>1. CallShape'
      BY <1>7, <2>1, <2>2, CallGoes DEF Logout, CallLabels
    <3>2. call[c].token \in 1 .. issued
      BY <1>1, <2>2 DEF CallShape, CallState, Fresh
    <3>3. /\ revoked' \subseteq {"access", "refresh"} \X (1 .. issued)
          /\ registered' = {} /\ dead' \subseteq 1 .. issued
      <4>1. (boot + 1) .. issued \subseteq 1 .. issued
        BY <1>1 DEF TokenShape
      <4>2. /\ revoked' = revoked \cup {<<"access", call[c].token>>}
                                  \cup {<<"refresh", n>> : n \in registered}
            /\ registered' = {} /\ dead' = dead \cup (boot + 1) .. issued
        BY <1>7, <2>2 DEF Logout
      <4> DEFINE Named == {"access", "refresh"} \X (1 .. issued)
      <4>3. \A n \in registered : <<"refresh", n>> \in Named
        BY <1>1 DEF TokenShape
      <4>4. revoked \subseteq Named /\ <<"access", call[c].token>> \in Named
        BY <1>1, <3>2 DEF TokenShape
      <4>5. dead' \subseteq 1 .. issued
        BY <1>1, <4>1, <4>2 DEF TokenShape
      <4> HIDE DEF Named
      <4>6. revoked' \subseteq Named
        BY <4>2, <4>3, <4>4
      <4> QED
        BY <4>2, <4>5, <4>6 DEF Named
    <3> QED
      BY <1>1, <2>1, <3>1, <3>3 DEF AuthShape, TokenShape
  <2>3. CASE ~Fresh("access", call[c].token)
    <3>1. Unauthorized(c) /\ UNCHANGED <<revoked, registered, dead>>
      BY <1>7, <2>3 DEF Logout, blacklist
    <3> QED
      BY <1>2, <2>1, <3>1, UnauthorizedShape
  <2> QED
    BY <2>2, <2>3
<1>8. CASE Left(c)
  <2>1. UNCHANGED <<now, issued, iat, revoked, registered, dead, boot>> /\ Over(c)
    BY <1>8 DEF Left, blacklist
  <2> QED
    BY <1>2, <2>1, OverShape
<1> QED
  BY <1>3, <1>4, <1>5, <1>6, <1>7, <1>8

LEMMA Repeats ==
  ASSUME AuthShape, NEW c \in Calls, NEW again \in BOOLEAN, call[c].pc # "idle", UNCHANGED issued,
         app' \in [Apps -> StoredTokens(issued)],
         call' = [call EXCEPT ![c].pc = "arrive", ![c].refresh = 0, ![c].retry = again]
  PROVE  CallShape'
<1> DEFINE q == [call[c] EXCEPT !.pc = "arrive", !.refresh = 0, !.retry = again]
<1>1. "arrive" \in CallLabels /\ 0 \in 0 .. issued /\ call[c] \in CallState(issued) /\ call[c].app \in Apps
  BY DEF AuthShape, TokenShape, CallShape, InHands, CallLabels
<1>2. q \in CallState(issued) /\ q.pc = "arrive" /\ q.app = call[c].app
  BY <1>1 DEF CallState
<1>3. call' = [call EXCEPT ![c] = q]
  OBVIOUS
<1> HIDE DEF q
<1> QED
  BY <1>1, <1>2, <1>3, CallBecomes DEF InHands

LEMMA RenewalShape ==
  ASSUME AuthShape, NEW c \in Calls,
         CheckRefresh(c) \/ Renew(c) \/ RefuseRenewal(c) \/ Renewed(c)
  PROVE  AuthShape'
<1>1. TokenShape /\ CallShape /\ issued \in Nat /\ call[c] \in CallState(issued) /\ InHands(call[c])
  BY DEF AuthShape, TokenShape, CallShape
<1>2. ASSUME CallShape', UNCHANGED <<now, issued, iat, revoked, registered, dead, boot>>
      PROVE  AuthShape'
  BY <1>1, <1>2 DEF AuthShape, TokenShape
<1>3. ASSUME Back(c), Discard(c), UNCHANGED issued PROVE CallShape'
  BY <1>3, Cleared, CallEnds DEF Discard
<1>4. CASE CheckRefresh(c)
  <2>1. UNCHANGED <<now, issued, iat, revoked, registered, dead, boot>>
        /\ call[c].pc = "renewal"
    BY <1>4 DEF CheckRefresh, blacklist, CallAt
  <2>2. CASE CallGoto(c, "renew") /\ UNCHANGED app
    <3>1. call[c].refresh # 0
      BY <1>1, <2>1 DEF InHands
    <3>2. CallShape'
      BY <2>1, <2>2, <3>1, CallGoes DEF CallLabels
    <3> QED
      BY <1>2, <2>1, <3>2
  <2>3. CASE Back(c) /\ Discard(c)
    BY <1>2, <1>3, <2>1, <2>3
  <2> QED
    BY <1>4, <2>2, <2>3 DEF CheckRefresh
<1>5. CASE RefuseRenewal(c)
  <2>1. UNCHANGED <<now, issued, iat, revoked, registered, dead, boot>>
        /\ Back(c) /\ Discard(c)
    BY <1>5 DEF RefuseRenewal, blacklist
  <2> QED
    BY <1>2, <1>3, <2>1
<1>6. CASE Renew(c)
  <2>1. /\ call[c].pc = "renew" /\ Issue /\ issued < MaxPairs /\ UNCHANGED <<now, app, boot>>
        /\ call' = [call EXCEPT ![c].pc = "renewed", ![c].token = issued + 1]
    BY <1>6 DEF Renew, CallAt
  <2>2. CallShape'
    BY <2>1, IssuedCall
  <2>3. call[c].refresh \in 1 .. issued
    BY <1>1, <2>1 DEF InHands, CallState
  <2>4. TokenShape'
    <3>1. /\ revoked' = revoked \cup {<<"refresh", call[c].refresh>>}
          /\ registered' = registered \cup {issued + 1} /\ dead' = dead \cup {call[c].refresh}
      BY <1>6 DEF Renew
    <3>3. /\ revoked' \subseteq {"access", "refresh"} \X (1 .. issued')
          /\ registered' \subseteq 1 .. issued' /\ dead' \subseteq 1 .. issued'
      BY <1>1, <2>1, <2>3, <3>1, IssueShape DEF TokenShape
    <3> QED
      BY <1>1, <2>1, <3>3, IssueShape DEF TokenShape
  <2> QED
    BY <2>2, <2>4 DEF AuthShape
<1>7. CASE Renewed(c)
  <2>1. UNCHANGED <<now, issued, iat, revoked, registered, dead, boot>>
        /\ call[c].pc = "renewed"
    BY <1>7 DEF Renewed, blacklist, CallAt
  <2>2. CASE /\ app' = [app EXCEPT ![call[c].app].access = call[c].token]
             /\ call' = [call EXCEPT ![c].pc = "arrive", ![c].refresh = 0, ![c].retry = TRUE]
    <3>3. app' \in [Apps -> StoredTokens(issued)]
      <4>1. call[c].token \in 0 .. issued
        BY <1>1 DEF CallState
      <4> QED
        BY <1>1, <2>2, <4>1 DEF CallShape, StoredTokens
    <3>4. CallShape'
      BY <2>1, <2>2, <3>3, Repeats
    <3> QED
      BY <1>2, <2>1, <3>4
  <2>3. CASE Over(c)
    BY <1>2, <2>1, <2>3, OverShape
  <2> QED
    BY <1>7, <2>2, <2>3 DEF Renewed
<1> QED
  BY <1>4, <1>5, <1>6, <1>7

LEMMA RestartShape == ASSUME AuthShape, Restart PROVE AuthShape'
<1>1. TokenShape /\ CallShape /\ issued \in Nat /\ UNCHANGED <<now, issued, iat>>
  BY DEF AuthShape, TokenShape, Restart
<1>2. CallShape'
  <2>1. call' = [c \in Calls |-> NoCall] /\ NoCall \in CallState(issued) /\ InHands(NoCall)
    BY <1>1, NoCallFits DEF Restart
  <2>2. [access |-> 0, refresh |-> 0] \in StoredTokens(issued)
    BY <1>1 DEF StoredTokens
  <2>3. app' \in [Apps -> StoredTokens(issued)]
    BY <1>1, <2>2 DEF Restart, CallShape
  <2> QED
    BY <1>1, <2>1, <2>3 DEF CallShape
<1>3. TokenShape'
  BY <1>1 DEF Restart, TokenShape
<1> QED
  BY <1>2, <1>3 DEF AuthShape

LEMMA AuthNextShape == AuthShape /\ [AuthNext]_authVars => AuthShape'
<1> SUFFICES ASSUME AuthShape, [AuthNext]_authVars PROVE AuthShape'
  OBVIOUS
<1>1. CASE UNCHANGED authVars
  BY <1>1 DEF authVars, blacklist, AuthShape, TokenShape, CallShape
<1>2. CASE Tick
  <2>1. now' \in Times /\ 0 .. now \subseteq 0 .. now'
    BY <1>2, TimesAssumption DEF Tick, AuthShape, TokenShape, Times
  <2> QED
    BY <1>2, <2>1 DEF Tick, blacklist, AuthShape, TokenShape, CallShape
<1> QED
  BY <1>1, <1>2, LoginShape, CalledShape, RenewalShape, RestartShape DEF AuthNext

LEMMA AuthShapeHolds == AuthSpec => []AuthShape
  BY AuthInitShape, AuthNextShape, PTL DEF AuthSpec

-----------------------------------------------------------------------------
(* Window: the limiter remembers what a window that is not over holds.     *)
Remembered ==
  /\ passed \in Seq(Times) /\ \A k \in DOMAIN passed : passed[k] <= now
  /\ stamps \subseteq {<<k, passed[k]>> : k \in DOMAIN passed}
  /\ IsFiniteSet(stamps) /\ Cardinality(stamps) <= Limit
  /\ \A k \in DOMAIN passed : InWindow(passed[k]) => <<k, passed[k]>> \in stamps

InTheWindow(t) == {k \in DOMAIN passed : passed[k] <= t /\ t <= passed[k] + Window}

(* A step that lets no request pass.                                       *)
LEMMA WindowStays ==
  ASSUME TokenShape, Remembered, WithinLimit, UNCHANGED passed, now' \in {now, now + 1},
         \/ UNCHANGED stamps
         \/ stamps' = {s \in stamps : InWindow(s[2])} /\ UNCHANGED now
  PROVE  Remembered' /\ WithinLimit'
<1>1. /\ now \in Nat /\ \A k \in DOMAIN passed : passed[k] \in Nat /\ passed[k] <= now
      /\ Window \in Nat /\ Limit \in Nat
  BY TimesAssumption DEF TokenShape, Remembered, Times
<1>2. stamps' \subseteq stamps /\ IsFiniteSet(stamps') /\ Cardinality(stamps') <= Limit
  <2>1. stamps' \subseteq stamps
    OBVIOUS
  <2>2. /\ IsFiniteSet(stamps) /\ Cardinality(stamps) \in Nat /\ Cardinality(stamps) <= Limit
        /\ IsFiniteSet(stamps') /\ Cardinality(stamps') \in Nat
        /\ Cardinality(stamps') <= Cardinality(stamps)
    BY <2>1, FS_Subset, FS_CardinalityType DEF Remembered
  <2> QED
    BY <1>1, <2>1, <2>2
<1>3. \A k \in DOMAIN passed : InWindow(passed[k])' => <<k, passed[k]>> \in stamps'
  <2> SUFFICES ASSUME NEW k \in DOMAIN passed, now' <= passed[k] + Window
               PROVE  <<k, passed[k]>> \in stamps'
    BY DEF InWindow
  <2>1. InWindow(passed[k])
    BY <1>1 DEF InWindow
  <2>2. <<k, passed[k]>> \in stamps
    BY <2>1 DEF Remembered
  <2> QED
    BY <2>1, <2>2
<1>4. Remembered'
  <2>1. \A k \in DOMAIN passed' : passed'[k] <= now'
    BY <1>1
  <2> QED
    BY <1>2, <1>3, <2>1 DEF Remembered, InWindow
<1>5. WithinLimit'
  BY DEF WithinLimit
<1> QED
  BY <1>4, <1>5

(* The numbers of a window that is not over are numbers of its stamps.     *)
LEMMA CountedByStamps ==
  ASSUME Remembered, NEW K, K \subseteq DOMAIN passed, NEW S, IsFiniteSet(S),
         \A k \in K : <<k, passed[k]>> \in S
  PROVE  IsFiniteSet(K) /\ Cardinality(K) \in Nat /\ Cardinality(K) <= Cardinality(S)
         /\ Cardinality(S) \in Nat
<1> DEFINE f == [s \in S |-> s[1]]
           I == {f[s] : s \in S}
<1>1. f \in Surjection(S, I)
  BY DEF Surjection
<1>2. IsFiniteSet(I) /\ Cardinality(I) <= Cardinality(S)
  BY <1>1, FS_Surjection
<1>3. K \subseteq I
  <2> SUFFICES ASSUME NEW k \in K PROVE k \in I
    OBVIOUS
  <2>1. <<k, passed[k]>> \in S /\ f[<<k, passed[k]>>] = k
    OBVIOUS
  <2> QED
    BY <2>1
<1>4. IsFiniteSet(K) /\ Cardinality(K) <= Cardinality(I)
  BY <1>2, <1>3, FS_Subset
<1>5. Cardinality(K) \in Nat /\ Cardinality(I) \in Nat /\ Cardinality(S) \in Nat
  BY <1>2, <1>4, FS_CardinalityType
<1> HIDE DEF I
<1> QED
  BY <1>2, <1>4, <1>5

LEMMA OneMore ==
  ASSUME NEW S, IsFiniteSet(S), NEW x, x \notin S, NEW T, T = S \cup {x}
  PROVE  IsFiniteSet(T) /\ Cardinality(T) = Cardinality(S) + 1
<1>1. IsFiniteSet(S \cup {x}) /\ Cardinality(S \cup {x}) = Cardinality(S) + 1
  BY FS_AddElement
<1> QED
  BY <1>1

(* One more request, and the window it closes is not over the limit.       *)
LEMMA WindowGrows ==
  ASSUME TokenShape, Remembered, WithinLimit, UNCHANGED now,
         NEW kept, kept = {s \in stamps : InWindow(s[2])}, ~(Cardinality(kept) >= Limit),
         stamps' = kept \cup {<<Len(passed) + 1, now>>}, passed' = Append(passed, now)
  PROVE  Remembered' /\ WithinLimit'
<1> DEFINE n == Len(passed) + 1
<1>1. /\ passed \in Seq(Times) /\ now \in Times /\ Times \subseteq Nat
      /\ \A k \in DOMAIN passed : passed[k] \in Nat /\ passed[k] <= now
      /\ Window \in Nat /\ Limit \in Nat /\ IsFiniteSet(stamps) /\ now \in Nat
  BY TimesAssumption DEF TokenShape, Remembered, Times
<1>2. /\ DOMAIN passed' = DOMAIN passed \cup {n} /\ n \notin DOMAIN passed /\ passed'[n] = now
      /\ \A k \in DOMAIN passed : passed'[k] = passed[k]
      /\ passed' \in Seq(Times)
  BY <1>1
<1> HIDE DEF n
<1>3. /\ IsFiniteSet(kept) /\ kept \subseteq stamps /\ Cardinality(kept) \in Nat
      /\ Cardinality(kept) < Limit
  <2>1. IsFiniteSet(kept) /\ kept \subseteq stamps
    BY <1>1, FS_Subset
  <2> QED
    BY <1>1, <2>1, FS_CardinalityType
<1>4. stamps' = kept \cup {<<n, now>>}
  BY DEF n
<1>5. IsFiniteSet(stamps') /\ Cardinality(stamps') <= Limit
  <2>1. <<n, now>> \notin kept
    BY <1>2, <1>3 DEF Remembered
  <2>2. IsFiniteSet(stamps') /\ Cardinality(stamps') = Cardinality(kept) + 1
    BY <1>3, <1>4, <2>1, OneMore
  <2> QED
    BY <1>1, <1>3, <2>2
<1>6. \A k \in DOMAIN passed : InWindow(passed[k]) => <<k, passed[k]>> \in kept
  BY DEF Remembered
<1>7. Remembered'
  <2>1. \A k \in DOMAIN passed' : passed'[k] <= now'
    BY <1>1, <1>2
  <2>2. stamps' \subseteq {<<k, passed'[k]>> : k \in DOMAIN passed'}
    BY <1>2, <1>3, <1>4 DEF Remembered
  <2>3. \A k \in DOMAIN passed' : InWindow(passed[k])' => <<k, passed'[k]>> \in stamps'
    BY <1>2, <1>4, <1>6 DEF InWindow
  <2> QED
    BY <1>2, <1>5, <2>1, <2>2, <2>3 DEF Remembered
<1>8. ASSUME NEW t \in Times PROVE Cardinality(InTheWindow(t)') <= Limit
  <2>1. InTheWindow(t) \subseteq DOMAIN passed /\ Cardinality(InTheWindow(t)) <= Limit
    BY DEF InTheWindow, WithinLimit
  <2>2. CASE now <= t /\ t <= now + Window
    <3> DEFINE K == {k \in DOMAIN passed : t <= passed[k] + Window}
    <3>1. InTheWindow(t)' = K \cup {n} /\ n \notin K
      BY <1>1, <1>2, <2>2 DEF InTheWindow, Times
    <3>2. \A k \in K : InWindow(passed[k])
      BY <1>1, <2>2 DEF InWindow, Times
    <3>3. IsFiniteSet(K) /\ Cardinality(K) \in Nat /\ Cardinality(K) <= Cardinality(kept)
      BY <1>3, <1>6, <3>2, CountedByStamps
    <3> HIDE DEF K
    <3>4. Cardinality(K \cup {n}) = Cardinality(K) + 1
      BY <3>1, <3>3, FS_AddElement
    <3> QED
      BY <1>1, <1>3, <3>1, <3>3, <3>4
  <2>3. CASE ~(now <= t /\ t <= now + Window)
    <3>1. InTheWindow(t)' = InTheWindow(t)
      BY <1>2, <2>3 DEF InTheWindow
    <3> QED
      BY <2>1, <3>1
  <2> QED
    BY <2>2, <2>3
<1>9. WithinLimit'
  BY <1>8 DEF WithinLimit, InTheWindow
<1> QED
  BY <1>7, <1>9

LEMMA NextWindow ==
  AuthShape /\ Remembered /\ WithinLimit /\ [AuthNext]_authVars => Remembered' /\ WithinLimit'
<1> SUFFICES ASSUME AuthShape, Remembered, WithinLimit, [AuthNext]_authVars
             PROVE  Remembered' /\ WithinLimit'
  OBVIOUS
<1>1. TokenShape /\ now \in Nat
  BY TimesAssumption DEF AuthShape, TokenShape, Times
<1>2. CASE UNCHANGED <<passed, stamps>> /\ now' \in {now, now + 1}
  BY <1>1, <1>2, WindowStays
<1>3. ASSUME NEW c \in Calls, CheckLimit(c) PROVE Remembered' /\ WithinLimit'
  <2> DEFINE kept == {s \in stamps : InWindow(s[2])}
  <2>1. UNCHANGED now
    BY <1>3 DEF CheckLimit
  <2>2. \/ stamps' = kept /\ UNCHANGED passed
        \/ /\ ~(Cardinality(kept) >= Limit)
           /\ stamps' = kept \cup {<<Len(passed) + 1, now>>} /\ passed' = Append(passed, now)
    BY <1>3 DEF CheckLimit
  <2> QED
    BY <1>1, <2>1, <2>2, WindowStays, WindowGrows
<1>4. CASE Restart
  <2>1. passed' = <<>> /\ stamps' = {} /\ Limit \in Nat
    BY <1>4, TimesAssumption DEF Restart
  <2>2. Cardinality({}) = 0 /\ IsFiniteSet({})
    BY FS_EmptySet
  <2>3. Remembered'
    BY <2>1, <2>2 DEF Remembered
  <2>4. \A t \in Times : InTheWindow(t)' = {}
    BY <2>1 DEF InTheWindow
  <2>5. WithinLimit'
    BY <2>1, <2>2, <2>4 DEF WithinLimit, InTheWindow
  <2> QED
    BY <2>3, <2>5
<1>5. CASE UNCHANGED authVars
  BY <1>2, <1>5 DEF authVars
<1>6. CASE Tick
  BY <1>2, <1>6 DEF Tick
<1>7. ASSUME NEW c \in Calls,
             \/ \E a \in Apps : StartLogin(c, a) \/ (\E k \in {"work", "logout"} : StartCall(c, a, k))
             \/ Login(c) \/ Saved(c) \/ Arrive(c) \/ Work(c) \/ Logout(c) \/ Left(c)
             \/ CheckRefresh(c) \/ Renew(c) \/ RefuseRenewal(c) \/ Renewed(c)
      PROVE  UNCHANGED <<now, passed, stamps>>
  BY <1>7 DEF StartLogin, StartCall, Login, Saved, Arrive, Work, Logout, Left, CheckRefresh, Renew,
     RefuseRenewal, Renewed
<1> QED
  BY <1>2, <1>3, <1>4, <1>5, <1>6, <1>7 DEF AuthNext

LEMMA WindowHolds == AuthSpec => [](Remembered /\ WithinLimit)
<1>1. AuthInit => Remembered /\ WithinLimit
  <2> SUFFICES ASSUME AuthInit PROVE Remembered /\ WithinLimit
    OBVIOUS
  <2>1. Cardinality({}) = 0 /\ IsFiniteSet({}) /\ Limit \in Nat
    BY FS_EmptySet, TimesAssumption
  <2>2. passed = <<>> /\ stamps = {}
    BY DEF AuthInit
  <2>3. \A t \in Times : InTheWindow(t) = {}
    BY <2>2 DEF InTheWindow
  <2> QED
    BY <2>1, <2>2, <2>3 DEF Remembered, WithinLimit, InTheWindow
<1> QED
  BY <1>1, NextWindow, AuthShapeHolds, PTL DEF AuthSpec

(* Every reachable state is well typed, and the limiter remembers no more  *)
(* requests than its limit.                                                *)
THEOREM AuthTypeCorrect == AuthSpec => []AuthTypeOK
<1>1. AuthShape /\ Remembered => AuthTypeOK
  BY DEF AuthShape, TokenShape, CallShape, CallState, StoredTokens, Remembered, AuthTypeOK
<1> QED
  BY <1>1, AuthShapeHolds, WindowHolds, PTL

(* For any number of calls and whatever interleaves, the limiter lets pass *)
(* no more than its limit in any window.                                   *)
THEOREM LimitIsKept == AuthSpec => []WithinLimit
  BY WindowHolds, PTL

-----------------------------------------------------------------------------
(* Refused: a refresh token of this process is revoked, or registered to   *)
(* be revoked at logout.                                                   *)
Refused ==
  /\ DeadStaysDead
  /\ \A n \in boot + 1 .. issued : n \in registered \/ <<"refresh", n>> \in revoked

LEMMA NextRefused == AuthShape /\ Refused /\ [AuthNext]_authVars => Refused'
<1> SUFFICES ASSUME AuthShape, Refused, [AuthNext]_authVars PROVE Refused'
  OBVIOUS
<1>1. TokenShape /\ issued \in Nat /\ boot \in Nat
  BY DEF AuthShape, TokenShape
<1>2. CASE UNCHANGED <<boot, issued, registered, revoked, dead>>
  BY <1>2 DEF Refused, DeadStaysDead
<1>3. ASSUME NEW c \in Calls, Login(c) PROVE Refused'
  <2>1. UNCHANGED <<boot, revoked, dead>>
        /\ \/ issued' = issued + 1 /\ registered' = registered \cup {issued + 1}
           \/ UNCHANGED <<issued, registered>>
    BY <1>3 DEF Login, Issue
  <2> QED
    BY <1>1, <2>1 DEF Refused, DeadStaysDead
<1>4. ASSUME NEW c \in Calls, Renew(c) PROVE Refused'
  <2>1. /\ UNCHANGED boot /\ issued' = issued + 1 /\ registered' = registered \cup {issued + 1}
        /\ revoked' = revoked \cup {<<"refresh", call[c].refresh>>}
        /\ dead' = dead \cup {call[c].refresh}
    BY <1>4 DEF Renew, Issue
  <2>4. \A n \in boot' + 1 .. issued' : n \in registered' \/ <<"refresh", n>> \in revoked'
    <3> SUFFICES ASSUME NEW n \in boot + 1 .. issued + 1
                 PROVE  n \in registered' \/ <<"refresh", n>> \in revoked'
      BY <2>1
    <3>1. n = issued + 1 \/ n \in boot + 1 .. issued
      BY <1>1
    <3> QED
      BY <2>1, <3>1 DEF Refused
  <2>5. DeadStaysDead'
    BY <2>1 DEF Refused, DeadStaysDead
  <2> QED
    BY <2>4, <2>5 DEF Refused
<1>5. ASSUME NEW c \in Calls, Logout(c) PROVE Refused'
  <2>1. CASE UNCHANGED <<revoked, registered, dead>>
    BY <1>2, <1>5, <2>1 DEF Logout
  <2>2. CASE /\ revoked' = revoked \cup {<<"access", call[c].token>>}
                                   \cup {<<"refresh", n>> : n \in registered}
             /\ dead' = dead \cup (boot + 1) .. issued
    <3>1. UNCHANGED <<boot, issued>>
      BY <1>5 DEF Logout
    <3>2. \A n \in boot + 1 .. issued : <<"refresh", n>> \in revoked'
      BY <2>2 DEF Refused
    <3>3. revoked \subseteq revoked'
      BY <2>2
    <3>4. DeadStaysDead'
      BY <2>2, <3>2, <3>3 DEF Refused, DeadStaysDead
    <3> QED
      BY <3>1, <3>2, <3>3, <3>4 DEF Refused
  <2> QED
    BY <1>5, <2>1, <2>2 DEF Logout, blacklist
<1>6. CASE Restart
  <2>1. dead' = {} /\ boot' = issued /\ issued' = issued
    BY <1>6 DEF Restart
  <2> QED
    BY <1>1, <2>1 DEF Refused, DeadStaysDead
<1>7. CASE UNCHANGED authVars \/ Tick
  BY <1>2, <1>7 DEF authVars, blacklist, Tick
<1>8. ASSUME NEW c \in Calls,
             \/ \E a \in Apps : StartLogin(c, a) \/ (\E k \in {"work", "logout"} : StartCall(c, a, k))
             \/ Saved(c) \/ Arrive(c) \/ CheckLimit(c) \/ Work(c) \/ Left(c)
             \/ CheckRefresh(c) \/ RefuseRenewal(c) \/ Renewed(c)
      PROVE  UNCHANGED <<boot, issued, registered, revoked, dead>>
  BY <1>8 DEF StartLogin, StartCall, Saved, Arrive, CheckLimit, Work, Left, CheckRefresh,
     RefuseRenewal, Renewed, blacklist
<1> QED
  BY <1>2, <1>3, <1>4, <1>5, <1>6, <1>7, <1>8 DEF AuthNext

LEMMA RefusedHolds == AuthSpec => []Refused
<1>1. AuthInit => Refused
  <2> SUFFICES ASSUME AuthInit PROVE Refused
    OBVIOUS
  <2>1. boot = 0 /\ issued = 0 /\ dead = {}
    BY DEF AuthInit
  <2> QED
    BY <2>1 DEF Refused, DeadStaysDead
<1> QED
  BY <1>1, NextRefused, AuthShapeHolds, PTL DEF AuthSpec

(* Renewals and logouts interleave as they may: what was renewed, or       *)
(* issued before a logout, is refused until the process restarts.          *)
THEOREM DeadAreRefused == AuthSpec => []DeadStaysDead
<1>1. Refused => DeadStaysDead
  BY DEF Refused
<1> QED
  BY <1>1, RefusedHolds, PTL
=============================================================================
