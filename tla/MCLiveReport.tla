---------------------------- MODULE MCLiveReport ----------------------------
(***************************************************************************)
(* Model-checking instance of LiveReport: requests are interchangeable.    *)
(* And what is true of the contents of a report, for a procedure of two    *)
(* steps and all sequences of three events: TLC evaluates those claims     *)
(* before it begins.                                                       *)
(***************************************************************************)
EXTENDS LiveReport, Sequences, TLC

R == INSTANCE ReportContents

Symmetry == Permutations(Reqs)

-----------------------------------------------------------------------------
(* Step 2 is none of the procedure: an event takes the step its sender     *)
(* names.                                                                  *)
Steps == 2

Happens(type, from) == [type : {type}, step : 0 .. 2, text : {"x"}, from : {from}]

Happenings ==
  UNION {Happens("step.completed", "none"), Happens("step.skipped", "none"),
         Happens("finding", "none"), Happens("measurement", "none"),
         Happens("photo", "accepted"), Happens("command", "none"),
         Happens("utterance", "technician"), Happens("utterance", "agent"),
         Happens("observation", "none")}

Stories == UNION {[1 .. n -> Happenings] : n \in 0 .. 2}

Albums == {<<>>, <<[step |-> 0, status |-> "accepted"]>>,
           <<[step |-> 0, status |-> "rejected"], [step |-> 1, status |-> "accepted"]>>}

Told(story, album) == R!Contents(Steps, story, album)

StartsWith(long, short) ==
  Len(short) <= Len(long) /\ \A i \in 1 .. Len(short) : long[i] = short[i]

(* A report takes nothing back: whatever happens next, a step that is done *)
(* stays done, one that was skipped is not pending again, and what was     *)
(* found, measured and said is still there, in its order.                  *)
ASSUME NothingIsTakenBack ==
  \A story \in Stories : \A e \in Happenings :
    LET old == Told(story, <<>>)
        new == Told(Append(story, e), <<>>)
    IN  /\ StartsWith(new.findings, old.findings)
        /\ StartsWith(new.measurements, old.measurements)
        /\ \A s \in 0 .. Steps - 1 :
             LET was == old.procedure[s]
                 is  == new.procedure[s]
             IN  /\ was.status = "done" => is.status = "done"
                 /\ was.status = "skipped" => is.status # "pending"
                 /\ StartsWith(is.observations, was.observations)
                 /\ StartsWith(is.findings, was.findings)

(* Subscribers are told of every change: contents that differ differ in a  *)
(* field of the notice, and as long as completed steps are steps of the    *)
(* procedure, the summary never changes alone.                             *)
ASSUME ChangesAreNamed ==
  \A story \in Stories : \A e \in Happenings : \A album \in Albums :
    LET old == Told(story, <<>>)
        new == Told(Append(story, e), album)
    IN  /\ R!Diff(old, new) = {} <=> old = new
        /\ (e.step < Steps /\ "summary" \in R!Diff(old, new)) =>
             R!Diff(old, new) \cap R!Fields # {}

(* The live builder looks again at every event that changes the report,    *)
(* but for a skipped step: that is seen with the next event that counts.   *)
ASSUME SkipsAreSeenLate ==
  /\ \A story \in Stories : \A e \in Happenings :
       (~R!Relevant(e) /\ Told(Append(story, e), <<>>) # Told(story, <<>>)) =>
         e.type = "step.skipped"
  /\ \E story \in Stories : \E e \in Happenings :
       ~R!Relevant(e) /\ Told(Append(story, e), <<>>) # Told(story, <<>>)

(* Every finding of a step of the procedure is under that step and in the  *)
(* list of all findings.  One that names another step is in the list only, *)
(* and what was said at such a step is nowhere.                            *)
ASSUME FindingsAreInBoth ==
  \A story \in Stories :
    LET told == Told(story, <<>>)
        Found(s) == Len(told.procedure[s].findings)
    IN  /\ \A s \in 0 .. Steps - 1 : Found(s) = Len(R!At(told.findings, s))
        /\ Found(0) + Found(1) = Len(told.findings) - Len(R!At(told.findings, Steps))
=============================================================================
