------------------------- MODULE VoiceRoutingProofs -------------------------
(***************************************************************************)
(* What holds of VoiceRouting for any number of requests, of any kinds, on *)
(* a template of any length.                                               *)
(*                                                                         *)
(* A handler is the rest of its plan, so that the invariants say of the    *)
(* rest what is still to come, and of the log what was done: Filed for the *)
(* positions a handler holds, Words for a sentence that is to be recorded, *)
(* and Told for the events of a tool.  Each holds of a plan, and of what   *)
(* is left of it after any of its awaits.                                  *)
(***************************************************************************)
EXTENDS VoiceRouting, TLAPS, SequenceTheorems

Ops == Loads \cup Events \cup {"move", "pause", "resume", "finalize", "manual", "sign", "ensure"}

Photo == "request_evidence_photo"

Rows == [status : {"active", "paused", "finalized"}, step : Steps]

Request ==
  [kind : Kinds \cup {None}, rest : Seq(Ops), step : Named \cup {None}, snap : Rows,
   result : {"none", "running", "accepted", "refused"}]

LogRow == [type : Events, step : Named, by : Reqs]

-----------------------------------------------------------------------------
(* What a plan is, and what is left of it remains: only what moves the     *)
(* session reports steps, right before the move, and enters the next right *)
(* after it; and it files nothing under the position of the session.       *)
MovesLast(kind, s) ==
  \A i \in DOMAIN s :
    /\ s[i] \in {"move", "step.entered", "step.completed", "step.skipped"} => Moves(kind)
    /\ s[i] \in {"measurement", "finding", "assistant.answering", "assistant.answered"} =>
         ~Moves(kind) /\ kind # Photo
    /\ s[i] = "move" => /\ i > 1 => s[i - 1] \in {"step.completed", "step.skipped"}
                        /\ i < Len(s) => s[i + 1] = "step.entered"
    /\ s[i] = "step.entered" /\ i > 1 => s[i - 1] = "move"

(* The effects after the m-th are there, in order, and before any move.    *)
ToCome(kind, s, m) ==
  \E at \in [m + 1 .. Len(Effects(kind)) -> DOMAIN s] :
    /\ \A n \in m + 1 .. Len(Effects(kind)) :
         s[at[n]] = Effects(kind)[n] /\ \A i \in DOMAIN s : s[i] = "move" => at[n] < i
    /\ \A n, k \in m + 1 .. Len(Effects(kind)) : n < k => at[n] < at[k]

(* What files under the position does not look again between two effects.  *)
OneStep(kind, s) ==
  ~Moves(kind) =>
    \A i, j \in DOMAIN s :
      (i < j /\ \E n \in DOMAIN Effects(kind) : s[i] = Effects(kind)[n]) => s[j] \notin Loads

(* Nothing but speech comes before the words of the technician.            *)
WordsToCome(s) ==
  \A i \in DOMAIN s : s[i] \in Events \ {"utterance"} => \E j \in 1 .. i - 1 : s[j] = "utterance"

Sound(kind, s) ==
  /\ s \in Seq(Ops) /\ (s # <<>> => s[1] \in Loads)
  /\ MovesLast(kind, s) /\ ToCome(kind, s, 0) /\ OneStep(kind, s)

(* The places of the effects in a plan. *)
LEMMA Comes ==
  ASSUME NEW kind, NEW s, NEW n \in Nat, Len(Effects(kind)) = n, NEW at \in [1 .. n -> DOMAIN s],
         \A i \in 1 .. n : s[at[i]] = Effects(kind)[i],
         \A i \in 1 .. n : \A j \in DOMAIN s : s[j] = "move" => at[i] < j,
         \A i, j \in 1 .. n : i < j => at[i] < at[j]
  PROVE  ToCome(kind, s, 0)
<1>1. 0 + 1 .. Len(Effects(kind)) = 1 .. n
  OBVIOUS
<1> QED
  BY <1>1 DEF ToCome

LEMMA MarkStepCompleteSound ==
  ASSUME NEW kind \in {"mark_step_complete", "advance"} PROVE Sound(kind, MarkStepComplete)
<1> DEFINE s == MarkStepComplete
<1>1. s \in Seq(Ops) /\ s[1] \in Loads
  BY DEF MarkStepComplete, Ops, Loads, Events
<1>2. MovesLast(kind, s)
  BY DEF MarkStepComplete, MovesLast, Moves, Photo
<1>3. ToCome(kind, s, 0)
  <2>1. Effects(kind) = <<"tool.called", "step.completed">>
    BY DEF Effects
  <2> DEFINE at == <<2, 4>>
  <2>2. at \in [1 .. 2 -> DOMAIN s] /\ at[1] = 2 /\ at[2] = 4
    BY DEF MarkStepComplete
  <2>3. s[2] = "tool.called" /\ s[4] = "step.completed"
    BY DEF MarkStepComplete
  <2>4. DOMAIN s \subseteq Nat /\ \A i \in DOMAIN s : s[i] = "move" => 4 < i
    BY DEF MarkStepComplete
  <2> HIDE DEF at, s
  <2>5. Len(Effects(kind)) = 2 /\ \A i \in 1 .. 2 : s[at[i]] = Effects(kind)[i]
    BY <2>1, <2>2, <2>3
  <2>6. \A i \in 1 .. 2 : \A j \in DOMAIN s : s[j] = "move" => at[i] < j
    BY <2>2, <2>4
  <2>7. \A i, j \in 1 .. 2 : i < j => at[i] < at[j]
    BY <2>2
  <2> QED
    BY <2>2, <2>5, <2>6, <2>7, Comes
<1>4. OneStep(kind, s)
  BY DEF OneStep, Moves
<1> QED
  BY <1>1, <1>2, <1>3, <1>4 DEF Sound

LEMMA SkipStepSound ==
  ASSUME NEW kind \in {"skip_step", "skip"} PROVE Sound(kind, SkipStep)
<1> DEFINE s == SkipStep
<1>1. s \in Seq(Ops) /\ s[1] \in Loads
  BY DEF SkipStep, Ops, Loads, Events
<1>2. MovesLast(kind, s)
  BY DEF SkipStep, MovesLast, Moves, Photo
<1>3. ToCome(kind, s, 0)
  <2>1. Effects(kind) = <<"step.skipped">>
    BY DEF Effects
  <2> DEFINE at == <<2>>
  <2>2. at \in [1 .. 1 -> DOMAIN s] /\ at[1] = 2
    BY DEF SkipStep
  <2>3. s[2] = "step.skipped"
    BY DEF SkipStep
  <2>4. DOMAIN s \subseteq Nat /\ \A i \in DOMAIN s : s[i] = "move" => 2 < i
    BY DEF SkipStep
  <2> HIDE DEF at, s
  <2>5. Len(Effects(kind)) = 1 /\ \A i \in 1 .. 1 : s[at[i]] = Effects(kind)[i]
    BY <2>1, <2>2, <2>3
  <2>6. \A i \in 1 .. 1 : \A j \in DOMAIN s : s[j] = "move" => at[i] < j
    BY <2>2, <2>4
  <2>7. \A i, j \in 1 .. 1 : i < j => at[i] < at[j]
    BY <2>2
  <2> QED
    BY <2>2, <2>5, <2>6, <2>7, Comes
<1>4. OneStep(kind, s)
  BY DEF OneStep, Moves
<1> QED
  BY <1>1, <1>2, <1>3, <1>4 DEF Sound

LEMMA PauseSessionSound ==
  ASSUME NEW kind \in {"pause_session", "pause", "ended"} PROVE Sound(kind, PauseSession)
<1> DEFINE s == PauseSession
<1>1. s \in Seq(Ops) /\ s[1] \in Loads
  BY DEF PauseSession, Ops, Loads, Events
<1>2. MovesLast(kind, s)
  BY DEF PauseSession, MovesLast, Moves, Photo
<1>3. ToCome(kind, s, 0)
  <2>1. Effects(kind) = <<"session.paused", "step.paused">>
    BY DEF Effects
  <2> DEFINE at == <<3, 4>>
  <2>2. at \in [1 .. 2 -> DOMAIN s] /\ at[1] = 3 /\ at[2] = 4
    BY DEF PauseSession
  <2>3. s[3] = "session.paused" /\ s[4] = "step.paused"
    BY DEF PauseSession
  <2>4. DOMAIN s \subseteq Nat /\ \A i \in DOMAIN s : s[i] = "move" => 4 < i
    BY DEF PauseSession
  <2> HIDE DEF at, s
  <2>5. Len(Effects(kind)) = 2 /\ \A i \in 1 .. 2 : s[at[i]] = Effects(kind)[i]
    BY <2>1, <2>2, <2>3
  <2>6. \A i \in 1 .. 2 : \A j \in DOMAIN s : s[j] = "move" => at[i] < j
    BY <2>2, <2>4
  <2>7. \A i, j \in 1 .. 2 : i < j => at[i] < at[j]
    BY <2>2
  <2> QED
    BY <2>2, <2>5, <2>6, <2>7, Comes
<1>4. OneStep(kind, s)
  BY DEF OneStep, Moves, Effects, PauseSession, Loads
<1> QED
  BY <1>1, <1>2, <1>3, <1>4 DEF Sound

LEMMA QueryManualSound ==
  ASSUME NEW kind \in {"query_manual", "query"} PROVE Sound(kind, QueryManual)
<1> DEFINE s == QueryManual
<1>1. s \in Seq(Ops) /\ s[1] \in Loads
  BY DEF QueryManual, Ops, Loads, Events
<1>2. MovesLast(kind, s)
  BY DEF QueryManual, MovesLast, Moves, Photo
<1>3. ToCome(kind, s, 0)
  <2>1. Effects(kind) = <<"assistant.answering", "tool.called", "assistant.answered">>
    BY DEF Effects
  <2> DEFINE at == <<2, 3, 5>>
  <2>2. at \in [1 .. 3 -> DOMAIN s] /\ at[1] = 2 /\ at[2] = 3 /\ at[3] = 5
    BY DEF QueryManual
  <2>3. s[2] = "assistant.answering" /\ s[3] = "tool.called" /\ s[5] = "assistant.answered"
    BY DEF QueryManual
  <2>4. DOMAIN s \subseteq Nat /\ \A i \in DOMAIN s : s[i] = "move" => 5 < i
    BY DEF QueryManual
  <2> HIDE DEF at, s
  <2>5. Len(Effects(kind)) = 3 /\ \A i \in 1 .. 3 : s[at[i]] = Effects(kind)[i]
    BY <2>1, <2>2, <2>3
  <2>6. \A i \in 1 .. 3 : \A j \in DOMAIN s : s[j] = "move" => at[i] < j
    BY <2>2, <2>4
  <2>7. \A i, j \in 1 .. 3 : i < j => at[i] < at[j]
    BY <2>2
  <2> QED
    BY <2>2, <2>5, <2>6, <2>7, Comes
<1>4. OneStep(kind, s)
  BY DEF OneStep, Moves, Effects, QueryManual, Loads
<1> QED
  BY <1>1, <1>2, <1>3, <1>4 DEF Sound

LEMMA AddMeasurementSound ==
  ASSUME NEW kind \in {"add_measurement", "measurement"} PROVE Sound(kind, AddMeasurement)
<1> DEFINE s == AddMeasurement
<1>1. s \in Seq(Ops) /\ s[1] \in Loads
  BY DEF AddMeasurement, Ops, Loads, Events
<1>2. MovesLast(kind, s)
  BY DEF AddMeasurement, MovesLast, Moves, Photo
<1>3. ToCome(kind, s, 0)
  <2>1. Effects(kind) = <<"tool.called", "measurement">>
    BY DEF Effects
  <2> DEFINE at == <<2, 3>>
  <2>2. at \in [1 .. 2 -> DOMAIN s] /\ at[1] = 2 /\ at[2] = 3
    BY DEF AddMeasurement
  <2>3. s[2] = "tool.called" /\ s[3] = "measurement"
    BY DEF AddMeasurement
  <2>4. DOMAIN s \subseteq Nat /\ \A i \in DOMAIN s : s[i] = "move" => 3 < i
    BY DEF AddMeasurement
  <2> HIDE DEF at, s
  <2>5. Len(Effects(kind)) = 2 /\ \A i \in 1 .. 2 : s[at[i]] = Effects(kind)[i]
    BY <2>1, <2>2, <2>3
  <2>6. \A i \in 1 .. 2 : \A j \in DOMAIN s : s[j] = "move" => at[i] < j
    BY <2>2, <2>4
  <2>7. \A i, j \in 1 .. 2 : i < j => at[i] < at[j]
    BY <2>2
  <2> QED
    BY <2>2, <2>5, <2>6, <2>7, Comes
<1>4. OneStep(kind, s)
  BY DEF OneStep, Moves, Effects, AddMeasurement, Loads
<1> QED
  BY <1>1, <1>2, <1>3, <1>4 DEF Sound

LEMMA AddFindingSound ==
  ASSUME NEW kind \in {"add_finding", "finding"} PROVE Sound(kind, AddFinding)
<1> DEFINE s == AddFinding
<1>1. s \in Seq(Ops) /\ s[1] \in Loads
  BY DEF AddFinding, Ops, Loads, Events
<1>2. MovesLast(kind, s)
  BY DEF AddFinding, MovesLast, Moves, Photo
<1>3. ToCome(kind, s, 0)
  <2>1. Effects(kind) = <<"tool.called", "finding">>
    BY DEF Effects
  <2> DEFINE at == <<2, 3>>
  <2>2. at \in [1 .. 2 -> DOMAIN s] /\ at[1] = 2 /\ at[2] = 3
    BY DEF AddFinding
  <2>3. s[2] = "tool.called" /\ s[3] = "finding"
    BY DEF AddFinding
  <2>4. DOMAIN s \subseteq Nat /\ \A i \in DOMAIN s : s[i] = "move" => 3 < i
    BY DEF AddFinding
  <2> HIDE DEF at, s
  <2>5. Len(Effects(kind)) = 2 /\ \A i \in 1 .. 2 : s[at[i]] = Effects(kind)[i]
    BY <2>1, <2>2, <2>3
  <2>6. \A i \in 1 .. 2 : \A j \in DOMAIN s : s[j] = "move" => at[i] < j
    BY <2>2, <2>4
  <2>7. \A i, j \in 1 .. 2 : i < j => at[i] < at[j]
    BY <2>2
  <2> QED
    BY <2>2, <2>5, <2>6, <2>7, Comes
<1>4. OneStep(kind, s)
  BY DEF OneStep, Moves, Effects, AddFinding, Loads
<1> QED
  BY <1>1, <1>2, <1>3, <1>4 DEF Sound

LEMMA RequestPhotoSound ==
  ASSUME NEW kind \in {"request_evidence_photo"} PROVE Sound(kind, RequestPhoto)
<1> DEFINE s == RequestPhoto
<1>1. s \in Seq(Ops) /\ s[1] \in Loads
  BY DEF RequestPhoto, Ops, Loads, Events
<1>2. MovesLast(kind, s)
  BY DEF RequestPhoto, MovesLast, Moves, Photo
<1>3. ToCome(kind, s, 0)
  <2>1. Effects(kind) = <<"tool.called", "photo.requested">>
    BY DEF Effects
  <2> DEFINE at == <<2, 3>>
  <2>2. at \in [1 .. 2 -> DOMAIN s] /\ at[1] = 2 /\ at[2] = 3
    BY DEF RequestPhoto
  <2>3. s[2] = "tool.called" /\ s[3] = "photo.requested"
    BY DEF RequestPhoto
  <2>4. DOMAIN s \subseteq Nat /\ \A i \in DOMAIN s : s[i] = "move" => 3 < i
    BY DEF RequestPhoto
  <2> HIDE DEF at, s
  <2>5. Len(Effects(kind)) = 2 /\ \A i \in 1 .. 2 : s[at[i]] = Effects(kind)[i]
    BY <2>1, <2>2, <2>3
  <2>6. \A i \in 1 .. 2 : \A j \in DOMAIN s : s[j] = "move" => at[i] < j
    BY <2>2, <2>4
  <2>7. \A i, j \in 1 .. 2 : i < j => at[i] < at[j]
    BY <2>2
  <2> QED
    BY <2>2, <2>5, <2>6, <2>7, Comes
<1>4. OneStep(kind, s)
  BY DEF OneStep, Moves, Effects, RequestPhoto, Loads
<1> QED
  BY <1>1, <1>2, <1>3, <1>4 DEF Sound

(* A handler of which nothing is expected. *)
LEMMA PlainSound ==
  ASSUME NEW kind, NEW s \in Seq(Ops), Effects(kind) = <<>>, s # <<>> => s[1] \in Loads,
         \A i \in DOMAIN s :
           s[i] \notin {"move", "step.entered", "step.completed", "step.skipped", "measurement",
                        "finding", "assistant.answering", "assistant.answered"}
  PROVE  Sound(kind, s)
<1>1. MovesLast(kind, s)
  BY DEF MovesLast
<1>2. Len(Effects(kind)) = 0 /\ DOMAIN Effects(kind) = {}
  OBVIOUS
<1>3. ToCome(kind, s, 0)
  <2> DEFINE at == [n \in 1 .. 0 |-> n]
  <2>1. at \in [1 .. 0 -> DOMAIN s]
    OBVIOUS
  <2> HIDE DEF at
  <2>2. \A i : i \notin 1 .. 0
    OBVIOUS
  <2>3. 0 \in Nat
    OBVIOUS
  <2> QED
    BY <1>2, <2>1, <2>2, <2>3, Comes
<1>4. OneStep(kind, s)
  BY <1>2 DEF OneStep
<1> QED
  BY <1>1, <1>3, <1>4 DEF Sound

EffectTypes ==
  {"tool.called", "step.completed", "step.skipped", "session.paused", "step.paused",
   "assistant.answering", "assistant.answered", "measurement", "finding", "photo.requested"}

LEMMA EffectsAreEvents ==
  ASSUME NEW kind
  PROVE  /\ Effects(kind) \in Seq(EffectTypes) /\ Len(Effects(kind)) \in Nat
         /\ DOMAIN Effects(kind) = 1 .. Len(Effects(kind))
         /\ \A n \in DOMAIN Effects(kind) : Effects(kind)[n] \in EffectTypes
<1>1. Effects(kind) \in
        {<<"tool.called", "step.completed">>, <<"step.skipped">>, <<>>,
         <<"assistant.answering", "tool.called", "assistant.answered">>,
         <<"tool.called", "measurement">>, <<"tool.called", "finding">>,
         <<"tool.called", "photo.requested">>, <<"session.paused", "step.paused">>}
  BY DEF Effects
<1>2. Effects(kind) \in Seq(EffectTypes)
  <2>1. /\ <<"tool.called", "step.completed">> \in Seq(EffectTypes)
        /\ <<"step.skipped">> \in Seq(EffectTypes) /\ <<>> \in Seq(EffectTypes)
        /\ <<"assistant.answering", "tool.called", "assistant.answered">> \in Seq(EffectTypes)
        /\ <<"tool.called", "measurement">> \in Seq(EffectTypes)
        /\ <<"tool.called", "finding">> \in Seq(EffectTypes)
        /\ <<"tool.called", "photo.requested">> \in Seq(EffectTypes)
        /\ <<"session.paused", "step.paused">> \in Seq(EffectTypes)
    BY DEF EffectTypes
  <2> QED
    BY <1>1, <2>1
<1> QED
  BY <1>2

(* A sentence is recorded before it is routed. *)
LEMMA SpokenFirst ==
  ASSUME NEW t \in Seq(Ops)
  PROVE  LET s == <<"hear">> \o Spoken \o t
         IN  /\ s \in Seq(Ops) /\ Len(s) = Len(t) + 3 /\ Len(t) \in Nat
             /\ s[1] = "hear" /\ s[2] = "look" /\ s[3] = "utterance"
             /\ \A i \in 1 .. Len(t) : s[i + 3] = t[i]
<1> DEFINE u == <<"hear">> \o Spoken
           s == u \o t
<1>1. u \in Seq(Ops) /\ Len(u) = 3 /\ u[1] = "hear" /\ u[2] = "look" /\ u[3] = "utterance"
  <2>1. <<"hear">> \in Seq(Ops) /\ Spoken \in Seq(Ops) /\ Len(<<"hear">>) = 1 /\ Len(Spoken) = 2
    BY DEF Spoken, Ops, Loads, Events
  <2> DEFINE h == <<"hear">>
  <2>2. h[1] = "hear" /\ Spoken[1] = "look" /\ Spoken[2] = "utterance"
    BY DEF Spoken
  <2> HIDE DEF h
  <2>3. /\ u \in Seq(Ops) /\ Len(u) = Len(h) + Len(Spoken)
        /\ \A i \in 1 .. Len(h) + Len(Spoken) : u[i] = IF i <= Len(h) THEN h[i] ELSE Spoken[i - Len(h)]
    BY <2>1, ConcatProperties DEF h
  <2>4. Len(h) = 1 /\ Len(Spoken) = 2
    BY <2>1 DEF h
  <2>5. u[1] = h[1] /\ u[2] = Spoken[1] /\ u[3] = Spoken[2]
    BY <2>3, <2>4
  <2> QED
    BY <2>2, <2>3, <2>4, <2>5
<1> HIDE DEF u
<1>2. /\ s \in Seq(Ops) /\ Len(s) = 3 + Len(t) /\ Len(t) \in Nat
      /\ \A i \in 1 .. 3 + Len(t) : s[i] = IF i <= 3 THEN u[i] ELSE t[i - 3]
  <2>1. /\ s \in Seq(Ops) /\ Len(s) = Len(u) + Len(t)
        /\ \A i \in 1 .. Len(u) + Len(t) : s[i] = IF i <= Len(u) THEN u[i] ELSE t[i - Len(u)]
    BY <1>1, ConcatProperties
  <2> QED
    BY <1>1, <2>1
<1> HIDE DEF s
<1>3. s[1] = u[1] /\ s[2] = u[2] /\ s[3] = u[3]
  BY <1>2
<1>4. \A i \in 1 .. Len(t) : s[i + 3] = t[i]
  BY <1>2
<1> QED
  BY <1>1, <1>2, <1>3, <1>4 DEF s, u

LEMMA SentenceSound ==
  ASSUME NEW kind, NEW t, Sound(kind, t), NEW s, s = <<"hear">> \o Spoken \o t
  PROVE  Sound(kind, s) /\ s # <<>> /\ WordsToCome(s)
<1>1. /\ t \in Seq(Ops) /\ MovesLast(kind, t) /\ ToCome(kind, t, 0) /\ OneStep(kind, t)
      /\ t # <<>> => t[1] \in Loads
  BY DEF Sound
<1>2. /\ s \in Seq(Ops) /\ Len(s) = Len(t) + 3 /\ Len(t) \in Nat
      /\ s[1] = "hear" /\ s[2] = "look" /\ s[3] = "utterance"
      /\ \A i \in 1 .. Len(t) : s[i + 3] = t[i]
  BY <1>1, SpokenFirst
<1>3. DOMAIN s = 1 .. Len(t) + 3 /\ DOMAIN t = 1 .. Len(t)
  BY <1>1, <1>2
<1>4. \A i \in DOMAIN s : i \in {1, 2, 3} \/ (i - 3 \in DOMAIN t /\ s[i] = t[i - 3] /\ i > 3)
  <2> SUFFICES ASSUME NEW i \in DOMAIN s, i > 3 PROVE i - 3 \in DOMAIN t /\ s[i] = t[i - 3]
    BY <1>2, <1>3
  <2>1. i - 3 \in 1 .. Len(t) /\ i = (i - 3) + 3
    BY <1>2, <1>3
  <2> QED
    BY <1>2, <1>3, <2>1
<1>5. MovesLast(kind, s)
  <2> SUFFICES ASSUME NEW i \in DOMAIN s, i - 3 \in DOMAIN t, s[i] = t[i - 3], i > 3
               PROVE  /\ s[i] \in {"move", "step.entered", "step.completed", "step.skipped"} =>
                           Moves(kind)
                      /\ s[i] \in {"measurement", "finding", "assistant.answering",
                                   "assistant.answered"} => ~Moves(kind) /\ kind # Photo
                      /\ s[i] = "move" =>
                           /\ i > 1 => s[i - 1] \in {"step.completed", "step.skipped"}
                           /\ i < Len(s) => s[i + 1] = "step.entered"
                      /\ s[i] = "step.entered" => s[i - 1] = "move"
    BY <1>2, <1>3, <1>4 DEF MovesLast
  <2>1. ASSUME s[i] \in {"move", "step.entered"} PROVE i > 4
    <3>1. t[1] \in Loads
      BY <1>1, <1>3
    <3> QED
      BY <1>3, <2>1, <3>1 DEF Loads
  <2>4. ASSUME s[i] = "step.entered" PROVE s[i - 1] = "move"
    <3>1. (i - 3) - 1 \in DOMAIN t /\ i - 3 > 1 /\ i - 1 = ((i - 3) - 1) + 3
      BY <1>2, <1>3, <2>1, <2>4
    <3>2. t[(i - 3) - 1] = "move"
      BY <1>1, <2>4, <3>1 DEF MovesLast
    <3>3. s[i - 1] = t[(i - 3) - 1]
      BY <1>2, <1>3, <3>1
    <3> QED
      BY <3>2, <3>3
  <2>2. ASSUME s[i] = "move" PROVE s[i - 1] \in {"step.completed", "step.skipped"}
    <3>1. (i - 3) - 1 \in DOMAIN t /\ i - 3 > 1 /\ i - 1 = ((i - 3) - 1) + 3
      BY <1>2, <1>3, <2>1, <2>2
    <3>2. t[(i - 3) - 1] \in {"step.completed", "step.skipped"}
      BY <1>1, <2>2, <3>1 DEF MovesLast
    <3>3. s[i - 1] = t[(i - 3) - 1]
      BY <1>2, <1>3, <3>1
    <3> QED
      BY <3>2, <3>3
  <2>3. ASSUME s[i] = "move", i < Len(s) PROVE s[i + 1] = "step.entered"
    <3>1. i - 3 < Len(t) /\ (i - 3) + 1 \in DOMAIN t /\ i + 1 = ((i - 3) + 1) + 3
      BY <1>2, <1>3, <2>3
    <3>2. t[(i - 3) + 1] = "step.entered"
      BY <1>1, <2>3, <3>1 DEF MovesLast
    <3>3. s[i + 1] = t[(i - 3) + 1]
      BY <1>2, <1>3, <3>1
    <3> QED
      BY <3>2, <3>3
  <2> QED
    BY <1>1, <2>2, <2>3, <2>4 DEF MovesLast
<1>6. ToCome(kind, s, 0)
  <2> DEFINE n == Len(Effects(kind))
  <2>1. n \in Nat /\ 0 + 1 .. n = 1 .. n
    BY EffectsAreEvents
  <2>2. PICK at \in [1 .. n -> DOMAIN t] :
          /\ \A k \in 1 .. n :
               t[at[k]] = Effects(kind)[k] /\ \A i \in DOMAIN t : t[i] = "move" => at[k] < i
          /\ \A k, l \in 1 .. n : k < l => at[k] < at[l]
    BY <1>1, <2>1 DEF ToCome
  <2> DEFINE to == [k \in 1 .. n |-> at[k] + 3]
  <2> HIDE DEF n
  <2>3. \A k \in 1 .. n : at[k] \in 1 .. Len(t) /\ to[k] = at[k] + 3
    BY <1>3, <2>2
  <2>4. to \in [1 .. n -> DOMAIN s]
    BY <1>2, <1>3, <2>3
  <2> HIDE DEF to
  <2>5. \A k \in 1 .. n : s[to[k]] = Effects(kind)[k]
    BY <1>2, <2>2, <2>3
  <2>6. ASSUME NEW k \in 1 .. n, NEW i \in DOMAIN s, s[i] = "move" PROVE to[k] < i
    <3>1. i - 3 \in DOMAIN t /\ t[i - 3] = "move"
      BY <1>2, <1>4, <2>6
    <3> QED
      BY <1>2, <1>3, <2>2, <2>3, <3>1
  <2>7. \A k, l \in 1 .. n : k < l => to[k] < to[l]
    BY <2>2, <2>3, <1>2
  <2> QED
    BY <2>1, <2>4, <2>5, <2>6, <2>7, Comes DEF n
<1>7. OneStep(kind, s)
  <2> SUFFICES ASSUME ~Moves(kind), NEW i \in DOMAIN s, NEW j \in DOMAIN s, i < j,
                      NEW n \in DOMAIN Effects(kind), s[i] = Effects(kind)[n]
               PROVE  s[j] \notin Loads
    BY DEF OneStep
  <2>1. s[i] \notin {"hear", "look", "utterance"}
    BY EffectsAreEvents DEF EffectTypes
  <2>2. i - 3 \in DOMAIN t /\ s[i] = t[i - 3] /\ i > 3
    BY <1>2, <1>4, <2>1
  <2>3. j - 3 \in DOMAIN t /\ s[j] = t[j - 3] /\ i - 3 < j - 3
    BY <1>2, <1>3, <1>4, <2>2
  <2> QED
    BY <1>1, <2>2, <2>3 DEF OneStep
<1>8. WordsToCome(s)
  <2> SUFFICES ASSUME NEW i \in DOMAIN s, s[i] \in Events \ {"utterance"}
               PROVE  \E j \in 1 .. i - 1 : s[j] = "utterance"
    BY DEF WordsToCome
  <2>1. i > 3 /\ i \in Nat
    BY <1>2, <1>3, <1>4 DEF Events
  <2>2. 3 \in 1 .. i - 1
    BY <2>1
  <2> QED
    BY <1>2, <2>2
<1>9. s # <<>> /\ s[1] \in Loads
  BY <1>2 DEF Loads
<1> QED
  BY <1>2, <1>5, <1>6, <1>7, <1>8, <1>9 DEF Sound

LEMMA RouteSound == ASSUME NEW kind \in Intents PROVE Sound(kind, RouteOf(kind))
<1>1. /\ RouteOf("advance") = MarkStepComplete /\ RouteOf("skip") = SkipStep
      /\ RouteOf("pause") = PauseSession /\ RouteOf("query") = QueryManual
      /\ RouteOf("measurement") = AddMeasurement /\ RouteOf("finding") = AddFinding
      /\ RouteOf("narration") = Observation
      /\ RouteOf("repeat") = <<>> /\ RouteOf("unknown") = <<>>
  BY DEF RouteOf, Tools
<1>2. Effects("narration") = <<>> /\ Effects("repeat") = <<>> /\ Effects("unknown") = <<>>
  BY DEF Effects
<1>3. Observation \in Seq(Ops) /\ <<>> \in Seq(Ops) /\ Observation[1] \in Loads
  BY DEF Observation, Ops, Loads, Events
<1>4. \A i \in DOMAIN Observation :
        Observation[i] \notin {"move", "step.entered", "step.completed", "step.skipped",
                    "measurement", "finding", "assistant.answering", "assistant.answered"}
  BY DEF Observation
<1>5. Sound("narration", Observation)
  BY <1>2, <1>3, <1>4, PlainSound
<1>6. Sound("repeat", <<>>) /\ Sound("unknown", <<>>)
  <2>1. DOMAIN <<>> = {}
    OBVIOUS
  <2> QED
    BY <1>2, <1>3, <2>1, PlainSound
<1> QED
  BY <1>1, <1>5, <1>6, MarkStepCompleteSound, SkipStepSound, PauseSessionSound,
     QueryManualSound, AddMeasurementSound, AddFindingSound DEF Intents

(* Every plan is sound, and that of a sentence records it first. *)
LEMMA PlanSound ==
  ASSUME NEW kind \in Kinds
  PROVE  /\ Sound(kind, Plan(kind)) /\ Plan(kind) # <<>>
         /\ kind \in Intents => WordsToCome(Plan(kind))
<1>1. CASE kind \in Intents
  <2>1. Plan(kind) = <<"hear">> \o Spoken \o RouteOf(kind)
    BY <1>1 DEF Plan, Intents, Webhooks, Tools
  <2> QED
    BY <1>1, <2>1, RouteSound, SentenceSound
<1>2. CASE kind \in {"mark_step_complete", "skip_step", "pause_session", "query_manual",
                     "add_measurement", "add_finding", "request_evidence_photo", "ended"}
  <2>1. /\ Plan("mark_step_complete") = MarkStepComplete /\ Plan("skip_step") = SkipStep
        /\ Plan("pause_session") = PauseSession /\ Plan("query_manual") = QueryManual
        /\ Plan("add_measurement") = AddMeasurement /\ Plan("add_finding") = AddFinding
        /\ Plan("request_evidence_photo") = RequestPhoto /\ Plan("ended") = PauseSession
    BY DEF Plan, Intents, Webhooks, Tools
  <2>2. /\ MarkStepComplete # <<>> /\ SkipStep # <<>> /\ PauseSession # <<>>
        /\ QueryManual # <<>> /\ AddMeasurement # <<>> /\ AddFinding # <<>> /\ RequestPhoto # <<>>
    BY DEF MarkStepComplete, SkipStep, PauseSession, QueryManual, AddMeasurement, AddFinding,
       RequestPhoto
  <2>3. kind \notin Intents
    BY <1>2 DEF Intents
  <2> QED
    BY <1>2, <2>1, <2>2, <2>3, MarkStepCompleteSound, SkipStepSound, PauseSessionSound,
       QueryManualSound, AddMeasurementSound, AddFindingSound, RequestPhotoSound
<1>3. CASE kind \in {"started", "agent speaks", "logged", "get_current_step", "connect",
                     "resume", "finalize"}
  <2>1. Effects(kind) = <<>> /\ kind \notin Intents
    BY <1>3 DEF Effects, Intents
  <2>2. /\ Plan("started") = <<"look", "ensure">> /\ Plan("agent speaks") = Spoken
        /\ Plan("logged") = <<"look">> /\ Plan("get_current_step") = GetCurrentStep
        /\ Plan("connect") = ConnectSession
        /\ Plan("resume") = <<"resumable", "resume", "session.resumed">>
        /\ Plan("finalize") = <<"last", "finalize", "session.closed">>
    BY DEF Plan, Intents, Webhooks, Tools
  <2>3. Plan(kind) \in {<<"look", "ensure">>, <<"look", "utterance">>, <<"look">>,
                       <<"context", "tool.called">>, <<"connectable", "sign">>,
                       <<"resumable", "resume", "session.resumed">>,
                       <<"last", "finalize", "session.closed">>}
    BY <1>3, <2>2 DEF Spoken, GetCurrentStep, ConnectSession
  <2>4. Plan(kind) \in Seq(Ops) /\ Plan(kind) # <<>> /\ Plan(kind)[1] \in Loads
    <3>1. \A s \in {<<"look", "ensure">>, <<"look", "utterance">>, <<"look">>,
                     <<"context", "tool.called">>, <<"connectable", "sign">>,
                     <<"resumable", "resume", "session.resumed">>,
                     <<"last", "finalize", "session.closed">>} :
            s # <<>> /\ s[1] \in Loads
      BY DEF Loads
    <3>2. /\ <<"look", "ensure">> \in Seq(Ops) /\ <<"look", "utterance">> \in Seq(Ops)
          /\ <<"look">> \in Seq(Ops) /\ <<"context", "tool.called">> \in Seq(Ops)
          /\ <<"connectable", "sign">> \in Seq(Ops)
          /\ <<"resumable", "resume", "session.resumed">> \in Seq(Ops)
          /\ <<"last", "finalize", "session.closed">> \in Seq(Ops)
      BY DEF Ops, Loads, Events
    <3> QED
      BY <2>3, <3>1, <3>2
  <2>5. \A i \in DOMAIN Plan(kind) :
          Plan(kind)[i] \notin {"move", "step.entered", "step.completed", "step.skipped",
                    "measurement", "finding", "assistant.answering", "assistant.answered"}
    BY <2>3
  <2> QED
    BY <2>1, <2>4, <2>5, PlainSound
<1> QED
  BY <1>1, <1>2, <1>3 DEF Kinds, Webhooks, AppCalls, Tools

-----------------------------------------------------------------------------
LEMMA MoveAt ==
  ASSUME NEW kind, NEW s \in Seq(Ops), MovesLast(kind, s)
  PROVE  /\ (2 \in DOMAIN s /\ s[2] = "move") => s[1] \in {"step.completed", "step.skipped"}
         /\ (4 \in DOMAIN s /\ s[4] = "move") => s[3] \in {"step.completed", "step.skipped"}
         /\ (2 \in DOMAIN s /\ s[2] = "move" /\ 3 \in DOMAIN s) => s[3] = "step.entered"
         /\ (2 \in DOMAIN s /\ s[2] = "step.entered") => s[1] = "move"
         /\ (4 \in DOMAIN s /\ s[4] = "step.entered") => s[3] = "move"
<1>1. \A i \in DOMAIN s : s[i] = "move" =>
        /\ i > 1 => s[i - 1] \in {"step.completed", "step.skipped"}
        /\ i < Len(s) => s[i + 1] = "step.entered"
  BY DEF MovesLast
<1>2. Len(s) \in Nat /\ DOMAIN s = 1 .. Len(s) /\ 2 - 1 = 1 /\ 4 - 1 = 3 /\ 2 + 1 = 3
  OBVIOUS
<1>3. (2 \in DOMAIN s /\ s[2] = "move") =>
        /\ s[2 - 1] \in {"step.completed", "step.skipped"}
        /\ 2 < Len(s) => s[2 + 1] = "step.entered"
  BY <1>1
<1>4. (4 \in DOMAIN s /\ s[4] = "move") => s[4 - 1] \in {"step.completed", "step.skipped"}
  BY <1>1
<1>5. 3 \in DOMAIN s => 2 < Len(s)
  BY <1>2
<1>6. \A i \in DOMAIN s : s[i] = "step.entered" /\ i > 1 => s[i - 1] = "move"
  BY DEF MovesLast
<1>7. (2 \in DOMAIN s /\ s[2] = "step.entered") => s[2 - 1] = "move"
  BY <1>6
<1>8. (4 \in DOMAIN s /\ s[4] = "step.entered") => s[4 - 1] = "move"
  BY <1>6
<1> QED
  BY <1>2, <1>3, <1>4, <1>5, <1>7, <1>8

(* What is left of a plan, after an await or after the end of the          *)
(* procedure, is a later part of it.                                       *)
Suffix(t, s, d) ==
  /\ s \in Seq(Ops) /\ t \in Seq(Ops) /\ d \in Nat
  /\ \A i \in DOMAIN t : i + d \in DOMAIN s /\ t[i] = s[i + d]

LEMMA TailSuffix ==
  ASSUME NEW s \in Seq(Ops), s # <<>>
  PROVE  Suffix(Tail(s), s, 1) /\ Head(s) = s[1] /\ 1 \in DOMAIN s
<1> DEFINE t == Tail(s)
<1>1. /\ t \in Seq(Ops) /\ Len(t) = Len(s) - 1 /\ Len(s) \in Nat /\ Len(s) > 0 /\ Head(s) = s[1]
      /\ \A i \in 1 .. Len(t) : t[i] = s[i + 1]
  OBVIOUS
<1>2. DOMAIN s = 1 .. Len(s) /\ DOMAIN t = 1 .. Len(t)
  BY <1>1
<1> HIDE DEF t
<1> QED
  BY <1>1, <1>2 DEF Suffix, t

LEMMA CutSuffix ==
  ASSUME NEW s \in Seq(Ops), s # <<>>
  PROVE  Suffix(SubSeq(Tail(s), 3, Len(Tail(s))), s, 3)
<1> DEFINE t == Tail(s)
           u == SubSeq(t, 3, Len(t))
<1>1. /\ t \in Seq(Ops) /\ Len(t) = Len(s) - 1 /\ Len(s) \in Nat /\ Len(s) > 0
      /\ \A i \in 1 .. Len(t) : t[i] = s[i + 1]
  OBVIOUS
<1> HIDE DEF t
<1>2. /\ u \in Seq(Ops) /\ DOMAIN u = 1 .. Len(u) /\ Len(u) \in Nat
      /\ Len(u) > 0 => Len(u) = Len(t) - 2
      /\ \A i \in 1 .. Len(u) : u[i] = t[i + 2]
  BY <1>1
<1> HIDE DEF u
<1>3. ASSUME NEW i \in DOMAIN u PROVE i + 3 \in DOMAIN s /\ u[i] = s[i + 3]
  <2>1. i \in 1 .. Len(u) /\ i + 2 \in 1 .. Len(t) /\ (i + 2) + 1 = i + 3 /\ i + 3 \in 1 .. Len(s)
    BY <1>1, <1>2
  <2> QED
    BY <1>1, <1>2, <2>1
<1> QED
  BY <1>2, <1>3 DEF Suffix, t, u

LEMMA SuffixScript ==
  ASSUME NEW kind, NEW s, NEW t, NEW d, Suffix(t, s, d), MovesLast(kind, s), OneStep(kind, s)
  PROVE  MovesLast(kind, t) /\ OneStep(kind, t)
<1>1. /\ s \in Seq(Ops) /\ t \in Seq(Ops) /\ d \in Nat /\ Len(s) \in Nat /\ Len(t) \in Nat
      /\ DOMAIN s = 1 .. Len(s) /\ DOMAIN t = 1 .. Len(t)
      /\ \A i \in DOMAIN t : i + d \in DOMAIN s /\ t[i] = s[i + d]
  BY DEF Suffix
<1>2. MovesLast(kind, t)
  <2> SUFFICES ASSUME NEW i \in DOMAIN t
               PROVE  /\ t[i] \in {"move", "step.entered", "step.completed", "step.skipped"} =>
                           Moves(kind)
                      /\ t[i] \in {"measurement", "finding", "assistant.answering",
                                   "assistant.answered"} => ~Moves(kind) /\ kind # Photo
                      /\ t[i] = "move" =>
                           /\ i > 1 => t[i - 1] \in {"step.completed", "step.skipped"}
                           /\ i < Len(t) => t[i + 1] = "step.entered"
                      /\ t[i] = "step.entered" /\ i > 1 => t[i - 1] = "move"
    BY DEF MovesLast
  <2>1. ASSUME i > 1 PROVE i - 1 \in DOMAIN t /\ t[i - 1] = s[(i + d) - 1] /\ i + d > 1
    <3>1. i \in 1 .. Len(t) /\ Len(t) \in Nat /\ d \in Nat
      BY <1>1
    <3>2. i - 1 \in 1 .. Len(t) /\ (i - 1) + d = (i + d) - 1 /\ i + d > 1
      BY <2>1, <3>1
    <3> QED
      BY <1>1, <3>2
  <2>2. ASSUME i < Len(t) PROVE t[i + 1] = s[(i + d) + 1] /\ i + d < Len(s)
    <3>1. i + 1 \in DOMAIN t /\ (i + 1) + d = (i + d) + 1
      BY <1>1, <2>2
    <3>2. (i + d) + 1 \in DOMAIN s
      BY <1>1, <3>1
    <3> QED
      BY <1>1, <3>1, <3>2
  <2> QED
    BY <1>1, <2>1, <2>2 DEF MovesLast
<1>3. OneStep(kind, t)
  <2> SUFFICES ASSUME ~Moves(kind), NEW i \in DOMAIN t, NEW j \in DOMAIN t, i < j,
                      NEW n \in DOMAIN Effects(kind), t[i] = Effects(kind)[n]
               PROVE  t[j] \notin Loads
    BY DEF OneStep
  <2>1. i + d < j + d
    BY <1>1
  <2> QED
    BY <1>1, <2>1 DEF OneStep
<1> QED
  BY <1>2, <1>3

-----------------------------------------------------------------------------
(* Filed: the positions that the handlers hold, and file under, are of     *)
(* steps before which the log has the step that was left behind.           *)
Behind(l, s, n) ==
  s = 0 \/ \E i \in 1 .. n : l[i].type \in {"step.completed", "step.skipped"} /\ l[i].step = s - 1

(* A handler knows its step once it has looked; before it moves the        *)
(* session the step that it leaves is in the log.                          *)
Script(q) ==
  /\ q.kind \in Kinds /\ q.rest # <<>>
  /\ MovesLast(q.kind, q.rest) /\ OneStep(q.kind, q.rest)
  /\ (q.step = None /\ Moves(q.kind)) => q.rest[1] \in Loads
  /\ q.step # None => Moves(q.kind) \/ q.kind = Photo

Fits(q, l) ==
  /\ Behind(l, q.snap.step, Len(l))
  /\ q.result = "running" =>
       /\ Script(q)
       /\ q.rest[1] = "move" => q.step < Last /\ Behind(l, q.step + 1, Len(l))
       /\ q.rest[1] = "step.entered" => q.step < Last

Filed ==
  /\ log \in Seq(LogRow)
  /\ \A i \in DOMAIN log : ByPosition(log[i]) => Behind(log, log[i].step, i - 1)
  /\ row \in Rows /\ Behind(log, row.step, Len(log))
  /\ graph \in Steps \cup {None} /\ (graph # None => Behind(log, graph, Len(log)))
  /\ req \in [Reqs -> Request]
  /\ \A r \in Reqs : Fits(req[r], log)

LEMMA Constants ==
  /\ NumSteps \in Nat \ {0} /\ Last \in Nat /\ Last = NumSteps - 1
  /\ Steps = 0 .. NumSteps - 1 /\ None \notin Named /\ 0 \in Steps
  /\ Steps \subseteq Named /\ Named = 0 .. NumSteps
<1>1. NumSteps \in Nat \ {0} /\ None \notin 0 .. NumSteps
  BY StepsAssumption
<1>2. 0 .. NumSteps - 1 \subseteq 0 .. NumSteps
  BY <1>1
<1> QED
  BY <1>1, <1>2 DEF Last, Steps, Named

LEMMA IdleFits ==
  /\ Idle \in Request /\ NewSession \in Rows
  /\ \A l : Behind(l, NewSession.step, Len(l)) /\ Fits(Idle, l)
<1>1. NewSession \in Rows /\ NewSession.step = 0
  BY Constants DEF NewSession, Rows
<1>2. <<>> \in Seq(Ops)
  OBVIOUS
<1>3. Idle \in Request
  BY <1>1, <1>2 DEF Idle, Request
<1> QED
  BY <1>1, <1>3 DEF Idle, Fits, Behind

LEMMA InitFiled == Init => Filed
<1> SUFFICES ASSUME Init PROVE Filed
  OBVIOUS
<1>1. log \in Seq(LogRow) /\ DOMAIN log = {}
  BY DEF Init
<1> QED
  BY <1>1, IdleFits DEF Init, Filed, Fits

LEMMA StillBehind ==
  ASSUME NEW l, NEW m, NEW n \in Nat, NEW k \in Nat, n <= k, NEW s,
         \A i \in 1 .. n : m[i] = l[i], Behind(l, s, n)
  PROVE  Behind(m, s, k)
  BY DEF Behind

(* What a handler is after an await. *)
After(q, rest) ==
  IF rest = <<>> THEN [Idle EXCEPT !.kind = q.kind, !.step = q.step, !.result = "accepted"]
  ELSE [q EXCEPT !.rest = rest]

LEMMA AfterFits ==
  ASSUME NEW q \in Request, q.result = "running", NEW rest \in Seq(Ops), NEW l,
         Behind(l, q.snap.step, Len(l)), Script([q EXCEPT !.rest = rest]) \/ rest = <<>>,
         (rest # <<>> /\ rest[1] = "move") => q.step < Last /\ Behind(l, q.step + 1, Len(l)),
         (rest # <<>> /\ rest[1] = "step.entered") => q.step < Last
  PROVE  After(q, rest) \in Request /\ Fits(After(q, rest), l)
<1>1. CASE rest = <<>>
  <2> DEFINE c == [Idle EXCEPT !.kind = q.kind, !.step = q.step, !.result = "accepted"]
  <2>1. c \in Request /\ c.result = "accepted" /\ c.snap = NewSession
    BY IdleFits DEF Request, Idle
  <2>2. Fits(c, l)
    BY <2>1, IdleFits DEF Fits
  <2> QED
    BY <1>1, <2>1, <2>2 DEF After
<1>2. CASE rest # <<>>
  <2> DEFINE c == [q EXCEPT !.rest = rest]
  <2>1. c \in Request /\ c.rest = rest /\ c.snap = q.snap /\ c.step = q.step /\ c.kind = q.kind
    BY DEF Request
  <2> HIDE DEF c
  <2>2. Fits(c, l)
    BY <1>2, <2>1 DEF Fits, c
  <2> QED
    BY <1>2, <2>1, <2>2 DEF After, c
<1> QED
  BY <1>1, <1>2

(* A handler moves on, and the log stays.                                  *)
LEMMA QuietFiled ==
  ASSUME Filed, NEW r \in Reqs, NEW c \in Request, Fits(c, log), req' = [req EXCEPT ![r] = c],
         UNCHANGED log, row' \in Rows, Behind(log, row'.step, Len(log)),
         graph' \in Steps \cup {None}, graph' # None => Behind(log, graph', Len(log))
  PROVE  Filed'
<1>1. req \in [Reqs -> Request]
  BY DEF Filed
<1>2. req' \in [Reqs -> Request] /\ \A q \in Reqs : req'[q] = IF q = r THEN c ELSE req[q]
  BY <1>1
<1>3. \A q \in Reqs : Fits(req'[q], log)
  BY <1>2 DEF Filed
<1> QED
  BY <1>2, <1>3 DEF Filed, ByPosition

LEMMA ReqFacts ==
  ASSUME Filed, NEW r \in Reqs
  PROVE  /\ req \in [Reqs -> Request] /\ req[r] \in Request /\ Fits(req[r], log)
         /\ req[r].rest \in Seq(Ops) /\ req[r].snap \in Rows /\ req[r].step \in Named \cup {None}
         /\ req[r].kind \in Kinds \cup {None}
         /\ log \in Seq(LogRow) /\ Len(log) \in Nat /\ DOMAIN log = 1 .. Len(log)
  BY DEF Filed, Request

(* The handler r is about to do one of these.                              *)
LEMMA DoesFacts ==
  ASSUME Filed, NEW r \in Reqs, NEW ops, Does(r, ops)
  PROVE  /\ req[r].result = "running" /\ Script(req[r]) /\ req[r].rest # <<>>
         /\ Head(req[r].rest) = req[r].rest[1] /\ req[r].rest[1] \in ops
         /\ 1 \in DOMAIN req[r].rest /\ Suffix(Tail(req[r].rest), req[r].rest, 1)
         /\ req[r].rest[1] = "move" => req[r].step < Last /\ Behind(log, req[r].step + 1, Len(log))
         /\ req[r].rest[1] = "step.entered" => req[r].step < Last
<1>1. req[r].rest \in Seq(Ops) /\ req[r].rest # <<>> /\ req[r].result = "running"
      /\ Head(req[r].rest) \in ops /\ Fits(req[r], log)
  BY ReqFacts DEF Does, Running
<1>2. Suffix(Tail(req[r].rest), req[r].rest, 1) /\ Head(req[r].rest) = req[r].rest[1]
      /\ 1 \in DOMAIN req[r].rest
  BY <1>1, TailSuffix
<1> QED
  BY <1>1, <1>2 DEF Fits

LEMMA BeginFiled ==
  ASSUME Filed, NEW r \in Reqs, NEW kind \in Kinds, NEW step \in Named \cup {None},
         step # None => Moves(kind) \/ kind = Photo, Begin(r, kind, step)
  PROVE  Filed'
<1> DEFINE c == [Idle EXCEPT !.kind = kind, !.step = step, !.rest = Plan(kind),
                             !.result = "running"]
<1>1. /\ Plan(kind) \in Seq(Ops) /\ Plan(kind) # <<>> /\ Plan(kind)[1] \in Loads
      /\ MovesLast(kind, Plan(kind)) /\ OneStep(kind, Plan(kind))
  BY PlanSound DEF Sound
<1>2. /\ c \in Request /\ c.kind = kind /\ c.step = step /\ c.rest = Plan(kind)
      /\ c.snap = NewSession /\ c.result = "running"
  BY <1>1, IdleFits DEF Request, Idle
<1>3. req' = [req EXCEPT ![r] = c] /\ UNCHANGED <<log, row, graph>>
  BY DEF Begin
<1> HIDE DEF c
<1>4. Script(c)
  BY <1>1, <1>2 DEF Script
<1>5. Fits(c, log)
  BY <1>1, <1>2, <1>4, IdleFits DEF Fits, Loads
<1> QED
  BY <1>2, <1>3, <1>5, QuietFiled DEF Filed

LEMMA CallsFiled ==
  ASSUME Filed, NEW r \in Reqs, Webhook(r) \/ CallTool(r) \/ CallRoute(r) PROVE Filed'
<1>1. CASE Webhook(r)
  <2>1. PICK kind \in Intents \cup Webhooks : Begin(r, kind, None)
    BY <1>1 DEF Webhook
  <2> QED
    BY <2>1, BeginFiled DEF Kinds
<1>2. CASE CallTool(r)
  <2>1. PICK tool \in DOMAIN Tools : \E step \in NamedSteps(tool) : Begin(r, tool, step)
    BY <1>2 DEF CallTool
  <2>2. PICK step \in NamedSteps(tool) : Begin(r, tool, step)
    BY <2>1
  <2>3. step \in Named \cup {None} /\ (step # None => Moves(tool) \/ tool = Photo)
    BY <2>2 DEF NamedSteps, Moves, Photo
  <2> QED
    BY <2>2, <2>3, BeginFiled DEF Kinds
<1>3. CASE CallRoute(r)
  <2>1. PICK kind \in AppCalls : Begin(r, kind, None)
    BY <1>3 DEF CallRoute
  <2> QED
    BY <2>1, BeginFiled DEF Kinds
<1> QED
  BY <1>1, <1>2, <1>3

LEMMA RefusedFiled ==
  ASSUME Filed, NEW r \in Reqs, NEW kind \in Kinds \cup {None},
         req' = [req EXCEPT ![r] = [Idle EXCEPT !.kind = kind, !.result = "refused"]],
         UNCHANGED <<log, row, graph>>
  PROVE  Filed'
<1> DEFINE c == [Idle EXCEPT !.kind = kind, !.result = "refused"]
<1>1. c \in Request /\ c.snap = NewSession /\ c.result = "refused"
  BY IdleFits DEF Request, Idle
<1>2. Fits(c, log)
  BY <1>1, IdleFits DEF Fits
<1> HIDE DEF c
<1> QED
  BY <1>1, <1>2, QuietFiled DEF Filed, c

LEMMA RefuseFiled ==
  ASSUME Filed, NEW r \in Reqs, Refuse(r), UNCHANGED <<log, row, graph>> PROVE Filed'
  BY ReqFacts, RefusedFiled DEF Refuse

LEMMA RejectFiled ==
  ASSUME Filed, NEW r \in Reqs, RejectWebhook(r) \/ RejectCall(r) PROVE Filed'
<1>1. PICK kind \in Kinds : Reject(r, kind)
  BY DEF RejectWebhook, RejectCall, Kinds
<1> QED
  BY <1>1, RefusedFiled DEF Reject

(* What remains after the first await of the rest.                         *)
LEMMA ScriptGoesOn ==
  ASSUME NEW q \in Request, Script(q), NEW t, NEW d, Suffix(t, q.rest, d),
         q.step = None => ~Moves(q.kind)
  PROVE  Script([q EXCEPT !.rest = t]) \/ t = <<>>
<1> DEFINE c == [q EXCEPT !.rest = t]
<1>1. c.rest = t /\ c.kind = q.kind /\ c.step = q.step
  BY DEF Request
<1>2. MovesLast(q.kind, t) /\ OneStep(q.kind, t)
  BY SuffixScript DEF Script
<1> HIDE DEF c
<1> QED
  BY <1>1, <1>2 DEF Script, c

(* An await that is not a load, and leaves the log alone.                  *)
LEMMA GoOnFiled ==
  ASSUME Filed, NEW r \in Reqs, NEW ops, ops \cap (Loads \cup {"step.completed", "step.skipped"}) = {},
         Does(r, ops), GoOn(r), UNCHANGED log,
         row' \in Rows, Behind(log, row'.step, Len(log)),
         graph' \in Steps \cup {None}, graph' # None => Behind(log, graph', Len(log))
  PROVE  Filed'
<1> DEFINE q == req[r]
           t == Tail(q.rest)
<1>1. /\ q \in Request /\ q.result = "running" /\ Script(q) /\ q.rest[1] \in ops
      /\ Suffix(t, q.rest, 1) /\ Fits(q, log) /\ q.rest \in Seq(Ops)
  BY ReqFacts, DoesFacts
<1>2. req' = [req EXCEPT ![r] = After(q, t)]
  BY DEF GoOn, GoOnWith, After
<1>3. t \in Seq(Ops)
  BY <1>1 DEF Suffix
<1> HIDE DEF q, t
<1>4. q.step = None => ~Moves(q.kind)
  BY <1>1 DEF Script
<1>5. Script([q EXCEPT !.rest = t]) \/ t = <<>>
  BY <1>1, <1>4, ScriptGoesOn
<1>6. ASSUME t # <<>> PROVE t[1] # "move"
  <2>1. 1 \in DOMAIN t /\ 2 \in DOMAIN q.rest /\ t[1] = q.rest[2]
    BY <1>1, <1>3, <1>6 DEF Suffix
  <2>2. q.rest[2] = "move" => q.rest[1] \in {"step.completed", "step.skipped"}
    BY <1>1, <2>1, MoveAt DEF Script
  <2> QED
    BY <1>1, <2>1, <2>2
<1>8. ASSUME t # <<>>, t[1] = "step.entered" PROVE q.step < Last
  <2>1. 1 \in DOMAIN t /\ 2 \in DOMAIN q.rest /\ t[1] = q.rest[2]
    BY <1>1, <1>3, <1>8 DEF Suffix
  <2>2. q.rest[2] = "step.entered" => q.rest[1] = "move"
    BY <1>1, <2>1, MoveAt DEF Script
  <2> QED
    BY <1>1, <1>8, <2>1, <2>2 DEF Fits
<1>7. After(q, t) \in Request /\ Fits(After(q, t), log)
  BY <1>1, <1>3, <1>5, <1>6, <1>8, AfterFits DEF Fits
<1> QED
  BY <1>2, <1>7, QuietFiled

LEMMA LoadFiled ==
  ASSUME Filed, NEW r \in Reqs, Load(r) PROVE Filed'
<1> DEFINE q == req[r]
           t == Tail(q.rest)
           step == StepMeant(r)
           c == [q EXCEPT !.snap = row, !.step = step]
<1>1. Does(r, Loads) /\ UNCHANGED <<log, row, graph>>
  BY DEF Load
<1>2. /\ q \in Request /\ q.result = "running" /\ Script(q) /\ q.rest[1] \in Loads
      /\ Suffix(t, q.rest, 1) /\ Fits(q, log) /\ q.rest \in Seq(Ops)
      /\ q.kind \in Kinds
  BY <1>1, ReqFacts, DoesFacts DEF Script
<1>3. CASE Refuse(r)
  BY <1>1, <1>3, RefuseFiled
<1>4. CASE GoOnWith(r, c, t)
  <2>1. row \in Rows /\ row.step \in Steps /\ Behind(log, row.step, Len(log))
    BY DEF Filed, Rows
  <2>2. /\ step \in Named \cup {None} /\ (step # None => Moves(q.kind) \/ q.kind = Photo)
        /\ step = None => ~Moves(q.kind)
    BY <1>2, <2>1, ReqFacts, Constants DEF StepMeant, Script
  <2> HIDE DEF q, t, step
  <2>3. /\ c \in Request /\ c.kind = q.kind /\ c.rest = q.rest /\ c.step = step /\ c.snap = row
        /\ c.result = "running"
    BY <1>2, <2>1, <2>2 DEF Request
  <2> HIDE DEF c
  <2>4. Script(c)
    BY <1>2, <2>2, <2>3 DEF Script
  <2>5. t \in Seq(Ops) /\ (Script([c EXCEPT !.rest = t]) \/ t = <<>>)
    <3>1. Suffix(t, c.rest, 1) /\ (c.step = None => ~Moves(c.kind))
      BY <1>2, <2>2, <2>3
    <3>2. Script([c EXCEPT !.rest = t]) \/ t = <<>>
      BY <2>3, <2>4, <3>1, ScriptGoesOn
    <3>3. t \in Seq(Ops)
      BY <3>1 DEF Suffix
    <3> QED
      BY <3>2, <3>3
  <2>6. ASSUME t # <<>> PROVE t[1] \notin {"move", "step.entered"}
    <3>1. 1 \in DOMAIN t /\ 2 \in DOMAIN q.rest /\ t[1] = q.rest[2]
      BY <1>2, <2>5, <2>6 DEF Suffix
    <3>2. /\ q.rest[2] = "move" => q.rest[1] \in {"step.completed", "step.skipped"}
          /\ q.rest[2] = "step.entered" => q.rest[1] = "move"
      BY <1>2, <3>1, MoveAt DEF Script
    <3> QED
      BY <1>2, <3>1, <3>2 DEF Loads
  <2>7. After(c, t) \in Request /\ Fits(After(c, t), log)
    BY <2>1, <2>3, <2>5, <2>6, AfterFits
  <2>8. req' = [req EXCEPT ![r] = After(c, t)]
    BY <1>4 DEF GoOnWith, After
  <2> QED
    BY <1>1, <2>7, <2>8, QuietFiled DEF Filed
<1> QED
  BY <1>3, <1>4 DEF Load

(* An event. *)
LEMMA EmitFacts ==
  ASSUME Filed, NEW r \in Reqs, Emit(r)
  PROVE  /\ req[r].rest[1] \in Events
         /\ log' = Append(log, [type |-> req[r].rest[1], step |-> EventStep(r, req[r].rest[1]),
                                by |-> r])
         /\ EventStep(r, req[r].rest[1]) \in Named
         /\ req[r].step = None => ~Moves(req[r].kind)
         /\ log' \in Seq(LogRow) /\ Len(log') = Len(log) + 1
         /\ \A i \in 1 .. Len(log) : log'[i] = log[i]
         /\ log'[Len(log) + 1] =
              [type |-> req[r].rest[1], step |-> EventStep(r, req[r].rest[1]), by |-> r]
         /\ UNCHANGED <<row, graph>>
<1> DEFINE type == req[r].rest[1]
           e == [type |-> type, step |-> EventStep(r, type), by |-> r]
<1>1. /\ type \in Events /\ Script(req[r]) /\ Head(req[r].rest) = type
      /\ log' = Append(log, e) /\ UNCHANGED <<row, graph>>
      /\ 1 \in DOMAIN req[r].rest
  BY DoesFacts DEF Emit
<1>2. req[r].step = None => ~Moves(req[r].kind)
  BY <1>1 DEF Script, Loads, Events
<1>3. EventStep(r, type) \in Named
  <2>1. type = "step.entered" => req[r].step \in Named /\ req[r].step < Last
    BY <1>1, <1>2, ReqFacts, DoesFacts DEF Emit, Script, MovesLast
  <2>2. req[r].snap.step \in Steps /\ req[r].step \in Named \cup {None}
    BY ReqFacts DEF Rows
  <2>3. \A s \in Named : s < Last => s + 1 \in Named
    BY Constants
  <2>4. Steps \subseteq Named
    BY Constants
  <2> QED
    BY <2>1, <2>2, <2>3, <2>4 DEF EventStep
<1>4. e \in LogRow
  BY <1>1, <1>3 DEF LogRow
<1> HIDE DEF e
<1>5. /\ log' \in Seq(LogRow) /\ Len(log') = Len(log) + 1 /\ log'[Len(log) + 1] = e
      /\ \A i \in 1 .. Len(log) : log'[i] = log[i]
  BY <1>1, <1>4, ReqFacts
<1> QED
  BY <1>1, <1>2, <1>3, <1>5 DEF e

LEMMA EmitFiled ==
  ASSUME Filed, NEW r \in Reqs, Emit(r) PROVE Filed'
<1> DEFINE q == req[r]
           type == q.rest[1]
           rest == AfterEmit(r)
           n == Len(log) + 1
<1>1. /\ q \in Request /\ q.result = "running" /\ Script(q) /\ Fits(q, log)
      /\ q.rest \in Seq(Ops) /\ q.rest # <<>> /\ type \in Events
      /\ Suffix(Tail(q.rest), q.rest, 1) /\ Head(q.rest) = type
      /\ q.step = None => ~Moves(q.kind)
  BY ReqFacts, DoesFacts, EmitFacts DEF Emit
<1>2. /\ log' \in Seq(LogRow) /\ Len(log') = n /\ n \in Nat /\ Len(log) \in Nat
      /\ DOMAIN log' = 1 .. n /\ DOMAIN log = 1 .. Len(log)
      /\ \A i \in 1 .. Len(log) : log'[i] = log[i]
      /\ log'[n] = [type |-> type, step |-> EventStep(r, type), by |-> r]
      /\ UNCHANGED <<row, graph>>
  BY EmitFacts, ReqFacts
<1>3. \A s : Behind(log, s, Len(log)) => Behind(log', s, Len(log'))
  <2> SUFFICES ASSUME NEW s, Behind(log, s, Len(log)) PROVE Behind(log', s, Len(log'))
    OBVIOUS
  <2>1. Len(log) \in Nat /\ Len(log') \in Nat /\ Len(log) <= Len(log')
    BY <1>2
  <2> QED
    BY <1>2, <2>1, StillBehind
<1>4. /\ rest \in Seq(Ops) /\ (Script([q EXCEPT !.rest = rest]) \/ rest = <<>>)
      /\ (rest # <<>> /\ rest[1] = "move") =>
           q.step < Last /\ type \in {"step.completed", "step.skipped"}
      /\ rest # <<>> => rest[1] # "step.entered"
  <2> DEFINE t == Tail(q.rest)
             cut == t # <<>> /\ Head(t) = "move" /\ q.step >= Last
             u == SubSeq(t, 3, Len(t))
  <2>1. rest = IF cut THEN u ELSE t
    BY DEF AfterEmit
  <2>2. Suffix(u, q.rest, 3) /\ Suffix(t, q.rest, 1) /\ t \in Seq(Ops) /\ u \in Seq(Ops)
    BY <1>1, CutSuffix DEF Suffix
  <2>3. t # <<>> => 2 \in DOMAIN q.rest /\ t[1] = q.rest[2] /\ Head(t) = t[1]
    <3>1. t # <<>> => 1 \in DOMAIN t /\ Head(t) = t[1]
      BY <2>2, TailSuffix
    <3> QED
      BY <2>2, <3>1 DEF Suffix
  <2>4. u # <<>> => /\ 4 \in DOMAIN q.rest /\ u[1] = q.rest[4]
    <3>1. u # <<>> => 1 \in DOMAIN u
      BY <2>2
    <3> QED
      BY <2>2, <3>1 DEF Suffix
  <2>5. 4 \in DOMAIN q.rest => 3 \in DOMAIN q.rest
    BY <1>1
  <2> HIDE DEF rest, u, t, type, q
  <2>6. MovesLast(q.kind, q.rest)
    BY <1>1 DEF Script
  <2>7. (t # <<>> /\ t[1] = "move") => type \in {"step.completed", "step.skipped"}
    BY <1>1, <2>3, <2>6, MoveAt DEF type
  <2>8. (cut /\ u # <<>>) => u[1] \notin {"move", "step.entered"}
    BY <1>1, <2>3, <2>4, <2>5, <2>6, MoveAt
  <2>11. t # <<>> => t[1] # "step.entered"
    BY <1>1, <2>3, <2>6, MoveAt DEF type, Events
  <2>12. (t # <<>> /\ t[1] = "move") => q.step \in Named
    <3>1. (t # <<>> /\ t[1] = "move") => Moves(q.kind)
      BY <2>3, <2>6 DEF MovesLast
    <3> QED
      BY <1>1, <3>1 DEF Request
  <2>13. (t # <<>> /\ t[1] = "move" /\ ~cut) => q.step < Last
    BY <2>3, <2>12, Constants
  <2>9. Script([q EXCEPT !.rest = t]) \/ t = <<>>
    BY <1>1, <2>2, ScriptGoesOn
  <2>10. Script([q EXCEPT !.rest = u]) \/ u = <<>>
    BY <1>1, <2>2, ScriptGoesOn
  <2> QED
    BY <2>1, <2>2, <2>3, <2>7, <2>8, <2>9, <2>10, <2>11, <2>13
<1>5. req' = [req EXCEPT ![r] = After(q, rest)]
  BY DEF Emit, GoOnWith, After
<1>6. ASSUME type \in {"step.completed", "step.skipped"} PROVE Behind(log', q.step + 1, n)
  <2>1. q.step \in Named
    BY <1>1, <1>6, ReqFacts, DoesFacts DEF Emit, Script, MovesLast
  <2>2. EventStep(r, type) = q.step /\ (q.step + 1) - 1 = q.step
    BY <1>6, <2>1, Constants DEF EventStep
  <2>3. log'[n].type = type /\ log'[n].step = (q.step + 1) - 1 /\ n \in 1 .. n
    BY <1>2, <2>2
  <2> QED
    BY <1>6, <2>3 DEF Behind
<1>7. ASSUME ByPosition([type |-> type, step |-> EventStep(r, type), by |-> r])
      PROVE  EventStep(r, type) = q.snap.step
  <2>1. type \in {"utterance", "observation", "measurement", "finding", "assistant.answering",
                  "assistant.answered"}
    BY <1>7 DEF ByPosition
  <2>2. type \notin {"utterance", "observation"} => q.step = None
    BY <1>1, <2>1, DoesFacts DEF Emit, Script, MovesLast
  <2> QED
    BY <2>1, <2>2 DEF EventStep
<1> HIDE DEF rest, q, type
<1>8. Behind(log, q.snap.step, Len(log))
  BY <1>1 DEF Fits
<1>9. After(q, rest) \in Request /\ Fits(After(q, rest), log')
  BY <1>1, <1>2, <1>3, <1>4, <1>6, <1>8, AfterFits
<1>10. ASSUME NEW i \in DOMAIN log', ByPosition(log'[i])
       PROVE  Behind(log', log'[i].step, i - 1)
  <2>1. CASE i = n
    <3>1. ByPosition([type |-> type, step |-> EventStep(r, type), by |-> r])
      BY <1>2, <1>10, <2>1
    <3>2. log'[i].step = q.snap.step /\ i - 1 = Len(log)
      BY <1>2, <1>7, <2>1, <3>1
    <3>3. Behind(log', q.snap.step, Len(log))
      <4>1. Len(log) \in Nat /\ Len(log) <= Len(log) /\ \A j \in 1 .. Len(log) : log'[j] = log[j]
        BY <1>2
      <4> QED
        BY <1>8, <4>1, StillBehind
    <3> QED
      BY <3>2, <3>3
  <2>2. CASE i # n
    <3>1. i \in 1 .. Len(log) /\ i - 1 \in Nat /\ log'[i] = log[i]
          /\ \A j \in 1 .. i - 1 : log'[j] = log[j]
      BY <1>2, <2>2
    <3>2. Behind(log, log[i].step, i - 1)
      BY <1>2, <1>10, <3>1 DEF Filed
    <3> QED
      BY <3>1, <3>2, StillBehind
  <2> QED
    BY <2>1, <2>2
<1>11. req' \in [Reqs -> Request] /\ \A p \in Reqs : Fits(req'[p], log')
  <2>1. req' \in [Reqs -> Request] /\ \A p \in Reqs : req'[p] = IF p = r THEN After(q, rest) ELSE req[p]
    BY <1>5, <1>9, ReqFacts
  <2>2. ASSUME NEW p \in Reqs PROVE Fits(req[p], log')
    BY <1>3, ReqFacts DEF Fits
  <2> QED
    BY <1>9, <2>1, <2>2
<1> QED
  BY <1>2, <1>3, <1>10, <1>11 DEF Filed

(* A row is written back as it was loaded, but for the step or the status. *)
LEMMA MoveRow ==
  ASSUME Filed, NEW r \in Reqs, Move(r)
  PROVE  /\ row'.status = req[r].snap.status
         /\ row' \in Rows /\ Behind(log, row'.step, Len(log))
<1>1. /\ req[r].rest[1] = "move" /\ Script(req[r]) /\ 1 \in DOMAIN req[r].rest
      /\ req[r].step < Last /\ Behind(log, req[r].step + 1, Len(log))
  BY DoesFacts DEF Move, Does1
<1>2. Moves(req[r].kind)
  BY <1>1 DEF Script, MovesLast
<1>3. req[r].step \in Named
  BY <1>1, <1>2, ReqFacts DEF Script, Loads
<1>4. req[r].step + 1 \in Steps
  BY <1>1, <1>3, Constants
<1>5. row' = [req[r].snap EXCEPT !.step = req[r].step + 1]
  BY DEF Move, Moved
<1> QED
  BY <1>1, <1>4, <1>5, ReqFacts DEF Rows

LEMMA SaveStatusRow ==
  ASSUME Filed, NEW r \in Reqs, SaveStatus(r)
  PROVE  /\ row'.status = "active" => Does1(r, "resume")
         /\ row' \in Rows /\ Behind(log, row'.step, Len(log))
<1>1. /\ Does1(r, "pause") \/ Does1(r, "resume") \/ Does1(r, "finalize")
      /\ ~(Does1(r, "pause") /\ Does1(r, "resume"))
      /\ ~(Does1(r, "pause") /\ Does1(r, "finalize"))
      /\ ~(Does1(r, "resume") /\ Does1(r, "finalize"))
  BY DEF SaveStatus, Does, Does1
<1>2. PICK s : /\ row' = [req[r].snap EXCEPT !.status = s]
               /\ s = CASE Does1(r, "pause") -> "paused"
                        [] Does1(r, "resume") -> "active"
                        [] Does1(r, "finalize") -> "finalized"
  BY DEF SaveStatus
<1>3. /\ Does1(r, "pause") => s = "paused"
      /\ Does1(r, "resume") => s = "active"
      /\ Does1(r, "finalize") => s = "finalized"
  BY <1>1, <1>2
<1>4. /\ req[r].snap \in Rows /\ Behind(log, req[r].snap.step, Len(log))
  BY ReqFacts DEF Fits
<1> QED
  BY <1>1, <1>2, <1>3, <1>4 DEF Rows

LEMMA WritesFiled ==
  ASSUME Filed, NEW r \in Reqs, Move(r) \/ SaveStatus(r) PROVE Filed'
<1>1. UNCHANGED <<log, graph>> /\ GoOn(r)
  BY DEF Move, SaveStatus
<1>2. graph' \in Steps \cup {None} /\ (graph' # None => Behind(log, graph', Len(log)))
  BY <1>1 DEF Filed
<1>3. CASE Move(r)
  <2>1. Does(r, {"move"}) /\ {"move"} \cap (Loads \cup {"step.completed", "step.skipped"}) = {}
    BY <1>3 DEF Move, Does1, Loads
  <2> QED
    BY <1>1, <1>2, <1>3, <2>1, MoveRow, GoOnFiled
<1>4. CASE SaveStatus(r)
  <2> DEFINE ops == {"pause", "resume", "finalize"}
  <2>1. Does(r, ops) /\ ops \cap (Loads \cup {"step.completed", "step.skipped"}) = {}
    BY <1>4 DEF SaveStatus, Loads
  <2> HIDE DEF ops
  <2> QED
    BY <1>1, <1>2, <1>4, <2>1, SaveStatusRow, GoOnFiled
<1> QED
  BY <1>3, <1>4

LEMMA ServicesFiled ==
  ASSUME Filed, NEW r \in Reqs, AskManual(r) \/ Sign(r) \/ Ensure(r) \/ EnsureNothing(r)
  PROVE  Filed'
<1> DEFINE ops == {"manual", "sign", "ensure"}
<1>1. Does(r, ops) /\ ops \cap (Loads \cup {"step.completed", "step.skipped"}) = {}
  BY DEF AskManual, Sign, Ensure, EnsureNothing, Does1, Does, Loads
<1>2. UNCHANGED <<log, row>> /\ GoOn(r)
  BY DEF AskManual, Sign, Ensure, EnsureNothing
<1>3. row' \in Rows /\ Behind(log, row'.step, Len(log))
  BY <1>2 DEF Filed
<1>4. graph' \in Steps \cup {None} /\ (graph' # None => Behind(log, graph', Len(log)))
  <2>1. graph' = graph \/ graph' = req[r].snap.step
    BY DEF AskManual, Sign, Ensure, EnsureNothing
  <2>2. req[r].snap.step \in Steps /\ Behind(log, req[r].snap.step, Len(log))
    BY ReqFacts DEF Fits, Rows
  <2> QED
    BY <2>1, <2>2 DEF Filed
<1> HIDE DEF ops
<1> QED
  BY <1>1, <1>2, <1>3, <1>4, GoOnFiled

LEMMA NextFiled == Filed /\ [Next]_vars => Filed'
<1> SUFFICES ASSUME Filed, [Next]_vars PROVE Filed'
  OBVIOUS
<1>1. CASE UNCHANGED vars
  BY <1>1 DEF vars, Filed, ByPosition
<1>2. ASSUME NEW r \in Reqs, Raise(r) PROVE Filed'
  BY <1>2, RefuseFiled DEF Raise
<1> QED
  BY <1>1, <1>2, CallsFiled, RejectFiled, LoadFiled, EmitFiled, WritesFiled, ServicesFiled DEF Next

THEOREM FiledHolds == Spec => []Filed
  BY InitFiled, NextFiled, PTL DEF Spec

(* Events, row, graph and handlers have their types, whatever a handler    *)
(* writes back: the session never moves past its last step.                *)
THEOREM TypeCorrect == Spec => []TypeOK
<1>1. Filed => TypeOK
  BY ReqFacts DEF Filed, TypeOK, Request, Rows, LogRow
<1> QED
  BY <1>1, FiledHolds, PTL

(* Speech, observations, measurements and answers are filed under a step   *)
(* that the log says was reached before, and so is the step LangGraph      *)
(* starts with, though handlers file under the row as they loaded it.      *)
THEOREM FiledUnderReachedSteps == Spec => []FiledWhereItWas
<1>1. Filed => FiledWhereItWas
  BY DEF Filed, FiledWhereItWas, LeftBehind, Behind
<1> QED
  BY <1>1, FiledHolds, PTL

(* Only resuming takes a session up again, or a move by a handler that     *)
(* loaded it before the pause.                                             *)
THEOREM PausesHold == Spec => PauseHolds
<1> DEFINE Holds ==
      (row.status = "paused" /\ row'.status = "active") =>
        \E r \in Reqs : Does1(r, "resume") \/ (Does1(r, "move") /\ req[r].snap.status = "active")
<1>1. Filed /\ [Next]_vars => [Holds]_vars
  <2> SUFFICES ASSUME Filed, Next, row.status = "paused", row'.status = "active"
               PROVE  \E r \in Reqs : Does1(r, "resume")
                                      \/ (Does1(r, "move") /\ req[r].snap.status = "active")
    OBVIOUS
  <2>1. row' # row
    OBVIOUS
  <2>2. PICK r \in Reqs : Move(r) \/ SaveStatus(r)
    BY <2>1 DEF Next, Webhook, CallTool, CallRoute, RejectWebhook, RejectCall, Begin, Reject, Load,
       Emit, AskManual, Sign, Ensure, EnsureNothing, Raise
  <2> QED
    BY <2>2, MoveRow, SaveStatusRow DEF Move
<1> QED
  BY <1>1, FiledHolds, PTL DEF Spec, PauseHolds

-----------------------------------------------------------------------------
(* What a step of a handler can be: a beginning, an end, an await that     *)
(* leaves the log alone, or an event.                                      *)
Begins(r) ==
  /\ req[r].result = "none" /\ UNCHANGED log
  /\ \E c \in Request :
       /\ req' = [req EXCEPT ![r] = c] /\ c.kind \in Kinds
       /\ c.result = "refused" \/ (c.result = "running" /\ c.rest = Plan(c.kind))

Stops(r) ==
  /\ req[r].result = "running" /\ UNCHANGED log
  /\ \E c \in Request :
       req' = [req EXCEPT ![r] = c] /\ c.kind = req[r].kind /\ c.result = "refused"

GoesOn(r) ==
  /\ req[r].result = "running" /\ UNCHANGED log /\ req[r].rest[1] \notin Events
  /\ \E q \in Request :
       /\ req' = [req EXCEPT ![r] = After(q, Tail(q.rest))]
       /\ q.kind = req[r].kind /\ q.rest = req[r].rest /\ q.result = "running"
       /\ \/ q = req[r]
          \/ /\ req[r].rest[1] \in Loads
             /\ (req[r].step # None \/ ~Moves(req[r].kind)) => q.step = req[r].step

Act(r) ==
  \/ Webhook(r) \/ CallTool(r) \/ CallRoute(r) \/ RejectWebhook(r) \/ RejectCall(r)
  \/ Load(r) \/ Emit(r) \/ Move(r) \/ SaveStatus(r)
  \/ AskManual(r) \/ Sign(r) \/ Ensure(r) \/ EnsureNothing(r) \/ Raise(r)

LEMMA BeginsWith ==
  ASSUME Filed, NEW r \in Reqs, NEW kind \in Kinds, NEW step \in Named \cup {None},
         Begin(r, kind, step) \/ Reject(r, kind)
  PROVE  Begins(r)
<1>1. UNCHANGED log /\ req[r].result = "none"
  BY DEF Begin, Reject, Idle
<1>2. CASE Begin(r, kind, step)
  <2> DEFINE c == [Idle EXCEPT !.kind = kind, !.step = step, !.rest = Plan(kind),
                               !.result = "running"]
  <2>1. c \in Request /\ c.kind = kind /\ c.rest = Plan(kind) /\ c.result = "running"
    BY IdleFits, PlanSound DEF Request, Idle, Sound
  <2>2. req' = [req EXCEPT ![r] = c]
    BY <1>2 DEF Begin
  <2> HIDE DEF c
  <2> QED
    BY <1>1, <2>1, <2>2 DEF Begins
<1>3. CASE Reject(r, kind)
  <2> DEFINE c == [Idle EXCEPT !.kind = kind, !.result = "refused"]
  <2>1. c \in Request /\ c.kind = kind /\ c.result = "refused"
    BY IdleFits DEF Request, Idle
  <2>2. req' = [req EXCEPT ![r] = c]
    BY <1>3 DEF Reject
  <2> HIDE DEF c
  <2> QED
    BY <1>1, <2>1, <2>2 DEF Begins
<1> QED
  BY <1>2, <1>3

LEMMA StopsWith ==
  ASSUME Filed, NEW r \in Reqs, Running(r), Refuse(r), UNCHANGED log PROVE Stops(r)
<1> DEFINE c == [Idle EXCEPT !.kind = req[r].kind, !.result = "refused"]
<1>1. c \in Request /\ c.kind = req[r].kind /\ c.result = "refused"
  BY IdleFits, ReqFacts DEF Request, Idle
<1>2. req' = [req EXCEPT ![r] = c]
  BY DEF Refuse
<1> HIDE DEF c
<1> QED
  BY <1>1, <1>2 DEF Stops, Running

LEMMA ActCases ==
  ASSUME Filed, NEW r \in Reqs, Act(r)
  PROVE  Begins(r) \/ Stops(r) \/ GoesOn(r) \/ Emit(r)
<1>1. CASE Webhook(r) \/ CallTool(r) \/ CallRoute(r) \/ RejectWebhook(r) \/ RejectCall(r)
  <2>1. Webhook(r) => Begins(r)
    BY BeginsWith DEF Webhook, Kinds
  <2>2. RejectWebhook(r) => Begins(r)
    BY BeginsWith DEF RejectWebhook, Kinds
  <2>3. RejectCall(r) => Begins(r)
    BY BeginsWith DEF RejectCall, Kinds
  <2>4. CallRoute(r) => Begins(r)
    BY BeginsWith DEF CallRoute, Kinds
  <2>5. CallTool(r) => Begins(r)
    <3>1. \A tool : NamedSteps(tool) \subseteq Named \cup {None}
      BY DEF NamedSteps
    <3> QED
      BY <3>1, BeginsWith DEF CallTool, Kinds
  <2> QED
    BY <1>1, <2>1, <2>2, <2>3, <2>4, <2>5
<1>2. CASE Raise(r)
  BY <1>2, StopsWith DEF Raise
<1>3. CASE Load(r)
  <2>1. Does(r, Loads) /\ UNCHANGED log /\ Running(r)
    BY <1>3 DEF Load, Does
  <2>2. CASE Refuse(r)
    BY <2>1, <2>2, StopsWith
  <2>3. CASE GoOnWith(r, [req[r] EXCEPT !.snap = row, !.step = StepMeant(r)], Tail(req[r].rest))
    <3> DEFINE q == [req[r] EXCEPT !.snap = row, !.step = StepMeant(r)]
    <3>1. req[r] \in Request /\ req[r].rest[1] \in Loads /\ req[r].result = "running"
      BY <2>1, DoesFacts, ReqFacts
    <3>2. row \in Rows /\ row.step \in Steps /\ StepMeant(r) \in Named \cup {None}
      BY ReqFacts, Constants DEF Filed, Rows, StepMeant
    <3>3. /\ q \in Request /\ q.kind = req[r].kind /\ q.rest = req[r].rest
          /\ q.result = "running" /\ q.step = StepMeant(r)
      BY <3>1, <3>2 DEF Request
    <3>4. req' = [req EXCEPT ![r] = After(q, Tail(req[r].rest))]
      BY <2>3 DEF GoOnWith, After
    <3> HIDE DEF q
    <3>5. (req[r].step # None \/ ~Moves(req[r].kind)) => q.step = req[r].step
      BY <3>3 DEF StepMeant
    <3>6. req[r].rest[1] \notin Events
      BY <3>1 DEF Loads, Events
    <3> QED
      BY <2>1, <3>1, <3>3, <3>4, <3>5, <3>6 DEF GoesOn
  <2> QED
    BY <1>3, <2>2, <2>3 DEF Load
<1>4. CASE Move(r) \/ SaveStatus(r) \/ AskManual(r) \/ Sign(r) \/ Ensure(r) \/ EnsureNothing(r)
  <2> DEFINE ops == {"move", "pause", "resume", "finalize", "manual", "sign", "ensure"}
  <2>1. Does(r, ops) /\ UNCHANGED log /\ GoOn(r)
    BY <1>4 DEF Move, SaveStatus, AskManual, Sign, Ensure, EnsureNothing, Does1, Does
  <2>2. req[r].result = "running" /\ req[r].rest[1] \in ops /\ req[r] \in Request
    BY <2>1, DoesFacts, ReqFacts
  <2>3. req[r].rest[1] \notin Events
    BY <2>2 DEF Events
  <2>4. req' = [req EXCEPT ![r] = After(req[r], Tail(req[r].rest))]
    BY <2>1 DEF GoOn, GoOnWith, After
  <2> QED
    BY <2>1, <2>2, <2>3, <2>4 DEF GoesOn
<1> QED
  BY <1>1, <1>2, <1>3, <1>4 DEF Act

LEMMA AfterIs ==
  ASSUME NEW q \in Request, q.result = "running", NEW t
  PROVE  /\ After(q, t).kind = q.kind /\ After(q, t).step = q.step
         /\ After(q, t).result = IF t = <<>> THEN "accepted" ELSE "running"
         /\ t # <<>> => After(q, t).rest = t /\ After(q, t).snap = q.snap
<1>1. CASE t = <<>>
  BY <1>1 DEF After, Idle
<1>2. CASE t # <<>>
  BY <1>2 DEF After, Request
<1> QED
  BY <1>1, <1>2

-----------------------------------------------------------------------------
(* Words: until a sentence is recorded, its record is still to come.       *)
Said(l, r) == \E j \in DOMAIN l : l[j].by = r /\ l[j].type = "utterance"

Words ==
  /\ \A r \in Reqs : (req[r].result = "running" /\ req[r].kind \in Intents) =>
       Said(log, r) \/ WordsToCome(req[r].rest)
  /\ \A i \in DOMAIN log : req[log[i].by].result # "none"
  /\ \A i \in DOMAIN log : (req[log[i].by].kind \in Intents /\ log[i].type # "utterance") =>
       \E j \in 1 .. i - 1 : log[j].by = log[i].by /\ log[j].type = "utterance"

LEMMA LogFacts ==
  ASSUME Filed
  PROVE  \A i \in DOMAIN log : log[i] \in LogRow /\ log[i].by \in Reqs /\ log[i].type \in Events
<1>1. \A i \in DOMAIN log : log[i] \in LogRow
  <2>1. log \in Seq(LogRow)
    BY DEF Filed
  <2> QED
    BY <2>1
<1> QED
  BY <1>1 DEF LogRow

LEMMA WordsTail ==
  ASSUME NEW s \in Seq(Ops), s # <<>>, s[1] # "utterance", WordsToCome(s)
  PROVE  WordsToCome(Tail(s))
<1> DEFINE t == Tail(s)
<1>1. Suffix(t, s, 1) /\ t \in Seq(Ops) /\ DOMAIN t = 1 .. Len(t) /\ Len(t) \in Nat
  BY TailSuffix DEF Suffix
<1> HIDE DEF t
<1> SUFFICES ASSUME NEW i \in DOMAIN t, t[i] \in Events \ {"utterance"}
             PROVE  \E j \in 1 .. i - 1 : t[j] = "utterance"
  BY DEF WordsToCome, t
<1>2. i + 1 \in DOMAIN s /\ t[i] = s[i + 1] /\ i \in Nat /\ (i + 1) - 1 = i
  BY <1>1 DEF Suffix
<1>3. PICK j \in 1 .. i : s[j] = "utterance"
  BY <1>2 DEF WordsToCome
<1>4. j # 1 /\ j - 1 \in 1 .. i - 1 /\ j - 1 \in DOMAIN t /\ (j - 1) + 1 = j
  BY <1>1, <1>2, <1>3
<1>5. t[j - 1] = "utterance"
  BY <1>1, <1>3, <1>4 DEF Suffix
<1> QED
  BY <1>4, <1>5

(* The log stays, and a request keeps its kind or begins.                  *)
LEMMA QuietWords ==
  ASSUME Filed, Words, NEW r \in Reqs, NEW c \in Request, req' = [req EXCEPT ![r] = c],
         UNCHANGED log, c.result # "none",
         req[r].result = "none" \/ c.kind = req[r].kind,
         (c.result = "running" /\ c.kind \in Intents) => Said(log, r) \/ WordsToCome(c.rest)
  PROVE  Words'
<1>1. \A p \in Reqs : req'[p] = IF p = r THEN c ELSE req[p]
  BY ReqFacts
<1>2. \A i \in DOMAIN log : log[i].by \in Reqs
  BY LogFacts
<1>3. \A i \in DOMAIN log : req'[log[i].by].result # "none"
  BY <1>1, <1>2 DEF Words
<1>4. \A i \in DOMAIN log : req'[log[i].by].kind = req[log[i].by].kind
  BY <1>1, <1>2 DEF Words
<1>5. \A p \in Reqs : (req'[p].result = "running" /\ req'[p].kind \in Intents) =>
        Said(log, p) \/ WordsToCome(req'[p].rest)
  BY <1>1 DEF Words
<1> QED
  BY <1>3, <1>4, <1>5 DEF Words

LEMMA EmitWords ==
  ASSUME Filed, Words, NEW r \in Reqs, Emit(r) PROVE Words'
<1> DEFINE n == Len(log) + 1
           c == After(req[r], AfterEmit(r))
           type == req[r].rest[1]
<1>1. /\ req[r] \in Request /\ req[r].result = "running" /\ req[r].rest # <<>>
      /\ 1 \in DOMAIN req[r].rest
  BY ReqFacts, DoesFacts DEF Emit
<1>2. req' = [req EXCEPT ![r] = c]
  BY DEF Emit, GoOnWith, After
<1>3. c.kind = req[r].kind /\ c.result # "none"
  BY <1>1, AfterIs
<1>4. /\ DOMAIN log = 1 .. Len(log) /\ Len(log) \in Nat /\ DOMAIN log' = 1 .. n
      /\ log'[n].by = r /\ log'[n].type = type /\ type \in Events
      /\ \A i \in 1 .. Len(log) : log'[i] = log[i]
  <2>1. /\ log' \in Seq(LogRow) /\ Len(log') = n /\ type \in Events
        /\ log'[n] = [type |-> type, step |-> EventStep(r, type), by |-> r]
        /\ \A i \in 1 .. Len(log) : log'[i] = log[i]
    BY EmitFacts
  <2>2. log'[n].by = r /\ log'[n].type = type
    BY <2>1
  <2> HIDE DEF type
  <2> QED
    BY <2>1, <2>2, ReqFacts
<1> HIDE DEF c
<1>5. \A p \in Reqs : req'[p].kind = req[p].kind
                      /\ (req[p].result # "none" => req'[p].result # "none")
  BY <1>2, <1>3, ReqFacts
<1>6. \A i \in 1 .. Len(log) : log[i].by \in Reqs
  BY <1>4, LogFacts
<1>7. ASSUME req[r].kind \in Intents, type # "utterance" PROVE Said(log, r)
  <2>1. ~WordsToCome(req[r].rest)
    <3>1. \A j : j \notin 1 .. 1 - 1
      OBVIOUS
    <3> QED
      BY <1>1, <1>4, <1>7, <3>1 DEF WordsToCome
  <2> QED
    BY <1>1, <1>7, <2>1 DEF Words
<1> HIDE DEF type
<1>8. \A p \in Reqs : Said(log, p) => Said(log', p)
  BY <1>4 DEF Said
<1>9. req[r].kind \in Intents => Said(log', r)
  <2>1. CASE type = "utterance"
    <3>1. n \in DOMAIN log'
      BY <1>4
    <3> QED
      BY <1>4, <2>1, <3>1 DEF Said
  <2> QED
    BY <1>7, <1>8, <2>1
<1>10. \A p \in Reqs : (req'[p].result = "running" /\ req'[p].kind \in Intents) =>
         Said(log', p) \/ WordsToCome(req'[p].rest)
  <2> SUFFICES ASSUME NEW p \in Reqs, p # r, req'[p].result = "running", req'[p].kind \in Intents
               PROVE  Said(log', p) \/ WordsToCome(req'[p].rest)
    BY <1>5, <1>9
  <2>1. req'[p] = req[p]
    BY <1>2, ReqFacts
  <2> QED
    BY <1>8, <2>1 DEF Words
<1>11. \A i \in DOMAIN log' : req'[log'[i].by].result # "none"
  <2> SUFFICES ASSUME NEW i \in DOMAIN log' PROVE req'[log'[i].by].result # "none"
    OBVIOUS
  <2>1. CASE i = n
    BY <1>1, <1>4, <1>5, <2>1
  <2>2. CASE i # n
    <3>1. i \in 1 .. Len(log)
      BY <1>4, <2>2
    <3> QED
      BY <1>4, <1>5, <1>6, <3>1 DEF Words
  <2> QED
    BY <2>1, <2>2
<1>12. ASSUME NEW i \in DOMAIN log', req'[log'[i].by].kind \in Intents, log'[i].type # "utterance"
       PROVE  \E j \in 1 .. i - 1 : log'[j].by = log'[i].by /\ log'[j].type = "utterance"
  <2>1. CASE i = n
    <3>1. Said(log, r)
      BY <1>4, <1>5, <1>7, <1>12, <2>1
    <3>2. i - 1 = Len(log)
      BY <1>4, <2>1
    <3> QED
      BY <1>4, <2>1, <3>1, <3>2 DEF Said
  <2>2. CASE i # n
    <3>1. i \in 1 .. Len(log) /\ \A j \in 1 .. i - 1 : j \in 1 .. Len(log)
      BY <1>4, <2>2
    <3>2. req[log[i].by].kind \in Intents /\ log[i].type # "utterance"
      BY <1>4, <1>5, <1>6, <1>12, <3>1
    <3>3. \E j \in 1 .. i - 1 : log[j].by = log[i].by /\ log[j].type = "utterance"
      BY <1>4, <3>1, <3>2 DEF Words
    <3> QED
      BY <1>4, <3>1, <3>3
  <2> QED
    BY <2>1, <2>2
<1> QED
  BY <1>10, <1>11, <1>12 DEF Words

LEMMA NextWords == Filed /\ Words /\ [Next]_vars => Words'
<1> SUFFICES ASSUME Filed, Words, [Next]_vars PROVE Words'
  OBVIOUS
<1>1. CASE UNCHANGED vars
  BY <1>1 DEF vars, Words
<1>2. ASSUME NEW r \in Reqs, Act(r) PROVE Words'
  <2>1. CASE Begins(r)
    <3>1. PICK c \in Request :
            /\ req' = [req EXCEPT ![r] = c] /\ c.kind \in Kinds
            /\ c.result = "refused" \/ (c.result = "running" /\ c.rest = Plan(c.kind))
      BY <2>1 DEF Begins
    <3> QED
      BY <2>1, <3>1, PlanSound, QuietWords DEF Begins
  <2>2. CASE Stops(r)
    BY <2>2, QuietWords DEF Stops
  <2>3. CASE GoesOn(r)
    <3>1. PICK q \in Request :
            /\ req' = [req EXCEPT ![r] = After(q, Tail(q.rest))]
            /\ q.kind = req[r].kind /\ q.rest = req[r].rest /\ q.result = "running"
      BY <2>3 DEF GoesOn
    <3> DEFINE c == After(q, Tail(q.rest))
    <3>2. /\ req[r].result = "running" /\ UNCHANGED log /\ req[r].rest[1] # "utterance"
          /\ req[r].rest # <<>> /\ req[r].rest \in Seq(Ops)
      BY <2>3, ReqFacts DEF GoesOn, Events, Fits, Script
    <3>3. c.kind = q.kind /\ c.result # "none" /\ (c.result = "running" => c.rest = Tail(q.rest))
      BY <3>1, AfterIs
    <3>4. req' = [req EXCEPT ![r] = c]
      BY <3>1
    <3>5. (c.result = "running" /\ c.kind \in Intents) => Said(log, r) \/ WordsToCome(c.rest)
      BY <3>1, <3>2, <3>3, WordsTail DEF Words
    <3>6. c \in Request
      BY <3>4, ReqFacts, NextFiled DEF Filed
    <3>7. c.result # "none" /\ c.kind = req[r].kind /\ UNCHANGED log
      BY <3>1, <3>2, <3>3
    <3> HIDE DEF c
    <3> QED
      BY <3>4, <3>5, <3>6, <3>7, QuietWords
  <2> QED
    BY <1>2, <2>1, <2>2, <2>3, ActCases, EmitWords
<1> QED
  BY <1>1, <1>2 DEF Next, Act

(* The technician's words are on record before anything else that the      *)
(* sentence has caused, however many requests are handled beside it.       *)
THEOREM WordsAreFirst == Spec => []WordsComeFirst
<1>1. Init => Words
  BY DEF Init, Words, Idle
<1>2. Words => WordsComeFirst
  BY DEF Words, WordsComeFirst
<1> QED
  BY <1>1, <1>2, NextWords, FiledHolds, PTL DEF Spec

-----------------------------------------------------------------------------
(* Told: the effects of a handler up to some m-th are in the log, under    *)
(* the step that it files under, and the others are still to come.         *)
StepOf(q) == IF q.step # None THEN q.step ELSE q.snap.step

Chain(l, kind, r, s, m) ==
  \E place \in [1 .. m -> DOMAIN l] :
    \A n \in 1 .. m :
      /\ l[place[n]] = [type |-> Effects(kind)[n], step |-> s, by |-> r]
      /\ n > 1 => place[n - 1] < place[n]

(* From the first effect on the step that it files under is settled.       *)
Settled(q) ==
  IF Moves(q.kind) THEN q.step # None ELSE \A i \in DOMAIN q.rest : q.rest[i] \notin Loads

Halfway(q, l, r) ==
  \E m \in 0 .. Len(Effects(q.kind)) :
    /\ Chain(l, q.kind, r, StepOf(q), m)
    /\ ToCome(q.kind, q.rest, m)
    /\ m > 0 => Settled(q)

ToldOf(q, l, r) ==
  /\ q.result = "running" => Halfway(q, l, r)
  /\ q.result = "accepted" => \E s \in Named : Chain(l, q.kind, r, s, Len(Effects(q.kind)))

Told == \A r \in Reqs : ToldOf(req[r], log, r)

LEMMA ChainBegins == \A l, kind, r, s : Chain(l, kind, r, s, 0)
<1> SUFFICES ASSUME NEW l, NEW kind, NEW r, NEW s PROVE Chain(l, kind, r, s, 0)
  OBVIOUS
<1> DEFINE place == [n \in 1 .. 0 |-> n]
<1>1. place \in [1 .. 0 -> DOMAIN l]
  OBVIOUS
<1> HIDE DEF place
<1>2. \A n : n \notin 1 .. 0
  OBVIOUS
<1> QED
  BY <1>1, <1>2 DEF Chain

(* The log grows at its end, by at most one row.                           *)
Grows(l, k) ==
  /\ Len(l) \in Nat /\ DOMAIN l = 1 .. Len(l) /\ Len(k) \in Nat /\ DOMAIN k = 1 .. Len(k)
  /\ Len(l) <= Len(k) /\ \A i \in 1 .. Len(l) : k[i] = l[i]

LEMMA ChainStays ==
  ASSUME NEW l, NEW k, Grows(l, k), NEW kind, NEW r, NEW s, NEW m, Chain(l, kind, r, s, m)
  PROVE  Chain(k, kind, r, s, m)
<1>1. PICK place \in [1 .. m -> DOMAIN l] :
        \A n \in 1 .. m : /\ l[place[n]] = [type |-> Effects(kind)[n], step |-> s, by |-> r]
                          /\ n > 1 => place[n - 1] < place[n]
  BY DEF Chain
<1>2. \A i \in DOMAIN l : i \in DOMAIN k /\ k[i] = l[i]
  BY DEF Grows
<1>3. place \in [1 .. m -> DOMAIN k] /\ \A n \in 1 .. m : k[place[n]] = l[place[n]]
  BY <1>1, <1>2
<1>4. \A n \in 1 .. m : /\ k[place[n]] = [type |-> Effects(kind)[n], step |-> s, by |-> r]
                        /\ n > 1 => place[n - 1] < place[n]
  BY <1>1, <1>3
<1> QED
  BY <1>3, <1>4 DEF Chain

LEMMA ChainGrows ==
  ASSUME NEW l, NEW k, Grows(l, k), Len(k) = Len(l) + 1, NEW kind, NEW r, NEW s, NEW m \in Nat,
         Chain(l, kind, r, s, m),
         k[Len(k)] = [type |-> Effects(kind)[m + 1], step |-> s, by |-> r]
  PROVE  Chain(k, kind, r, s, m + 1)
<1>1. PICK place \in [1 .. m -> DOMAIN l] :
        \A n \in 1 .. m : /\ l[place[n]] = [type |-> Effects(kind)[n], step |-> s, by |-> r]
                          /\ n > 1 => place[n - 1] < place[n]
  BY DEF Chain
<1> DEFINE to == [n \in 1 .. m + 1 |-> IF n = m + 1 THEN Len(k) ELSE place[n]]
<1>2. \A n \in 1 .. m : place[n] \in 1 .. Len(l) /\ place[n] \in Nat /\ place[n] < Len(k)
  BY <1>1 DEF Grows
<1>3. /\ Len(k) \in DOMAIN k /\ to[m + 1] = Len(k)
      /\ \A n \in 1 .. m : to[n] = place[n] /\ to[n] \in DOMAIN k
  BY <1>2 DEF Grows
<1>4. \A n \in 1 .. m + 1 : n \in 1 .. m \/ n = m + 1
  OBVIOUS
<1>5. to \in [1 .. m + 1 -> DOMAIN k]
  BY <1>2, <1>4 DEF Grows
<1> HIDE DEF to
<1>6. ASSUME NEW n \in 1 .. m + 1
      PROVE  /\ k[to[n]] = [type |-> Effects(kind)[n], step |-> s, by |-> r]
             /\ n > 1 => to[n - 1] < to[n]
  <2>1. CASE n = m + 1
    <3>1. n > 1 => n - 1 \in 1 .. m
      BY <2>1
    <3> QED
      BY <1>2, <1>3, <2>1, <3>1
  <2>2. CASE n # m + 1
    <3>1. n \in 1 .. m /\ (n > 1 => n - 1 \in 1 .. m)
      BY <2>2
    <3>2. k[place[n]] = l[place[n]]
      BY <1>2, <3>1 DEF Grows
    <3> QED
      BY <1>1, <1>3, <3>1, <3>2
  <2> QED
    BY <2>1, <2>2
<1> QED
  BY <1>5, <1>6 DEF Chain

(* Where nothing is left, or the move comes next, nothing is to come.      *)
LEMMA NothingToCome ==
  ASSUME NEW kind, NEW t \in Seq(Ops), NEW m \in 0 .. Len(Effects(kind)), ToCome(kind, t, m),
         t = <<>> \/ t[1] = "move"
  PROVE  m = Len(Effects(kind))
<1> DEFINE n == Len(Effects(kind))
<1>1. n \in Nat
  BY EffectsAreEvents
<1>2. PICK at \in [m + 1 .. n -> DOMAIN t] :
        \A k \in m + 1 .. n :
          t[at[k]] = Effects(kind)[k] /\ \A i \in DOMAIN t : t[i] = "move" => at[k] < i
  BY DEF ToCome
<1> HIDE DEF n
<1> SUFFICES ASSUME m # n PROVE FALSE
  BY DEF n
<1>3. n \in m + 1 .. n
  BY <1>1 DEF n
<1>4. at[n] \in DOMAIN t /\ DOMAIN t = 1 .. Len(t) /\ Len(t) \in Nat
  BY <1>2, <1>3
<1>5. t # <<>> /\ 1 \in DOMAIN t
  BY <1>4
<1>6. at[n] < 1
  BY <1>2, <1>3, <1>5
<1> QED
  BY <1>4, <1>6

LEMMA AllCame ==
  ASSUME NEW kind, NEW t PROVE ToCome(kind, t, Len(Effects(kind)))
<1> DEFINE n == Len(Effects(kind))
           at == [k \in n + 1 .. n |-> k]
<1>1. \A k : k \notin n + 1 .. n
  BY EffectsAreEvents
<1>2. at \in [n + 1 .. n -> DOMAIN t]
  BY <1>1
<1> HIDE DEF at
<1> QED
  BY <1>1, <1>2 DEF ToCome

(* The next of the plan is the next effect, or it is none of them.         *)
LEMMA OneComes ==
  ASSUME NEW kind, NEW s \in Seq(Ops), s # <<>>, NEW m \in 0 .. Len(Effects(kind)),
         ToCome(kind, s, m)
  PROVE  \/ ToCome(kind, Tail(s), m)
         \/ m + 1 \in 1 .. Len(Effects(kind)) /\ s[1] = Effects(kind)[m + 1]
            /\ ToCome(kind, Tail(s), m + 1)
<1> DEFINE n == Len(Effects(kind))
           t == Tail(s)
<1>1. n \in Nat /\ m \in Nat
  BY EffectsAreEvents
<1>2. PICK at \in [m + 1 .. n -> DOMAIN s] :
        /\ \A k \in m + 1 .. n :
             s[at[k]] = Effects(kind)[k] /\ \A i \in DOMAIN s : s[i] = "move" => at[k] < i
        /\ \A k, j \in m + 1 .. n : k < j => at[k] < at[j]
  BY DEF ToCome
<1>3. /\ t \in Seq(Ops) /\ DOMAIN s = 1 .. Len(s) /\ Len(s) \in Nat /\ DOMAIN t = 1 .. Len(s) - 1
      /\ \A i \in DOMAIN t : t[i] = s[i + 1]
  OBVIOUS
<1> HIDE DEF n, t
<1>4. ASSUME NEW p \in Nat, m <= p, \A k \in p + 1 .. n : at[k] # 1
      PROVE  ToCome(kind, t, p)
  <2>1. \A k \in p + 1 .. n : k \in m + 1 .. n
    BY <1>1, <1>4
  <2>2. \A k \in p + 1 .. n : at[k] \in 2 .. Len(s)
    <3>1. \A k \in p + 1 .. n : at[k] \in 1 .. Len(s)
      BY <1>2, <1>3, <2>1
    <3> QED
      BY <1>3, <1>4, <3>1
  <2> DEFINE to == [k \in p + 1 .. n |-> at[k] - 1]
  <2>3. \A k \in p + 1 .. n : to[k] = at[k] - 1 /\ to[k] \in DOMAIN t /\ to[k] + 1 = at[k]
    BY <1>3, <2>2
  <2>4. to \in [p + 1 .. n -> DOMAIN t]
    BY <2>3
  <2> HIDE DEF to
  <2>5. \A k \in p + 1 .. n : t[to[k]] = Effects(kind)[k]
    BY <1>2, <1>3, <2>1, <2>3
  <2>6. ASSUME NEW k \in p + 1 .. n, NEW i \in DOMAIN t, t[i] = "move" PROVE to[k] < i
    <3>1. i + 1 \in DOMAIN s /\ s[i + 1] = "move" /\ i \in Nat
      BY <1>3, <2>6
    <3>2. at[k] < i + 1
      BY <1>2, <2>1, <3>1
    <3> QED
      BY <2>2, <2>3, <3>1, <3>2
  <2>7. \A k, j \in p + 1 .. n : k < j => to[k] < to[j]
    BY <1>2, <2>1, <2>2, <2>3
  <2> QED
    BY <2>4, <2>5, <2>6, <2>7 DEF ToCome, n
<1>5. CASE \A k \in m + 1 .. n : at[k] # 1
  BY <1>1, <1>4, <1>5 DEF t
<1>6. CASE \E k \in m + 1 .. n : at[k] = 1
  <2>1. PICK k \in m + 1 .. n : at[k] = 1
    BY <1>6
  <2>2. \A j \in m + 1 .. n : at[j] \in Nat /\ at[j] >= 1
    BY <1>2, <1>3
  <2>3. k = m + 1
    <3>1. m + 1 \in m + 1 .. n
      BY <1>1, <2>1
    <3>2. ~(m + 1 < k)
      BY <1>2, <2>1, <2>2, <3>1
    <3> QED
      BY <1>1, <3>2
  <2>4. \A j \in (m + 1) + 1 .. n : at[j] # 1
    <3>1. \A j \in (m + 1) + 1 .. n : j \in m + 1 .. n /\ m + 1 < j
      BY <1>1
    <3> QED
      BY <1>2, <2>1, <2>2, <2>3, <3>1
  <2>5. ToCome(kind, t, m + 1)
    BY <1>1, <1>4, <2>4
  <2>6. s[1] = Effects(kind)[m + 1] /\ m + 1 \in 1 .. n
    BY <1>1, <1>2, <2>1, <2>3
  <2> QED
    BY <2>5, <2>6 DEF n, t
<1> QED
  BY <1>5, <1>6

LEMMA StepOfFacts == \A q \in Request : StepOf(q) \in Named
  BY Constants DEF Request, Rows, StepOf

(* What is told stays told while others file their events.                 *)
LEMMA ToldStays ==
  ASSUME NEW q, NEW l, NEW k, Grows(l, k), NEW r, ToldOf(q, l, r) PROVE ToldOf(q, k, r)
<1>1. Halfway(q, l, r) => Halfway(q, k, r)
  BY ChainStays DEF Halfway
<1>2. ASSUME NEW s \in Named, Chain(l, q.kind, r, s, Len(Effects(q.kind)))
      PROVE  Chain(k, q.kind, r, s, Len(Effects(q.kind)))
  BY <1>2, ChainStays
<1> QED
  BY <1>1, <1>2 DEF ToldOf

(* A handler that has come to its end, or goes on with what is left.       *)
LEMMA ToldAfter ==
  ASSUME NEW q \in Request, q.result = "running", NEW t \in Seq(Ops), NEW l, NEW r,
         NEW m \in 0 .. Len(Effects(q.kind)), Chain(l, q.kind, r, StepOf(q), m),
         ToCome(q.kind, t, m),
         m > 0 => IF Moves(q.kind) THEN q.step # None ELSE \A i \in DOMAIN t : t[i] \notin Loads
  PROVE  ToldOf(After(q, t), l, r)
<1> DEFINE c == After(q, t)
<1>1. /\ c.kind = q.kind /\ c.step = q.step
      /\ c.result = IF t = <<>> THEN "accepted" ELSE "running"
      /\ t # <<>> => c.rest = t /\ c.snap = q.snap
  BY AfterIs
<1> HIDE DEF c
<1>2. CASE t = <<>>
  <2>1. m = Len(Effects(q.kind))
    BY <1>2, NothingToCome
  <2> QED
    BY <1>1, <1>2, <2>1, StepOfFacts DEF ToldOf, c
<1>3. CASE t # <<>>
  <2>1. StepOf(c) = StepOf(q)
    BY <1>1, <1>3 DEF StepOf
  <2>2. m > 0 => Settled(c)
    BY <1>1, <1>3 DEF Settled
  <2>3. Halfway(c, l, r)
    BY <1>1, <1>3, <2>1, <2>2 DEF Halfway
  <2> QED
    BY <1>1, <1>3, <2>3 DEF ToldOf, c
<1> QED
  BY <1>2, <1>3

LEMMA ToldBegins ==
  ASSUME NEW c \in Request, c.kind \in Kinds, c.rest = Plan(c.kind), c.result = "running",
         NEW l, NEW r
  PROVE  ToldOf(c, l, r)
<1>1. ToCome(c.kind, c.rest, 0)
  BY PlanSound DEF Sound
<1>2. Chain(l, c.kind, r, StepOf(c), 0)
  BY ChainBegins
<1>3. 0 \in 0 .. Len(Effects(c.kind)) /\ ~(0 > 0)
  BY EffectsAreEvents
<1>4. Halfway(c, l, r)
  BY <1>1, <1>2, <1>3 DEF Halfway
<1> QED
  BY <1>4 DEF ToldOf

(* An await that files nothing: only a load settles another step, and no   *)
(* load comes after the first effect, unless the step is known.            *)
LEMMA ToldGoesOn ==
  ASSUME Filed, Told, NEW r \in Reqs, GoesOn(r)
  PROVE  \E c : req' = [req EXCEPT ![r] = c] /\ ToldOf(c, log, r)
<1>1. PICK q \in Request :
        /\ req' = [req EXCEPT ![r] = After(q, Tail(q.rest))]
        /\ q.kind = req[r].kind /\ q.rest = req[r].rest /\ q.result = "running"
        /\ \/ q = req[r]
           \/ /\ req[r].rest[1] \in Loads
              /\ (req[r].step # None \/ ~Moves(req[r].kind)) => q.step = req[r].step
  BY DEF GoesOn
<1>2. /\ req[r].result = "running" /\ req[r].rest[1] \notin Events /\ req[r].rest # <<>>
      /\ req[r].rest \in Seq(Ops)
  BY ReqFacts DEF GoesOn, Fits, Script
<1>3. PICK m \in 0 .. Len(Effects(q.kind)) :
        /\ Chain(log, q.kind, r, StepOf(req[r]), m) /\ ToCome(q.kind, q.rest, m)
        /\ m > 0 => Settled(req[r])
  BY <1>1, <1>2 DEF Told, ToldOf, Halfway
<1> DEFINE t == Tail(q.rest)
<1>4. t \in Seq(Ops) /\ Suffix(t, q.rest, 1) /\ 1 \in DOMAIN q.rest
  BY <1>1, <1>2, TailSuffix DEF Suffix
<1>5. ToCome(q.kind, t, m)
  <2>1. m + 1 \in 1 .. Len(Effects(q.kind)) => Effects(q.kind)[m + 1] \in Events
    BY EffectsAreEvents DEF EffectTypes, Events
  <2> QED
    BY <1>1, <1>2, <1>3, <2>1, OneComes
<1> HIDE DEF t
<1>6. m > 0 => IF Moves(q.kind) THEN q.step # None ELSE \A i \in DOMAIN t : t[i] \notin Loads
  BY <1>1, <1>3, <1>4 DEF Settled, Suffix
<1>7. Chain(log, q.kind, r, StepOf(q), m)
  <2>1. CASE m = 0
    BY <2>1, ChainBegins
  <2>2. CASE m # 0
    <3>1. m > 0
      BY <2>2, EffectsAreEvents
    <3>2. StepOf(q) = StepOf(req[r])
      BY <1>1, <1>3, <1>4, <3>1 DEF Settled, StepOf
    <3> QED
      BY <1>3, <3>2
  <2> QED
    BY <2>1, <2>2
<1> DEFINE c == After(q, t)
<1>8. ToldOf(c, log, r)
  BY <1>1, <1>3, <1>4, <1>5, <1>6, <1>7, ToldAfter
<1> QED
  BY <1>1, <1>8 DEF t

(* An event is the next effect or none, and after the last step, where the *)
(* move is left out, it was the last one.                                  *)
LEMMA ToldEmit ==
  ASSUME Filed, Told, NEW r \in Reqs, Emit(r)
  PROVE  ToldOf(After(req[r], AfterEmit(r)), log', r) /\ Grows(log, log')
<1> DEFINE q == req[r]
           kind == q.kind
           type == q.rest[1]
           t == Tail(q.rest)
           u == SubSeq(t, 3, Len(t))
           rest == AfterEmit(r)
<1>1. /\ q \in Request /\ q.result = "running" /\ Script(q) /\ q.rest \in Seq(Ops)
      /\ q.rest # <<>> /\ Suffix(t, q.rest, 1) /\ Suffix(u, q.rest, 3) /\ OneStep(kind, q.rest)
      /\ t \in Seq(Ops) /\ u \in Seq(Ops) /\ 1 \in DOMAIN q.rest
      /\ q.step = None => ~Moves(kind)
  BY ReqFacts, DoesFacts, EmitFacts, CutSuffix DEF Emit, Script, Suffix
<1>2. /\ Grows(log, log') /\ Len(log') = Len(log) + 1
      /\ log'[Len(log')] = [type |-> type, step |-> EventStep(r, type), by |-> r]
  <2>1. /\ log' \in Seq(LogRow) /\ Len(log') = Len(log) + 1
        /\ \A i \in 1 .. Len(log) : log'[i] = log[i]
        /\ log'[Len(log) + 1] = [type |-> type, step |-> EventStep(r, type), by |-> r]
    BY EmitFacts
  <2>2. Len(log) \in Nat /\ DOMAIN log = 1 .. Len(log)
    BY ReqFacts
  <2> HIDE DEF type
  <2> QED
    BY <2>1, <2>2 DEF Grows
<1>3. PICK m \in 0 .. Len(Effects(kind)) :
        /\ Chain(log, kind, r, StepOf(q), m) /\ ToCome(kind, q.rest, m) /\ (m > 0 => Settled(q))
  BY <1>1 DEF Told, ToldOf, Halfway
<1>4. rest = t \/ (rest = u /\ t # <<>> /\ Head(t) = "move")
  BY DEF AfterEmit
<1>5. (t # <<>> /\ Head(t) = "move") => t[1] = "move"
  BY <1>1, TailSuffix
<1> HIDE DEF t, u, rest
<1>6. ASSUME NEW p \in 0 .. Len(Effects(kind)), ToCome(kind, t, p) PROVE ToCome(kind, rest, p)
  <2>1. CASE rest = t
    BY <1>6, <2>1
  <2>2. CASE t[1] = "move"
    <3>1. p = Len(Effects(kind))
      BY <1>1, <1>6, <2>2, NothingToCome
    <3> QED
      BY <3>1, AllCame
  <2> QED
    BY <1>4, <1>5, <2>1, <2>2
<1>7. rest \in Seq(Ops) /\ \E d \in 1 .. 3 : Suffix(rest, q.rest, d)
  BY <1>1, <1>4
<1>8. CASE ToCome(kind, t, m)
  <2>1. Chain(log', kind, r, StepOf(q), m)
    BY <1>2, <1>3, ChainStays
  <2>2. m > 0 => IF Moves(kind) THEN q.step # None ELSE \A i \in DOMAIN rest : rest[i] \notin Loads
    BY <1>3, <1>7 DEF Settled, Suffix
  <2> QED
    BY <1>1, <1>2, <1>6, <1>7, <1>8, <2>1, <2>2, ToldAfter DEF rest
<1>9. CASE m + 1 \in 1 .. Len(Effects(kind)) /\ type = Effects(kind)[m + 1] /\ ToCome(kind, t, m + 1)
  <2>1. m \in Nat /\ m + 1 \in DOMAIN Effects(kind) /\ type \in EffectTypes
        /\ m + 1 \in 0 .. Len(Effects(kind))
    BY <1>9, EffectsAreEvents
  <2>2. EventStep(r, type) = StepOf(q)
    BY <2>1 DEF EventStep, StepOf, EffectTypes
  <2>3. Chain(log', kind, r, StepOf(q), m + 1)
    BY <1>2, <1>3, <1>9, <2>1, <2>2, ChainGrows
  <2>4. ASSUME ~Moves(kind), NEW i \in DOMAIN rest PROVE rest[i] \notin Loads
    <3>1. PICK d \in 1 .. 3 : Suffix(rest, q.rest, d)
      BY <1>7
    <3>2. i + d \in DOMAIN q.rest /\ rest[i] = q.rest[i + d] /\ 1 < i + d
      BY <1>7, <2>4, <3>1 DEF Suffix
    <3> QED
      BY <1>1, <1>9, <2>1, <2>4, <3>2 DEF OneStep
  <2>5. IF Moves(kind) THEN q.step # None ELSE \A i \in DOMAIN rest : rest[i] \notin Loads
    BY <1>1, <2>4
  <2> QED
    BY <1>1, <1>2, <1>6, <1>7, <1>9, <2>1, <2>3, <2>5, ToldAfter DEF rest
<1> QED
  BY <1>1, <1>3, <1>8, <1>9, OneComes DEF t

LEMMA NextTold == Filed /\ Told /\ [Next]_vars => Told'
<1> SUFFICES ASSUME Filed, Told, [Next]_vars PROVE Told'
  OBVIOUS
<1>1. CASE UNCHANGED vars
  BY <1>1 DEF vars, Told
<1>2. ASSUME NEW r \in Reqs, Act(r) PROVE Told'
  <2>1. ASSUME NEW c, req' = [req EXCEPT ![r] = c], ToldOf(c, log', r), Grows(log, log')
        PROVE  Told'
    <3>1. \A p \in Reqs : req'[p] = IF p = r THEN c ELSE req[p]
      BY <2>1, ReqFacts
    <3>2. \A p \in Reqs : ToldOf(req[p], log', p)
      BY <2>1, ToldStays DEF Told
    <3> QED
      BY <2>1, <3>1, <3>2 DEF Told
  <2>2. UNCHANGED log => Grows(log, log')
    BY ReqFacts DEF Grows
  <2>3. CASE Begins(r)
    <3>1. PICK c \in Request :
            /\ req' = [req EXCEPT ![r] = c] /\ c.kind \in Kinds
            /\ c.result = "refused" \/ (c.result = "running" /\ c.rest = Plan(c.kind))
      BY <2>3 DEF Begins
    <3>2. c.result = "refused" => ToldOf(c, log', r)
      BY DEF ToldOf
    <3>3. (c.result = "running" /\ c.rest = Plan(c.kind)) => ToldOf(c, log', r)
      BY <3>1, ToldBegins
    <3> QED
      BY <2>1, <2>2, <2>3, <3>1, <3>2, <3>3 DEF Begins
  <2>4. CASE Stops(r)
    <3>1. PICK c \in Request : req' = [req EXCEPT ![r] = c] /\ c.result = "refused"
      BY <2>4 DEF Stops
    <3>2. ToldOf(c, log', r)
      BY <3>1 DEF ToldOf
    <3> QED
      BY <2>1, <2>2, <2>4, <3>1, <3>2 DEF Stops
  <2>5. CASE GoesOn(r)
    <3>1. UNCHANGED log
      BY <2>5 DEF GoesOn
    <3>2. PICK c : req' = [req EXCEPT ![r] = c] /\ ToldOf(c, log, r)
      BY <2>5, ToldGoesOn
    <3>3. ToldOf(c, log', r)
      BY <3>1, <3>2
    <3> QED
      BY <2>1, <2>2, <3>1, <3>2, <3>3
  <2>6. CASE Emit(r)
    <3>1. req' = [req EXCEPT ![r] = After(req[r], AfterEmit(r))]
      BY <2>6 DEF Emit, GoOnWith, After
    <3> QED
      BY <2>1, <2>6, <3>1, ToldEmit
  <2> QED
    BY <1>2, <2>3, <2>4, <2>5, <2>6, ActCases
<1> QED
  BY <1>1, <1>2 DEF Next, Act

(* A request that was answered has left every event of its tool, in order  *)
(* and under one step, whatever was filed in between.                      *)
THEOREM AcceptedAreTold == Spec => []AcceptedIsTold
<1>1. Init => Told
  <2>1. Init => \A r \in Reqs : req[r] = Idle
    BY DEF Init
  <2>2. Idle.result = "none"
    BY DEF Idle
  <2> QED
    BY <2>1, <2>2 DEF Told, ToldOf
<1>2. Filed /\ Told => AcceptedIsTold
  <2> SUFFICES ASSUME Told, NEW r \in Reqs, req[r].result = "accepted"
               PROVE  \E s \in Named : \E place \in [1 .. Len(Effects(req[r].kind)) -> DOMAIN log] :
                        \A n \in DOMAIN Effects(req[r].kind) :
                          /\ log[place[n]] = [type |-> Effects(req[r].kind)[n], step |-> s, by |-> r]
                          /\ n > 1 => place[n - 1] < place[n]
    BY DEF AcceptedIsTold
  <2>1. DOMAIN Effects(req[r].kind) = 1 .. Len(Effects(req[r].kind))
    BY EffectsAreEvents
  <2> QED
    BY <2>1 DEF Told, ToldOf, Chain
<1> QED
  BY <1>1, <1>2, NextTold, FiledHolds, PTL DEF Spec
=============================================================================
