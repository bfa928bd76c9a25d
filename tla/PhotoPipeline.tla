--------------------------- MODULE PhotoPipeline ---------------------------
(***************************************************************************)
(* The evidence photos of one session: upload (UploadPhotoUseCase), and    *)
(* the validation task every upload leaves behind in the memory of the     *)
(* instance (ValidatePhotoUseCase), which asks a vision model, saves the   *)
(* verdict, stores the photo event that opens the gate of the step, and    *)
(* tells the subscribers.  Every await is a step.                          *)
(*                                                                         *)
(* The id of a photo is a fresh uuid4, here the name of the request that   *)
(* uploads it.  Nothing validates a photo but the task of its upload.      *)
(* Reading a photo (GetPhotoUseCase) changes nothing and is left out, and  *)
(* so are the numbers the notices carry and the events of other use cases  *)
(* (EventStore): here tasks lose their number to one another.              *)
(***************************************************************************)
EXTENDS SessionEvents

CONSTANTS
  Reqs,          \* uploads, each handled once; also the ids of the photos
  EventIds,      \* event_ids the app chooses; a retry repeats its id
  StepOf(_),     \* the step of the photo with an event_id, which a retry repeats
  NoPhoto,       \* no photo id
  NoId,          \* no event id
  MaxRetries     \* PHOTO_MAX_RETRIES

ASSUME UploadsAssumption == IsFiniteSet(Reqs)

ASSUME NothingAssumption == NoPhoto \notin Reqs /\ NoId \notin EventIds

ASSUME RetriesAssumption == MaxRetries \in Nat

ASSUME StepAssumption == \A id \in EventIds : StepOf(id) \in Nat

VARIABLES
  photos,        \* the evidence_photo rows, by photo id
  objects,       \* the photos whose image is in the object storage
  log,           \* the session_event rows
  heard,         \* the notices published, as <<type, photo>>
  req            \* [Reqs -> the upload and the task it leaves behind]

vars == <<photos, objects, log, heard, req>>

Refused  == {"rejected", "escalated"}
Statuses == {"pending", "accepted"} \cup Refused
Labels   == {"idle", "find", "put", "save", "announce", "schedule",      \* upload
             "fetch", "judge", "accept", "seq", "append", "count", "refuse", "tell",
             "done", "lost"}
Results  == {"none", "accepted", "not found", "invalid", "lost"}

NoRow == [status |-> "none"]

PhotoRow == [status : Statuses, id : EventIds, step : Nat, retries : Nat]

Request ==
  [pc : Labels, id : EventIds \cup {NoId}, step : Nat, photo : Reqs \cup {NoPhoto},
   seq : Nat, prior : Nat, result : Results]

Idle == [pc |-> "idle", id |-> NoId, step |-> 0, photo |-> NoPhoto, seq |-> 0, prior |-> 0,
         result |-> "none"]

EventRow ==
  [id : {Fresh}, seq : Nat, type : {"photo"}, step : Nat, photo : Reqs]

Exists(p) == photos[p] # NoRow

(* get_by_event_id, and the unique index on (session_id, event_id). *)
PhotosOf(id) == {p \in Reqs : Exists(p) /\ photos[p].id = id}

(* count_rejected_for_step *)
RefusedOf(s) ==
  {p \in Reqs : Exists(p) /\ photos[p].step = s /\ photos[p].status \in Refused}

Init ==
  /\ photos = [p \in Reqs |-> NoRow]
  /\ objects = {}
  /\ log = <<>>
  /\ heard = {}
  /\ req = [r \in Reqs |-> Idle]

At(r, label) == req[r].pc = label

Goto(r, label) == req' = [req EXCEPT ![r].pc = label]

Finish(r, result) == req' = [req EXCEPT ![r].pc = "done", ![r].result = result]

(* An exception, or the end of the instance: the app gets no answer unless *)
(* it has one already, and the task is gone.                               *)
Stop(r) ==
  req' = [req EXCEPT ![r].pc = "lost",
                     ![r].result = IF @ = "none" THEN "lost" ELSE @]

-----------------------------------------------------------------------------
(* POST /v1/sessions/{id}/photos.  The session is there and belongs to the *)
(* technician, or not, which nothing changes meanwhile.                    *)
Upload(r) ==
  /\ At(r, "idle")
  /\ \E id \in EventIds, found \in BOOLEAN :
       req' = [req EXCEPT ![r] =
                 [Idle EXCEPT !.id = id, !.step = StepOf(id),
                              !.pc = IF found THEN "find" ELSE "done",
                              !.result = IF found THEN "none" ELSE "not found"]]
  /\ UNCHANGED <<photos, objects, log, heard>>

(* A retry is answered with the photo it finds, whatever became of it.     *)
(* Type, size and first bytes of the file are checked after that.          *)
Find(r) ==
  /\ At(r, "find")
  /\ IF PhotosOf(req[r].id) # {}
     THEN \E p \in PhotosOf(req[r].id) :
            req' = [req EXCEPT ![r].pc = "done", ![r].photo = p, ![r].result = "accepted"]
     ELSE Goto(r, "put") \/ Finish(r, "invalid")
  /\ UNCHANGED <<photos, objects, log, heard>>

PutOrGoOn(r) ==                    \* mutation: an error of the storage is swallowed
  /\ At(r, "put")
  /\ Goto(r, "save")
  /\ UNCHANGED <<photos, objects, log, heard>>

Put(r) ==
  /\ At(r, "put")
  /\ objects' = objects \cup {r}
  /\ Goto(r, "save")
  /\ UNCHANGED <<photos, log, heard>>

NewPhoto(q) == [status |-> "pending", id |-> q.id, step |-> q.step, retries |-> 0]

(* The unique index refuses a second photo with the event id. *)
Save(r) ==
  /\ At(r, "save")
  /\ IF PhotosOf(req[r].id) = {}
     THEN photos' = [photos EXCEPT ![r] = NewPhoto(req[r])] /\ Goto(r, "announce")
     ELSE Stop(r) /\ UNCHANGED photos
  /\ UNCHANGED <<objects, log, heard>>

(* The signed URL, and the notice photo.captured. *)
Announce(r) ==
  /\ At(r, "announce")
  /\ heard' = heard \cup {<<"captured", r>>}
  /\ Goto(r, "schedule")
  /\ UNCHANGED <<photos, objects, log>>

ScheduleNothing(r) ==              \* mutation: the task is not created
  /\ At(r, "schedule")
  /\ req' = [req EXCEPT ![r].pc = "done", ![r].photo = r, ![r].result = "accepted"]
  /\ UNCHANGED <<photos, objects, log, heard>>

(* create_task and the answer 202. *)
Schedule(r) ==
  /\ At(r, "schedule")
  /\ req' = [req EXCEPT ![r].pc = "fetch", ![r].photo = r, ![r].result = "accepted"]
  /\ UNCHANGED <<photos, objects, log, heard>>

-----------------------------------------------------------------------------
(* The task, for the photo req[r].photo. *)
Fetch(r) ==
  /\ At(r, "fetch")
  /\ IF photos[req[r].photo].status # "pending" THEN Goto(r, "done")
     ELSE IF req[r].photo \in objects THEN Goto(r, "judge")
     ELSE Stop(r)
  /\ UNCHANGED <<photos, objects, log, heard>>

(* The vision model's verdict; that it raises is a Crash. *)
Judge(r) ==
  /\ At(r, "judge")
  /\ Goto(r, "accept") \/ Goto(r, "count")
  /\ UNCHANGED <<photos, objects, log, heard>>

Accept(r) ==
  /\ At(r, "accept")
  /\ photos' = [photos EXCEPT ![req[r].photo].status = "accepted"]
  /\ Goto(r, "seq")
  /\ UNCHANGED <<objects, log, heard>>

(* emit_system_event: the number, then the row. *)
ReadSeq(r) ==
  /\ At(r, "seq")
  /\ req' = [req EXCEPT ![r].pc = "append", ![r].seq = NextSeq(log)]
  /\ UNCHANGED <<photos, objects, log, heard>>

PhotoEvent(q) ==
  [id |-> Fresh, seq |-> q.seq, type |-> "photo", step |-> photos[q.photo].step,
   photo |-> q.photo]

AppendOrIgnore(r) ==               \* mutation: a conflict is passed over in silence
  /\ At(r, "append")
  /\ Goto(r, "tell")
  /\ IF AppendOutcome(log, PhotoEvent(req[r])) = "stored"
     THEN log' = Append(log, PhotoEvent(req[r]))
     ELSE UNCHANGED log
  /\ UNCHANGED <<photos, objects, heard>>

AppendEvent(r) ==
  /\ At(r, "append")
  /\ IF AppendOutcome(log, PhotoEvent(req[r])) = "stored"
     THEN log' = Append(log, PhotoEvent(req[r])) /\ Goto(r, "tell")
     ELSE Stop(r) /\ UNCHANGED log
  /\ UNCHANGED <<photos, objects, heard>>

CountRefused(r) ==
  /\ At(r, "count")
  /\ req' = [req EXCEPT ![r].pc = "refuse",
                        ![r].prior = Cardinality(RefusedOf(photos[req[r].photo].step))]
  /\ UNCHANGED <<photos, objects, log, heard>>

Verdict(retries) == IF retries > MaxRetries THEN "escalated" ELSE "rejected"

(* mark_rejected or mark_escalated, by the count of some awaits ago. *)
Refuse(r) ==
  /\ At(r, "refuse")
  /\ LET retries == req[r].prior + 1
     IN  photos' = [photos EXCEPT ![req[r].photo].status = Verdict(retries),
                                  ![req[r].photo].retries = retries]
  /\ Goto(r, "tell")
  /\ UNCHANGED <<objects, log, heard>>

(* photo.validated, photo.rejected or photo.escalated *)
Tell(r) ==
  /\ At(r, "tell")
  /\ heard' = heard \cup {<<photos[req[r].photo].status, req[r].photo>>}
  /\ Goto(r, "done")
  /\ UNCHANGED <<photos, objects, log>>

-----------------------------------------------------------------------------
Running(r) == req[r].pc \notin {"idle", "done", "lost"}

Crash(r) ==
  /\ Running(r)
  /\ Stop(r)
  /\ UNCHANGED <<photos, objects, log, heard>>

Step(r) ==
  \/ Find(r) \/ Put(r) \/ Save(r) \/ Announce(r) \/ Schedule(r)
  \/ Fetch(r) \/ Judge(r) \/ Accept(r) \/ ReadSeq(r) \/ AppendEvent(r)
  \/ CountRefused(r) \/ Refuse(r) \/ Tell(r)

Next == \E r \in Reqs : Upload(r) \/ Step(r) \/ Crash(r)

Spec == Init /\ [][Next]_vars

(* The event loop resumes a coroutine or task whose await has completed. *)
Fairness == \A r \in Reqs : WF_vars(Step(r))

FairSpec == Spec /\ Fairness

-----------------------------------------------------------------------------
(* A rejected photo had retries left, an escalated one had none. *)
TypeOK ==
  /\ photos \in [Reqs -> {NoRow} \cup PhotoRow]
  /\ objects \subseteq Reqs
  /\ log \in Seq(EventRow)
  /\ heard \subseteq {"captured", "accepted", "rejected", "escalated"} \X Reqs
  /\ req \in [Reqs -> Request]
  /\ \A p \in Reqs : Exists(p) =>
       /\ photos[p].status = "rejected" => photos[p].retries \in 1 .. MaxRetries
       /\ photos[p].status = "escalated" => photos[p].retries > MaxRetries

(* An event id has one photo, and whoever is told that a photo was taken   *)
(* over is told that one, retries and double taps included.                *)
AnswersNameThePhoto ==
  \A r \in Reqs :
    req[r].result = "accepted" => PhotosOf(req[r].id) = {req[r].photo}

(* A photo on record has its image: the validator never looks for an image *)
(* that is not there.                                                      *)
ImageStored == \A p \in Reqs : Exists(p) => p \in objects

PhotoEvents(p) == {i \in DOMAIN log : log[i].photo = p}

(* What opens the gate of a step is one event of a photo of this step that *)
(* is on record as accepted.                                               *)
OpenedByAccepted ==
  /\ \A i \in DOMAIN log :
       /\ Exists(log[i].photo)
       /\ photos[log[i].photo].status = "accepted" /\ photos[log[i].photo].step = log[i].step
  /\ \A p \in Reqs : \A i, j \in PhotoEvents(p) : i = j

(* An accepted photo has opened the gate, unless its task was cut short    *)
(* (by a crash, or by losing its number to another event).                 *)
AcceptedOpens ==
  \A p \in Reqs :
    (Exists(p) /\ photos[p].status = "accepted" /\ At(p, "done")) => PhotoEvents(p) # {}

(* What subscribers are told of a photo is on record, and photo.validated  *)
(* is only said when the gate is open.                                     *)
HeardIsTrue ==
  \A h \in heard :
    /\ Exists(h[2])
    /\ h[1] # "captured" => photos[h[2]].status = h[1] /\ <<"captured", h[2]>> \in heard
    /\ h[1] = "accepted" => PhotoEvents(h[2]) # {}

(* Whoever hears of a photo, in an answer or in a notice, hears what is on *)
(* record, image included.                                                 *)
PhotosAreTrue == AnswersNameThePhoto /\ ImageStored /\ HeardIsTrue

(* The retries of a refused photo never exceed the refused photos of its   *)
(* step: nobody is escalated before the step has used up its retries.      *)
RetriesEarned ==
  \A p \in Reqs :
    (Exists(p) /\ photos[p].status \in Refused) =>
      photos[p].retries <= Cardinality(RefusedOf(photos[p].step))

(* What a verdict does to the step is earned: the gate is opened by an     *)
(* accepted photo and by no other, the supervisor called by refused ones.  *)
GateIsEarned == OpenedByAccepted /\ AcceptedOpens /\ RetriesEarned

(* The verdict on a photo is given once. *)
VerdictIsFinal ==
  [][\A p \in Reqs :
       (Exists(p) /\ photos[p].status # "pending") => photos'[p] = photos[p]]_vars

(* A pending photo gets its verdict, unless its upload or task was stopped *)
(* (nothing takes up the photos a crash leaves behind).                    *)
Judged ==
  \A p \in Reqs :
    (Exists(p) /\ photos[p].status = "pending") ~>
      (photos[p].status # "pending" \/ At(p, "lost"))
=============================================================================
