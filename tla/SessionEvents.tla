--------------------------- MODULE SessionEvents ---------------------------
(***************************************************************************)
(* The event table of one maintenance session, as the Postgres adapter     *)
(* (SupabaseSessionEventRepository) and the schema present it: the rows in *)
(* insertion order, the sequence number the adapter hands out, the         *)
(* constraints an INSERT must satisfy and the three queries of the use     *)
(* cases.  A row is [id, seq, type, step]; payloads are left out except    *)
(* for the photo status, which is folded into the type: only an accepted   *)
(* photo is ever persisted as an event.                                    *)
(*                                                                         *)
(* An event that carries no client id gets a fresh uuid4.  All of those    *)
(* are the one value Fresh, which collides with nothing.                   *)
(***************************************************************************)
EXTENDS Naturals, Sequences, FiniteSets

CONSTANT
  Fresh        \* the id of every event whose id the server draws itself

(* The sequence numbers present in the table. *)
SeqsOf(log) == {log[i].seq : i \in DOMAIN log}

(* COALESCE(MAX(seq), 0): the greatest number of the table, or zero. *)
MaxSeq(log) ==
  CHOOSE m \in {0} \cup SeqsOf(log) : \A n \in {0} \cup SeqsOf(log) : n <= m

(* The number next_seq returns and append compares with. *)
NextSeq(log) == MaxSeq(log) + 1

(* get_by_event_id finds a row. *)
Known(log, id) == \E i \in DOMAIN log : log[i].id = id

(* The row get_by_event_id returns. *)
RowOf(log, id) == log[CHOOSE i \in DOMAIN log : log[i].id = id]

(* UNIQUE (session_id, id). *)
IdTaken(log, id) == id # Fresh /\ Known(log, id)

(* PRIMARY KEY (session_id, seq). *)
SeqTaken(log, seq) == seq \in SeqsOf(log)

(***************************************************************************)
(* What append does with a row, inside its transaction and under the       *)
(* advisory lock of the session: "conflict" is the ValueError of a stale   *)
(* sequence number; "duplicate" is a unique violation, after which         *)
(* Postgres refuses every further statement of the transaction, the        *)
(* fallback SELECT included, so that the call raises.                      *)
(***************************************************************************)
AppendWithoutUniqueId(log, row) ==  \* mutation: UNIQUE (session_id, id) missing
  IF row.seq # NextSeq(log) THEN "conflict" ELSE "stored"

AppendOutcome(log, row) ==
  IF row.seq # NextSeq(log) THEN "conflict"
  ELSE IF SeqTaken(log, row.seq) \/ IdTaken(log, row.id) THEN "duplicate"
  ELSE "stored"

(* list_since, as the set of its rows: those whose number exceeds "since", *)
(* the "limit" smallest numbers of them.                                   *)
ListSince(log, since, limit) ==
  LET Before(w) == {n \in SeqsOf(log) : since < n /\ n < w.seq}
  IN  {w \in {log[i] : i \in DOMAIN log} : w.seq > since /\ Cardinality(Before(w)) < limit}

(* An event of this type was stored for this step. *)
Occurs(log, type, step) ==
  \E i \in DOMAIN log : log[i].type = type /\ log[i].step = step

(* The same, before the i-th row. *)
OccursBefore(log, i, type, step) ==
  \E j \in 1 .. i - 1 : log[j].type = type /\ log[j].step = step

(* has_accepted_photo: an accepted photo event was stored for the step. *)
HasAnyPhoto(log, step) ==           \* mutation: the step is not compared
  \E i \in DOMAIN log : log[i].type = "photo"

HasAcceptedPhoto(log, step) == Occurs(log, "photo", step)
=============================================================================
