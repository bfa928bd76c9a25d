------------------------------ MODULE EventLog ------------------------------
(***************************************************************************)
(* What the event store promises the clients of one session: a log that    *)
(* only grows, in which an id chosen by a client occurs at most once, and  *)
(* answers that name the one position at which an event is recorded.       *)
(***************************************************************************)
EXTENDS Naturals, Sequences

CONSTANTS
  EventIds,    \* the ids clients choose
  Fresh        \* the id of every event whose id the server draws itself

VARIABLES
  log,         \* the recorded ids, in order
  acks         \* the answers given to clients: a set of [id, seq]

vars == <<log, acks>>

Recorded(id) == \E i \in DOMAIN log : log[i] = id

Init ==
  /\ log = <<>>
  /\ acks = {}

(* The event is recorded at the end of the log; a client's event only once. *)
Record(id) ==
  /\ id = Fresh \/ ~Recorded(id)
  /\ log' = Append(log, id)
  /\ UNCHANGED acks

(* The position of a recorded event is reported. *)
Ack(i) ==
  /\ i \in DOMAIN log
  /\ acks' = acks \cup {[id |-> log[i], seq |-> i]}
  /\ UNCHANGED log

Next ==
  \/ \E id \in EventIds \cup {Fresh} : Record(id)
  \/ \E i \in DOMAIN log : Ack(i)

Spec == Init /\ [][Next]_vars
=============================================================================
