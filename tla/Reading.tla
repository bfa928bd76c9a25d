------------------------------- MODULE Reading -------------------------------
(***************************************************************************)
(* What a user is shown of work orders, sessions and events: requests that *)
(* change nothing.  Each is a function of the user who asks and of         *)
(* what is stored:                                                         *)
(*   orders    a set of orders with id, created, assigned, asset, template *)
(*             and the fields they can be filtered by                      *)
(*   sessions  a set of sessions with id, order, technician, started       *)
(*   users     a set of users with id, role, plant                         *)
(*   assets, templates                   the ids of those there are        *)
(* Times and ids are numbers.  A filter gives, for some of the fields of   *)
(* an order, the values asked for; a cursor is a set of at most one        *)
(* position.  How the fields are worded and formatted is left out.         *)
(***************************************************************************)
EXTENDS Naturals, Sequences, FiniteSets, SequencesExt

Overseers == {"supervisor", "rag_admin"}

Refused(why) == [result |-> why, items |-> <<>>]

-----------------------------------------------------------------------------
(* Work orders. *)

(* Whose orders are listed: only a supervisor may ask for another's.       *)
(* `named' is a set of at most one user id.                                *)
AskedFor(user, named) ==
  IF user.role = "supervisor" /\ named # {} THEN CHOOSE id \in named : TRUE ELSE user.id

Passes(order, filter) == \A field \in DOMAIN filter : order[field] \in filter[field]

Position(order) == [created |-> order.created, id |-> order.id]

Before(a, b) == a.created < b.created \/ (a.created = b.created /\ a.id < b.id)

(* list_for_technician: a page of those after the cursor, and the cursor   *)
(* of its last one if there is more.                                       *)
Page(orders, technician, filter, cursor, limit) ==
  LET found == {o \in orders : /\ o.assigned = technician
                               /\ Passes(o, filter)
                               /\ \A position \in cursor : Before(position, o)}
      all   == SetToSortSeq(found, Before)
      shown == SubSeq(all, 1, Min({limit, Len(all)}))
  IN  [items |-> shown,
       next  |-> IF Len(all) > limit THEN {Position(Last(shown))} ELSE {}]

IsWhole(order, store) == order.asset \in store.assets /\ order.template \in store.templates

(* One order whose asset or procedure is missing fails the whole list.     *)
ListOrders(user, named, filter, cursor, limit, store) ==
  LET page == Page(store.orders, AskedFor(user, named), filter, cursor, limit)
  IN  IF \A i \in DOMAIN page.items : IsWhole(page.items[i], store)
      THEN [result |-> "ok", items |-> page.items, next |-> page.next]
      ELSE Refused("error")

OrderOf(id, technician, store) == {o \in store.orders : o.id = id /\ o.assigned = technician}

(* The detail is for the technician of the order and nobody else.          *)
OpenOrder(user, id, store) ==
  LET found == {o \in OrderOf(id, user.id, store) : IsWhole(o, store)}
  IN  IF found = {} THEN Refused("not found")
      ELSE [result |-> "ok", items |-> SetToSeq(found)]

-----------------------------------------------------------------------------
(* Sessions. *)

May(user, session, store) ==
  \/ session.technician = user.id
  \/ /\ user.role \in Overseers
     /\ \E t \in store.users : t.id = session.technician /\ t.plant = user.plant

(* resolve_session_for_user, which everything below begins with.           *)
ReadSession(user, id, store) ==
  LET found == {s \in store.sessions : s.id = id}
  IN  IF found = {} THEN Refused("not found")
      ELSE IF \A s \in found : May(user, s, store)
           THEN [result |-> "ok", items |-> SetToSeq(found)]
           ELSE Refused("forbidden")

(* The newest sessions of the technicians of a plant, of two that began    *)
(* at once the one stored first.                                           *)
Newest(plant, limit, store) ==
  LET found == {s \in store.sessions :
                  \E t \in store.users : t.id = s.technician /\ t.plant = plant}
      all   == SetToSortSeq(found, LAMBDA a, b :
                 a.started > b.started \/ (a.started = b.started /\ a.id < b.id))
  IN  SubSeq(all, 1, Min({limit, Len(all)}))

(* Those whose order is not the technician's are dropped from the page.    *)
PlantSessions(user, limit, store) ==
  IF user.role \notin Overseers THEN Refused("forbidden")
  ELSE [result |-> "ok",
        items  |-> SelectSeq(Newest(user.plant, limit, store),
                             LAMBDA s : OrderOf(s.order, s.technician, store) # {})]

(* The stored events after a number, and no cursor to go on from.          *)
EventsSince(user, id, since, limit, rows, store) ==
  LET later == SetToSortSeq({n \in rows : n > since}, <)
      asked == ReadSession(user, id, store)
  IN  IF asked.result # "ok" THEN asked
      ELSE [result |-> "ok", items |-> SubSeq(later, 1, Min({limit, Len(later)})), next |-> {}]
=============================================================================
