---------------------------- MODULE MCWorkOrders ----------------------------
(***************************************************************************)
(* Model-checking instance of WorkOrders: requests are interchangeable.    *)
(* And what is true of the lists that users read, for a few orders,        *)
(* sessions and users: TLC evaluates those claims before it begins.        *)
(***************************************************************************)
EXTENDS WorkOrders, FiniteSets, Sequences, TLC

R == INSTANCE Reading

Symmetry == Permutations(Reqs)

-----------------------------------------------------------------------------
User(id, role, plant) == [id |-> id, role |-> role, plant |-> plant]

People == {User(1, "technician", 1), User(2, "technician", 2), User(3, "technician", 1),
           User(4, "supervisor", 1), User(5, "rag_admin", 2)}

Order(id, created, status, assigned) ==
  [id |-> id, created |-> created, status |-> status, assigned |-> assigned,
   asset |-> 1, template |-> 1]

Store(orders, held) ==
  [orders |-> orders, sessions |-> held, users |-> People, assets |-> {1}, templates |-> {1}]

Stages == {"pending", "in_progress"}

(* Three orders of one technician, of which several may be created at the  *)
(* same time.                                                              *)
Orders(created, stage) == {Order(i, created[i], stage[i], 1) : i \in 1 .. 3}

Filters == {<<>>, [status |-> {"pending"}]}

(* What a client has read that follows the cursors to their end, while the *)
(* orders change between its first page and the next ones.                 *)
Walk(before, after, filter, limit) ==
  LET read[n \in 1 .. 4] ==
        IF n = 1 THEN R!Page(before, 1, filter, {}, limit)
        ELSE IF read[n - 1].next = {} THEN read[n - 1]
        ELSE LET page == R!Page(after, 1, filter, read[n - 1].next, limit)
             IN  [items |-> read[n - 1].items \o page.items, next |-> page.next]
  IN  read[4]

(* A client that follows the cursors comes to an end, reads the orders in  *)
(* their order and none twice, and misses none that passes its filter all  *)
(* along, also when orders are started meanwhile, the one the cursor is at *)
(* included.                                                               *)
ASSUME EveryOrderOnce ==
  \A created \in [1 .. 3 -> 1 .. 2] : \A old, new \in [1 .. 3 -> Stages] :
    \A filter \in Filters : \A limit \in 1 .. 2 :
      LET walk == Walk(Orders(created, old), Orders(created, new), filter, limit)
      IN  /\ walk.next = {}
          /\ \A i, j \in DOMAIN walk.items : i < j => R!Before(walk.items[i], walk.items[j])
          /\ \A id \in 1 .. 3 :
               (/\ R!Passes(Order(id, created[id], old[id], 1), filter)
                /\ R!Passes(Order(id, created[id], new[id], 1), filter))
               => \E i \in DOMAIN walk.items : walk.items[i].id = id

(* Nobody but a supervisor lists orders of another; and who lists an order *)
(* can open it only if it is his own, supervisors included.                *)
ASSUME ListedIsNotOpened ==
  LET store == Store({Order(i, 1, "pending", i) : i \in 1 .. 4}, {})
  IN  \A user \in People : \A named \in {{}} \cup {{i} : i \in 1 .. 5} :
        LET list == R!ListOrders(user, named, <<>>, {}, 4, store)
        IN  /\ list.result = "ok"
            /\ \A i \in DOMAIN list.items :
                 LET item == list.items[i]
                 IN  /\ item.assigned # user.id => user.role = "supervisor"
                     /\ (R!OpenOrder(user, item.id, store).result = "ok") <=>
                          (item.assigned = user.id)

-----------------------------------------------------------------------------
Held == {[id |-> i, order |-> o, technician |-> t, started |-> i] : i \in 1 .. 2, o \in 1 .. 2, t \in 1 .. 3}

(* Who lists the sessions of a plant can read each one of the list; and it *)
(* lists each session its reader may read, but for his own and those whose *)
(* order is no longer the technician's.                                    *)
ASSUME ListedIsReadable ==
  \A held \in {h \in SUBSET Held : Cardinality(h) <= 2 /\ \A s, t \in h : s.id = t.id => s = t} :
    LET store == Store({Order(i, 1, "pending", i) : i \in 1 .. 2}, held)
    IN  \A user \in People :
          LET list == R!PlantSessions(user, 2, store)
              Reads(s) == R!ReadSession(user, s.id, store).result = "ok"
          IN  /\ \A i \in DOMAIN list.items : Reads(list.items[i])
              /\ \A s \in held :
                   (Reads(s) /\ s.technician # user.id /\ s.order = s.technician) =>
                     \E i \in DOMAIN list.items : list.items[i] = s

(* Reading on from the last number that was read, a client reads all the   *)
(* events it may, in their order, although no answer has a cursor.         *)
ASSUME EventsInBatches ==
  LET session == [id |-> 1, order |-> 1, technician |-> 1, started |-> 1]
      store   == Store({}, {session})
      owner   == User(1, "technician", 1)
      After(since, limit, rows) == R!EventsSince(owner, 1, since, limit, rows, store).items
  IN  \A rows \in SUBSET (1 .. 5) : \A limit \in 1 .. 3 :
        LET read[n \in 0 .. 5] ==
              IF n = 0 THEN <<>>
              ELSE LET old == read[n - 1]
                       since == IF old = <<>> THEN 0 ELSE old[Len(old)]
                   IN  old \o After(since, limit, rows)
        IN  /\ {read[5][i] : i \in DOMAIN read[5]} = rows
            /\ \A i, j \in DOMAIN read[5] : i < j => read[5][i] < read[5][j]
=============================================================================
